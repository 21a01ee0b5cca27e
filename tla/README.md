# Ghostwright in TLA+

Ghostwright records browser tests, runs them in worker processes and keeps
their results. This directory holds TLA+ specifications of the parts of it
where order, concurrency and failure decide whether it is right, the TLC
configurations that check them on small instances, and theorems about them
that TLAPS proves for every instance.

Paths below are relative to the repository (`src/` in `PROJECT.json`).

## 1. The system

```
 browser ── pages/components ── tRPC (routers.ts) ──┐                       ┌── Redis (BullMQ, gw:lock:*)
 CI      ── REST (api.ts) ──────────────────────────┼── row, then job ──────┤
                                                    │                       └── worker: queue.ts → run.ts / login.ts
                                                    └── libsql database ───────────────┴── object store, browser, AI, webhooks
```

| component | state | operations | interacts through |
|---|---|---|---|
| application lock (`packages/queue/src/index.ts` `withLock`) | `gw:lock:<key>` = token with an expiry; the token in the caller's memory | SET NX PX, run `fn`, compare-and-delete | Redis; called by the worker processor |
| run queue and worker loop (`apps/worker/src/queue.ts`) | BullMQ jobs, concurrency slots | take a job, derive the application's key, run or defer | lock, database (reads), `executeRun` |
| run execution (`apps/worker/src/run.ts`) | `run` row, `step_result` rows, objects under `runs/<id>/`, a browser | set up, attempts, re-authentication, retries, verdict, alerts, triage | database, object store, `captureLoginState`, alerts |
| login capture (`apps/worker/src/login.ts`) | `login_flow.storageStateRef` and status, `capture_run` rows | capture, store session | `loginFlows.*` of the web application |
| producers (`routers.ts` `enqueueTestRuns`, `runs.retry`; `api.ts` `enqueueRun`) | `run` row, job | insert row, add job, wait for a verdict | database, queue |
| baselines (`visual.ts`, `baselines.approve`) | baseline rows and images | adopt, compare, approve | database, object store |
| alerts (`alerts.ts`) | alert configurations, earlier runs | previous status, triggers, send | database, webhooks |
| catalogue (`routers.ts`) | the sixteen tables | each mutation of tests, folders, actions, login flows, secrets, schedules, keys and alerts; the fan-out of runs | database, queue |
| REST call (`api.ts`, `execute.ts`) | none between its reads | queue a run, wait, answer | database |
| test language (`packages/dsl`) | none | parse, compile, choose and heal locators, expand actions, describe, generate and parse a script | called by the worker, the pages and the server |
| variables (`variables.ts`, `run.ts`) | one store per attempt | seed by data row and secrets, draw built-ins, interpolate, redact | the step runners |
| step builder (`StepBuilder.tsx`, `stepActions.ts`, modals) | the form, the module's example, one request and the actions being saved | add, edit, move, remove, nest, save, save as action, close | tRPC |
| polling pages (`TestList`, `RunNow`, `RecentRuns`, `TestSettings`, run page) | signals, timers, requests | poll, tick, start a batch, fold, file, rename, remove, retry, save, leave | tRPC |
| artifact store, schema, AI client, crypto, logger, network guard | see `PROJECT.json` | | |

### What is hard

- **Interleaving.** Several workers with several slots each, all driving the
  same applications. Requests to Redis, their replies, lease expiry and
  late releases come in any order. Users delete runs, edit login flows and
  delete captures while workers use them, and nobody tells the worker.
- **Failure.** Workers die in mid-run; BullMQ takes slow ones for dead. Redis,
  the database, the object store and the browser fail in between two related
  writes.
- **Reuse of rows.** A retried attempt writes over its own run's rows and
  objects; a redelivered job writes over a finished run.
- **Budgets.** Step retries, run retries and one re-authentication nest.

### What makes each component correct

- lock: two jobs never execute under one key; a late release never removes
  another job's lock; a dead holder cannot block a key for ever.
- queue: runs that touch one application never overlap; a run is never
  executed twice at once; every run that was asked for ends; a busy
  application does not use up the slots of the others.
- execution: the committed verdict is explained by the step rows under it; it
  is committed once and not overwritten; retries are exactly as many as asked
  for; no path leaks a browser or leaves the row unfinished; a deleted run
  leaves nothing behind.
- login capture: the stored session comes from a login that passed, and from
  the steps the flow has now; every capture settles and closes its browser.
- baselines: image and rows agree; an approved image is replaced by approvals
  only; a browser is compared with its own baseline.
- alerts: a change is told if and only if there was one; an incident is open
  if and only if the last verdict failed.
- catalogue: rows refer to rows that exist; everything that was made is on the
  tree and in the lists; a fan-out is complete; updates of other columns last.
- language: schema, sentence, script and run mean the same element and action;
  a gate covers all it gates.
- variables: one value per name and run; secrets win and never leave in errors.
- step builder: what the user saw at the click is what is stored, once, and it
  can run.
- pages: one chain of polls; no second run from one button; what is shown
  becomes what the server has; silence after leaving.

`PROJECT.json` lists every hazard with its line and the properties that catch
it, and every component with what is modelled of it.

## 2. Modules

| module | models | proofs |
|---|---|---|
| `AppMutex` | what `withLock` promises: per key at most one caller inside | |
| `AppLock` | `withLock` with tokens, leases, re-sent commands, failed releases, restarts, a clock | `AppLockProofs` |
| `RunQueue` | producers, BullMQ, processor, deferral, stalls, crashes, over locks of the `AppMutex` kind with orphaned leases | `RunQueueProofs` |
| `RunExec` | one `executeRun` against `runs.remove` | `RunExecProofs` |
| `LoginCapture` | captures of one flow against its edits and deletions | `LoginCaptureProofs` |
| `RunResults` | visual checks, baselines and approvals, alerts and incidents, the REST call, of several runs of one test | `RunResultsProofs` |
| `DataRows` | `parseCsv` and what a pasted table means, as recursive functions | |
| `Catalog` | the mutations of `routers.ts`, statement by statement, several at once | |
| `Records` | objects as functions: how `{ ...a, ...b }` merges | |
| `StepLanguage` | the schema, `compile`, `resolveLocator`, healing, `expandActions`, the script and the sentence of a step | |
| `StepRun` | one attempt: variables, gates, step outcomes, redaction | |
| `StepBuilder` | the editor, its requests and its aliases | |
| `TestLifecycle` | the composition of the last three: edited, saved, changed by others, expanded, run | `TestLifecycleProofs` |
| `Pages` | five pages against a server that answers late or not at all | `PagesProofs` |
| `MC*` | the values TLC gives the constants | |

`AppLock` and `RunQueue` both implement `AppMutex` (property
`ImplementsMutex`): `AppLock` shows that the Redis protocol yields a mutex when
leases outlast runs, and `RunQueue` uses a mutex whose holder may die instead
of the protocol. `RunExec` opens up what `RunQueue` treats as
Begin / Commit / Throw, and treats the capture of a session as one step that
succeeds or throws; `LoginCapture` opens that one up.

### State and actions against the code

**AppLock.** `entry[k]` is the Redis value and its expiry. A delivery is
`idle → asked → granted → running → releasing → done` or ends `busy`.
`Ask` computes the token, `process.pid` and whole milliseconds of uptime;
`Acquire`/`Refuse` are Redis executing the SET; `Enter` is the arrival of the
reply. A dropped connection makes ioredis send the SET again
(`maxRetriesPerRequest: null`), which meets the job's own token
(`ResendRefused`) or, if that has expired, succeeds again. `Release` is the
Lua script, `ReleaseFails` its swallowed error, `Restart` the death of a
process. `Tick` lets time pass, but no SET is later than `SetDelay` and no
work longer than `RunBound`; neither bound is enforced by the code, so both
are constants, and `LeaseOutlastsRun`, `PromptSets` and `PidsDistinct` name
what the deployment must ensure.

**RunQueue.** `status` is the run rows, `pending` the runs between the insert
of the row and the add of the job, `jobs` BullMQ's jobs, `slot` the processor
in each concurrency slot, `lock` the locks. `LockKey` is `targetAppKey` with
its fallback, over what the version's gotos say as they are stored; `Visits` is what
the run opens: every absolute URL as it is, and relative ones under the base URL,
after actions are expanded. `Busy` then `Defer` then `Finish` is the deferral, which adds a
copy of the job before the current one returns. `Stalled` is BullMQ's check,
also when it is wrong about a live worker; `JobsWithout` says that only the
delivery that owns a job can end it. `Crash` empties a worker's slots and
leaves its locks to `LeaseExpires`. Each kind of fault can be switched on by
itself (`FaultKinds`).

**RunExec.** `row`, `rows`, `shots` are the database and the object store,
`att` the locals of `runAttempt`. The `pc` values follow `executeRun`:
load, mark running, clear the earlier attempt's rows and screenshots, launch,
loop over steps (outcome, screenshot, row), wrap up, decide on
re-authentication or retry, finalize, alerts and triage; `Throw` and `DbThrow`
are everything that reaches the catch through the finally that closes the
browser. What a step does, what the final URL is and whether a page error
occurs are free choices. `runs.remove` is three steps, `RemoveRows`,
`RemoveObjects`, `RemoveRow`, that interleave with all of this.

**LoginCapture.** An edition number stands for the flow's steps; the stored
session remembers which capture stored it and the edition whose steps that
capture had read. `removing` splits `loginFlows.remove` into its
two halves. Removing one attempt is one action, because the rows it deletes
besides are not modelled.

**RunResults.** `baselines` and `image` are the rows and the stored images of
one visual check, one per browser. `at[r]` follows `makeVisualSink`: look up,
store the screenshot, adopt (image, then row) or download and compare, then
the step row and the verdict, then `maybeSendAlerts`: the previous status is
read first, each delivery arrives by itself. `Approve*` are the three calls of
`baselines.approve`. `client` is `waitForRun`, whose deadline may come at any
time, and the reads of `resultJson`. Runs of one `App` do not overlap, which
is what `RunsOfAppSerialized` shows; runs of the test under another base URL may.
`LaunchFails` is an attempt that comes back errored and is committed and told like
any other; `Throw` is the catch of `executeRun`, which tells nobody; `Redeliver` is
a job that is served again.

**Catalog.** A table is a function from ids to rows; `References` is
`schema.ts`. `call[r]` is a request: the place its handler has come to, and
what it has read. Each action is one statement of one handler, because no
handler uses a transaction, so that `Next` interleaves handlers at every
`await`. `CheckMove` is one step although it reads one folder after the other:
the walk to the root (`Above`, the least set of folders closed under "parent")
writes nothing. `Fails` is any statement or queue call failing: of `createMany` it
costs the test in hand (`Skip`), whatever of it is queued already, and of any other
handler the request. Whether foreign keys are enforced is
chosen with the workload.

**StepLanguage, StepRun, StepBuilder, TestLifecycle.** A step is a record with
the fields the schema allows; a text is one of a few values, among them
templates (`TokenOf`). `Compile` keeps what the runner of a step type reads;
`ResolveLocator` and `Heal` choose the strategy and the backup. What an
element search finds is a free choice. In the form, a step carries `of`, the
entry of the module's example that it *is*: the code loads the example without
copying it, so an edit of the step edits the example. `request` is the one
save on its way, with what the form showed at the click; `asides` are the
saves as an action, of which there may be several. `page = "leaving"` is the
time between the assignment to `location` and the unload, in which the form is
still live. `RunStored` expands the stored steps against the actions as they
are then, and `StepRun` runs them.

**Pages.** `tasks` is what a page has under way: a timer, or an async function
at one of its awaits, with the answers that have arrived. `Serve` is the
server answering one request, at any time, or the request failing; `Resume` is
what the page does with the answer. `gen` are the generation counters by which
the components retire a chain of polls. `Others` is the worker and other pages; a run
that has ended may be served again (`Progress`), and gets its triage after its
verdict. `fan` is how many runs one press makes (browsers times rows).

`ForeignKeys` is a constant in `RunExec` and `LoginCapture`: the schema
declares references, no code turns enforcement on or off, and it depends on
the driver. TLC runs with enforcement; the theorems hold for both.

## 3. What TLC checks

| run | instance | shows |
|---|---|---|
| `lock` | 3 jobs of one key, 2 processes, lease 2, run 1, set delay 1, clock to 3 | `LockInv`; implements `AppMutex` |
| `lock_overrun` | 2 jobs, 2 processes, lease 2, run up to 3, clock to 5 | exclusion is gone, but `OwnedLockKept` holds |
| `queue` | 3 runs of 2 applications, one of which opens both and one of which opens its own inside an action, 2 workers, one fault of any kind | `QueueInv`, `RunsOfAppSerialized`, implements `AppMutex` |
| `queue_crash` | 2 runs of one application, one crash or one stall | `NotWedged`, `EveryRunFinishes` |
| `queue_noexpiry` | 3 runs, a single slot, one crash, leases never expire | `OtherAppsServed` |
| `exec` | 3 steps, 1 step retry, 2 run retries, re-authentication, page errors, one failed call, deletion | `ExecInv` (with budgets, browser, alert, end), `VerdictExplained`, `NoStaleScreenshot`, `VerdictKept`, `Terminates` |
| `exec_leftover` (violation) | 2 steps, deletion, no fault | something of the deleted run remains |
| `capture` | 2 captures, 1 edit, deletions, 1 fault | `CaptureInv` (with the browser and the settled attempt), `SessionFromPass`, `StaleOnlyByOverlap`, `CapturesEnd` |
| `authoring` | eight ways to open the builder, 1 or 2 edits and 1 or 2 saves each, forms of up to 4 steps; two actions, edited or removed by others; then one attempt | the seven properties of `TestLifecycle` |
| `catalog` | 145 workloads: two or three requests that touch the same rows, one or two failures or none; 25 pasted tables; each with foreign keys on and off | the five properties of `Catalog` |
| `results` | 2 or 3 runs on one or two base URLs and browsers; images at distance 2, tolerance 1; one approval; one fault of each kind the setup has; one REST call | the five properties of `RunResults` |
| `pages` | each page with 2 to 4 acts of its user, up to 4 turns of the others, 1 or 2 runs per press, one failed request | the five properties of `Pages` |

Fourteen more configurations, `MC<module>_<name>.cfg`, are kept beside these: each
checks one claim of a comment or of the docs that the code does not keep, on an
instance of its own or that of the module's run, and TLC ends with a
counterexample. They are listed under *Findings*; below, *refuted* marks their properties.

### The properties in words

- `OwnedLockKept`: no step takes the key from a job that owns it and goes on
  using it, late releases of expired holders included.
- `HolderOwnsLock` (in `LockInv`): while a job works, Redis holds its token on
  an unexpired lease.
- `LockMatchesExecution` (in `QueueInv`): through every fault, the locks that
  slots hold are exactly those of the runs they execute.
- `RunsOfAppSerialized`: two runs of one application do not overlap, whatever
  else either opens. A run is one of host h if h is its base URL's, or if it has
  none, opens nothing but h and says so in a goto of its own. `SameAppSerialized`
  (refuted): nor do two runs that open a common host.
- `NotWedged`: a row that says queued or running has a producer, a job or a
  delivery left to finish it.
- `VerdictExplained`: the step rows under a committed verdict are one
  attempt's, gapless, unique, and explain it.
- `NoStaleScreenshot`: no earlier attempt's screenshot survives a verdict as
  long as the object store answers.
- `ExecInv`: besides what it takes to be inductive, that a failure is committed
  after exactly `RetryOnFail` repetitions (re-authentication not counted), no
  path leaves a browser, an alert tells of the committed verdict, and an
  execution that meets no fault finishes its row. `NeverWedges` (refuted): one
  that meets any finishes it too.
- `VerdictKept`, `Terminates`: nothing after the commit changes the verdict;
  every execution ends.
- `CaptureInv`, `SessionFromPass`, `CapturesEnd`: the stored session comes from
  steps that passed; a capture that
  returns has settled its attempt and closed its browser; one that begins ends.
- `SessionIsCurrent` (refuted): the stored session is one of the steps the flow
  has. `StaleOnlyByOverlap`: it ceases to be only by a capture that read its steps
  before an edit and stores after it.
- `BaselineInv`: a baseline row always has an image; a check is held against
  its own browser's; there are two rows of one browser only if runs under
  different base URLs adopted at once. `ApprovalLasts`: only an approval
  replaces an approved image, with the same exception.
- `ChangeToldTruly`: of a run that has done its telling, a change alert was sent
  if and only if the verdict before its own was another one. It excuses histories
  in which a run was opened again, and a third verdict between the run's own and
  its comparison. `IncidentFollows`: an incident is open if and only if the newest
  verdict is bad, without faults and unless a run told after a newer verdict.
  `AlertsEvaluated`, `ChangeIsAFlip`, `IncidentMaintained` (refuted) are what
  docs and comments say without such exceptions.
- `AnswerExplained`: a settled answer of the REST call comes with the step rows
  of that verdict.
- `CatalogInv`, `EverythingListed`, `UpdatesKept`, `FanOutComplete`,
  `PastedTableStored`: what a reader of `routers.ts` assumes of it, over every
  interleaving of statements, with the exceptions named in the formulas.
  `FanOutComplete` has none for failures: of each test that is told of, everything is
  there, and no more tests are left out than calls failed. `EveryRunTold` and
  `NeverOwnAncestor` (refuted) are two documented claims without exceptions.
- `StoredInv`, `SavedAsShown`: what is stored can run, is there once per click
  (once more per lost answer) and does what the form showed at the click.
- `SentenceMatchesRun`, `CodeDoesTheSame`: four parts of the code choose what a
  locator with several strategies means; the sentence, the script and the run
  agree, for every step that the builder can make.
  `CodeDoesTheSame` leaves out frames and retries; `ScriptInverse` (refuted) does not.
- `ExpansionSound`, `VariablesSound`: gates at every depth of nested actions (a
  step with a condition of its own keeps that one and loses the reference's);
  secrets and built-ins.
- `ModifiersCarried`: no edit that retargets an element loses its exactness, its
  position or its backups.
- `TargetsNamed`, `ExampleUntouched` (refuted): whatever a step acts on was named by
  somebody; no edit of a form changes the example that other forms start from.
- `PagesInv`: one chain of polls; reloads of the run page are accounted for by
  something new; folders fold as stored; a saved settings form keeps what was
  not edited. `NoSecondRun`: Run now starts nothing while a run that it started is
  active, unless an answer was lost or that run was served again. `TicksRun`: a tick
  is lost only by the user, with its test, with its batch, or (`late`) with the batch
  that was being started when it was made. `ShowsTheTruth`: a page at rest shows what
  the server has; a run's page that was loaded after the end does not learn that the
  run was served again. `QuietAfterLeaving`: a page that was left falls silent.
  `NeverADuplicate`, `EveryTickStarted`, `TriageMounted` (refuted) are what the
  components' comments say without those exceptions.

Several of these are conjunctions of properties with a name and a comment of
their own in the module; TLC checks the conjunction.

Every property of a passing run has a mutant in `PROJECT.json`: a plausible bug in the modelled
code with which the same run fails.

### Bounds, and why they are enough

- *Locks*: a wrong release needs an old holder, a new holder and (for a third
  to be let in) a waiter: three jobs. Two processes distinguish "same process"
  from "another". Three ticks let a lease of two run out and be taken again.
  `SYMMETRY` is over the jobs, which all have the same key; the run checks no
  liveness. `lock_overrun` uses five ticks so that a run can
  outlast its lease and the next holder's lease is still live when it releases;
  two jobs are enough for that.
- *Queue*: two runs of one application and one of another are the smallest
  case with both contention and independence. The first run's base URL is one
  application and a goto of its own the other's, the second has no base URL and
  opens its application first inside a shared action and then in a step: the
  three ways in which a key and what is opened may differ. `MaxJobs` is
  never what blocks a run: each run has one job, each slot that is deferring
  adds one copy and a mistaken stall leaves one job more. The liveness
  runs use two runs, or one slot, and a single kind of fault, to stay small.
- *Execution*: three steps distinguish first, middle and last; two run
  retries give an attempt that is neither first nor last; one step retry
  shows the counter being reset. One fault can hit any call. A second fault in
  the catch's own update leaves the row unfinished, which is why
  `EndsFinished` speaks of executions without one (and the invariant behind it
  of `row finished \/ faults > 0`).
- *Capture*: two captures are enough for one to overwrite the other's session;
  one edit separates old from new.
- *Results*: three runs give a verdict, one before and one between; a second
  browser shows keys kept apart; two images suffice to be the same or not.
  Alerts, baselines and the REST call do not touch one another's state, so
  each has setups of its own.
- *Catalog*: every pair of handlers that write the same rows occurs, in threes
  where a third can make a difference (folder moves, columns of one test,
  removals). Folders are a chain and one beside it, so that a move can be
  legal, or into its own child. `Meant` is defined from the table, not from the
  text, and the tables have empty, quoted and comma cells next to each other.
  Requests name rows that are there from the start: ids are random, and a client
  learns a new one only from an answer.
- *Authoring*: a form of up to four steps has a neighbour on either side;
  nesting is two levels and `MaxDepth` two (ten in the code), so that the limit
  is met; two edits reach a field after its step was added, moved or nested.
  Two saves are a retry. Texts are the empty one and a template.
- *Pages*: two requests under way in either order and an act in between need
  two or three acts; one lost answer; four turns take a run to its end, to its
  triage, and back. Two runs per press are the least of which an answer can
  lose one.

### Fairness

- `RunQueue`: `Served` gives weak fairness to every slot that is executing
  (an async function goes on), to the producers' second call and to BullMQ's
  stall check; and strong fairness to the delivery of a run's waiting job,
  because BullMQ serves waiting jobs in order while slots become free again
  and again. `Leases` is Redis's expiry; `queue_noexpiry` leaves it out. No
  fault is fair, and no failing branch is required.
- `RunExec`: weak fairness of the worker as a whole; every browser call has a
  timeout. Users are not fair.
- `LoginCapture`: weak fairness of each capture once it has begun.
- `Pages`: for each kind of task, timers fire, the server answers or the
  request fails, and an answered function continues. That a request does not
  hang for ever is assumed: `fetch` has no timeout in the code. Users and others
  are not fair.
- `RunResults`, `Catalog`, `TestLifecycle`: safety only, no fairness.

### Findings

The code disagrees with what its comments or docs say in the following. The first
is a run of the project, with the quotation in `PROJECT.json`; the others are
the configurations named, which TLC refutes when they are run:

- `exec_leftover`: `routers.ts:369-370`, deleting a run deletes what it left;
  not while it executes.
- `MCRunQueue_sameapp.cfg`: `queue.ts:73-74` and `docs/features.md:87-88`, two runs that hit
  one application never overlap. The key is one host, found in the stored steps,
  and `compile.ts:332-335` opens absolute URLs as they are: a run with a base URL
  may open other applications, and gotos in shared actions and templates count for
  nothing.
- `MCRunExec_wedged.cfg`: `run.ts:95-96`, no row is left queued or running; the update that
  is to ensure it is best effort (104).
- `MCLoginCapture_stale.cfg`: `routers.ts:446-447`, no stale session is used against an edited
  flow; `login.ts:128` stores one after the edit.
- `MCTestLifecycle_backup.cfg`: `schema.ts:43`, a locator needs a way to find its element;
  backups are not asked for one (`schema.ts:40-42`), and an empty text matches.
- `MCTestLifecycle_example.cfg`: `StepBuilder.tsx:221-222`, edits never mutate a caller's
  array; the example is loaded uncopied (384) and edited in place.
- `MCTestLifecycle_script.cfg`: `codegen.ts:63`, `fromCode(toCode(t)) === t`; not for frames
  and retries.
- `MCCatalog_partly.cfg`: `routers.ts:335` and 94, `createMany` skips what it cannot queue
  and answers the runs it made; a test whose queueing fails half way has runs that
  are in no answer.
- `MCCatalog_cycle.cfg`: `routers.ts:266-267`, a move never makes a cycle; two overlapping
  ones do. The walk on such a cycle, for a third folder, would not end (the model does
  not take such a walk).
- `MCRunResults_thrown.cfg`: `docs/features.md:212`, alerts are evaluated after each run; not
  after one that `executeRun`'s catch errors.
- `MCRunResults_flip.cfg`: `docs/features.md:209-210`, a change is from green to red or back;
  `alerts.ts:48` tells of failed to errored too.
- `MCRunResults_incident.cfg`: `alerts.ts:56`, incidents follow the verdicts; runs under
  different base URLs share one and tell in any order.
- `MCPages_duplicate.cfg`: `RunNow.tsx:8-10`, the button never starts a duplicate; it does
  not see what began since its last poll.
- `MCPages_tick.cfg`: `TestList.tsx:133-134`, each ticked test is run; not one that is
  ticked while the batch is being started.
- `MCPages_triage.cfg`: `[id].astro:308-311`, one reload mounts the triage; it is written
  after the verdict that the page reloads for.

Others that were met while modelling contradict no text of the repository, or are
assumptions of what is proved:

- `packages/queue/src/index.ts:19-21` promises exclusion without condition,
  but the ten-minute lease is never renewed and nothing bounds a run
  (`packages/dsl/src/settings.ts:42-51` sets no upper limit on retries and
  delays). The theorems `Exclusion` and `Refinement` therefore assume
  `LeaseOutlastsRun`; `TokensSafe` and `OwnedLockSafe` do not.
- `packages/queue/src/index.ts:32`: a token is pid and uptime; two containers
  whose workers have the same pid can have the same token, and then a late
  release deletes another job's lock. `PidsDistinct` names the assumption.
- A worker that dies after `run.ts:155-167` committed a verdict and before BullMQ
  completes the job has the job redelivered, and `run.ts:206` opens the finished
  row again: nothing asks whether the row is finished. `RunQueue`, `RunResults` and
  `Pages` have this behaviour; no comment or doc of the code promises otherwise.
- `queue.ts:86-88` calls its fallback key the test's own identity; it is the
  version's, so runs of two versions of a test with no known host overlap.
- `queue.ts:88` computes the key outside `executeRun`'s catch: a read that
  fails there fails the job and leaves its row queued, with nobody left. The same
  holds of an add that fails after the row is inserted, or while deferring.
- `login.ts:46` records an attempt as running before the set-up calls of
  lines 51-60, which are outside the `try`: when one throws, the attempt stays
  running. `ReturnSettles` and `BrowserClosed` therefore speak of captures
  that return.
- `expand.ts:26-30`: a step of an action that has a condition of its own loses that
  of the reference; the comment there says so.
- `StepBuilder.tsx:317-350`: what is edited while a save is on its way is lost when
  the save succeeds.
- `routers.ts:69-74`: two first requests make two projects, and what is filed
  under the second is in no list; `ensureDefaultProject` also makes an
  organisation beside the one that `ensureDefaultOrg` has made.
- `routers.ts:198-200`: `tests.update` writes the name before it refuses the
  steps that came with it.
- `visual.ts:42`: runs of a test under two base URLs take two locks and can
  both adopt; the second overwrites the first one's image, even when that has
  been approved in between.

## 4. What is proved

All proofs are checked by TLAPS, for every value of the constants that meets
the modules' assumptions.

| module | theorem | says |
|---|---|---|
| `AppLockProofs` | `TokensSafe`, `OwnedLockSafe` | with `PidsDistinct` and `PromptSets`: tokens tell deliveries apart; no step takes away an owned lock, even if runs outlast leases |
| | `LockSafe`, `Exclusion`, `Refinement` | with `LeaseOutlastsRun` too: a working job owns its lock; exclusion; `AppLock` implements `AppMutex` |
| `RunQueueProofs` | `QueueSafe`, `ExecutedAlone`, `QueueRefinement` | unconditionally: locks match execution; no run is executed twice at once; the queue is a mutex |
| | `Serialized` | `RunsOfAppSerialized`: two runs of one application never overlap, whatever else they open and whatever fails |
| | `NeverWedged` | with `FewFaults` (one death of a worker or one stall): an unfinished row always has somebody left to finish it |
| `RunExecProofs` | `ExecSafe`, `VerdictsExplained`, `BrowsersClosed`, `AlertsMatch`, `BudgetsSpent`, `RowsFinished`, `VerdictsKept` | the safety properties of `RunExec` |
| | `ShotsCurrent` | `NoStaleScreenshot`: the store holds no earlier attempt's picture under the verdict's rows, as long as no object call fails |
| `LoginCaptureProofs` | `CaptureSafe`, `SessionsFromPasses`, `StaleSessionsExplained`, `CaptureBrowsersClosed`, `ReturnsSettle` | the safety properties of `LoginCapture` |
| `RunResultsProofs` | `BaselineSafe`, `ApprovalsLast` | `BaselineInv` and `ApprovalLasts`, for any number of runs, applications, browsers, approvals and faults |
| | `AnswersExplained`, `ChangesToldTruly`, `IncidentsFollow` | the REST answer and the alerts, for every order of verdicts, deliveries and reads |
| `TestLifecycleProofs` | `RowsStored` | `StoredInv`, for every form, example, number of edits, lost answers and revisions by others |
| | `ReferencesExpanded` | `ExpansionSound`, to any depth of nesting |
| | `VariablesMeanOneThing` | `VariablesSound`, in the run of every saved test |
| | `SavedAsClicked` | `SavedAsShown`: cleaning up changes nothing that a run does |
| | `SentencesTrue`, `ScriptsTrue` | `SentenceMatchesRun` and `CodeDoesTheSame`, of every step that a form can come to show |
| | `RetargetKeeps` | `ModifiersCarried`, of every edit of a session |
| `PagesProofs` | `PagesSafe`, `OneRunPerButton`, `EveryTickRuns` | `PagesInv`, `NoSecondRun` and `TicksRun`, for any pages, servers, failures and orders of answers |
| `CatalogProofs` | `RowsHangTogether` | `CatalogInv`: versions belong to their tests, nothing dangles, removals succeed, for any number of requests interleaved in any way |
| | `AllIsListed` | `EverythingListed`: the tree of folders stays a tree, and what is made is in a list, apart from the overlaps that the property names |
| | `RunsAllQueued` | `FanOutComplete`: whatever fails below, what is answered is queued, once, for one version of each test, with each row of data in each browser that the test asks for, and a failure costs one test at most |
| | `EditsNotLost` | `UpdatesKept`: forms that save different columns keep each other's, and a refusal changes nothing but a name |

**The lock.** Exclusion is not inductive. That Redis holds the worker's token
(`HolderOwnsLock`) survives a release by somebody else only if their tokens
differ (`TokensDiffer`), and a token is just a pid and a millisecond. Two calls
of one process in one millisecond *have* the same token; what saves them is
that the first one's lease is still live while the second one's SET arrives
(`FreshTokenStored`, `SentTokenStored`), which needs `LeaseAfterToken` and
`PromptSets`. A restarted process repeats its uptimes, but its deliveries are
gone and its predecessor's tokens are used by nobody (`TokenFromProcess`).
`TokenInv` is the conjunction of these and is inductive without any bound on
runs; `LockInv` adds `HolderOwnsLock`, for which the lease must outlast runs.

**The queue.** `LockMatchesExecution` says both directions at once: a slot
that executes has its key (hence exclusion), and a slot that does not execute
has none (hence `Release` never fails to give it back). `DeliveriesNamed`
makes `LockKey` meaningful. `NotWedged` needs to know who is left
(`AttendedInv`): an unfinished row has its producer, a job that nobody works on,
or a delivery before its verdict. A death or a stall turns the third into the
second, because the dead delivery still owned its job (`DeliveriesOwn`) and the job
has not stalled before (`StallsCounted`); a second one would have BullMQ
fail the job with the row unfinished, and so would a database that fails outside the
catch. `FewFaults` says exactly that these do not happen, and is what `queue_crash`
is run with.

**An execution.** `ExecInv` adds to the promised properties where the browser
may be open, that the row is finished by the last write only (`ControlInv`),
and what the rows are at each place in the loop (`LoopInv`). The latter is
about executions whose deletion has not begun: once rows are being deleted
they explain nothing. `ShotsInv` is the same for the object store, and holds up to
the first fault: an attempt clears what the earlier one left, and takes the
screenshot of a step before the row of the step.

**A capture.** `ReadBefore` (no capture has steps that the flow has not had yet, so that
a stored session which is not of the flow's steps is of older ones), `StoreAfterPass` (only steps that passed lead to a store, and
the capture that stored has its steps behind it, so that its status no longer
changes) and `SettledFirst`.

**Baselines.** That each row has an image is not inductive: `AdoptRow` inserts a
row because `AdoptObject` put an image before it, and that image is one because
the screenshot was taken (`ShotFirst`); no image is ever taken away
(`NothingLost`). That two rows of a browser come only of runs under different base
URLs needs what a run knows of the table while it adopts (`LookedRight`): the
table was empty for its browser when it looked, and nobody of its own application
has been executed since (`OneOpen`, which is the lock's promise, here the guard
of `Begin`). The same fact is what confines the loss of an approved image to runs
under different base URLs. The assumption on the constants is that images are
non-zero numbers, so that 0 can stand for no image.

**The answer and the alerts.** The REST call reads the run's status and then
its steps; what saves it is that the worker writes in the opposite order, and that a
row with a verdict is not written again unless the run is delivered again
(`ReadOnce`, on `RowsFollow` and `PlacesFollow`, which tie a row to its run's
place and to the list of verdicts). A change is told right by what `Previous` reads
before the delivery (`Foretold`): the property's comparison with "the verdict before"
is a `CHOOSE` over the list, and the lemmas about positions in it say when the two
agree. The incident follows the *newest* verdict only because it follows that of
every run that told in its turn (`IncidentOfNewest`, for any verdict, not the last
one), which is what is inductive.

**From the form to the row.** The form can hold steps that cannot run, and the
store cannot; in between lie the page's check, the server's check of a save as
an action, requests that are answered after the page is gone, and other users.
`StoredInd` follows the steps through these: the form holds steps of the language
(`FormKnown`: every edit of every kind of step gives one again), what is on its way to
a row is checked already or will be (`SavesChecked`), and rows are counted against
lost answers (`RowsCounted`). `BuilderAssumption` and `RevisionsAssumption` say that
an editor opens on steps that parse (on none where they do not), and that the actions
that are there, or that others save, were saved by the same checks.

**What a form says.** `SentenceMatchesRun` is false of some steps of the language: a
locator without any strategy is "the element" in a sentence and a button in the
picker. No form shows one. `FormWell` is the invariant that excludes it: every
locator in the form, in the example and in the actions that can be copied has a
strategy, possibly an empty one. It holds where an editor opens because validity asks
for a strategy, and every edit of every kind keeps it (`EditedWell`), which rests on
what the picker and the drawer may change of an element (`StrategyEdited`,
`DrawerEdited`; the same two lemmas carry `RetargetKeeps`). The four orders in which the code looks
through the strategies agree on such locators (`StrategiesAgree`: editor and
run; `SentenceMeans`: sentence and run). The two theorems about what a run does compare functions
field by field: what cleaning up takes away is what a runner does not look at
(`BlankUnseen`), and what a script leaves out is filled in by the schema's
defaults or is not looked at either (`FlagFields`, `ReadBack`, `CodeSame`).

**Expansion.** `ExpandActions` is a recursive function on the depth,
over a recursive function that flattens a list. That these functions exist, and
that their equations hold for every argument, is proved by least
counterexample (`FlatteningExists`, `LevelsExist`, by `MinNat`); then the shape of what
they return follows level by level (`CarriedPart`, `InlinePart`, `LevelParts`,
`Expanded`): if the reference is gated, each step is. That a plan never
contains a reference needs that a run begins with an expanded plan only and that
nothing writes to it afterwards.

**Variables.** `BuiltinsStable` and `SecretsWin` speak of what two steps *read*.
Inductive is what the store has now: the value that was read, or one that a
step in between has assigned (`BuiltinsKept`, `SecretsKept`); every operation of the
store keeps what is there (`Resolved`, the memo of built-ins). Redaction is
complete because the secrets are in the store that seeds the list of what is struck
out, whatever row came with them (`SeededSecrets`), except that the program's own
words must not be secrets (`WordsAssumption`).

**Pages.** Under everything lies what can be under way (`ChainsKnown`): each page has
tasks of its own, a task asks the things of its kind in their order (`Stages`), a
timer belongs to the newest generation, and of that generation there is one task. `OneChain`
follows. `NoSecondRun` is about three things that disagree for a while: the
server's runs, the number the page shows, and answers that are on their way; while a
run of the button is active, the number is positive *and* so is every answer that the
newest chain has already been given and not yet read (`PressInv`). That is the reason
the chain is retired when the button is answered, and why an answer of a retired chain must not be taken
over. The page of a run reloads for what is *owed* to it: a
row or a verdict that it does not show was written since it was loaded (`Owed`, for what
the server holds and for each answer on its way). The folders agree because one change that
is alone is either shown before it is taken (a toggle) or followed by a refresh
(`FoldsKnown`). The settings go through the form by meaning, not by
value: what is left out of a form means its default, and the flag of old means one
re-run (`Migrated`, `CleanKeeps`). `SetupsAssumption` says that a server holds runs with
numbers it gave out, and a page of a run is opened on one that exists.

**The catalogue.** No handler uses a transaction, so each theorem says what a
handler may rely on *between* two of its statements. `WorkloadsAssumption` says that
the ids there are at the start are 1 to n, that the tables hang together then, and that a
request names no row that is made later; `createSchedule` and `execute` name rows
that are there (what becomes of a row that a removal takes away meanwhile is
part of the theorem). The number of failures is free; what the properties say of
removals and of dangling rows once all is done, they say of executions without one.

- *Rows* (`RowsHang`). Until a removal begins, what a handler has found or made
  since it began is there (`ThereUntilRemoved`), so that what it inserts refers to
  rows. A removal that nothing overlaps knows at each of its statements which
  tables it has emptied (`RemovalsKnown`); the order of the deletes in `routers.ts`
  frees each key before the row it points at goes, and therefore no key refuses one.
  A test points at a version of its own unless it is being removed
  while something else is on its way (`CurrentKnown`, `Disturbed`). Where nothing enforces
  keys, references hold as long as each removal came after every other request
  (`RemovalsLast`); where they are enforced, always (`KeysKnown`). Each statement is
  one of a few kinds of `Effect` on the tables (a row more, some rows less,
  a column), so that references are treated once for each effect and not once for
  each action.
- *Columns* (`ColumnsLast`). Each handler writes the columns of its own form only
  (`Touches`), so the last of those that share a column decides it, whatever runs in
  between; `OnlyNames` is the one trace that a refused edit leaves.
- *The tree.* The way up from a folder, `Above`, is the least set that is closed under
  "parent" and not a recursion; being least, it gives an induction from the root down
  (`TreeInduct`) as plain set theory. A statement can change a tree in four ways
  (`Adds`, `Places`, `Lifts`, `Drops`), and a tree it stays. That each statement is applied
  where it is safe is `TreeHeld`: what a move knows between its check and its update
  (the new parent is not below the folder), and a removal between its three statements
  (nothing is left in the folder). These are void after two reorganisations have
  overlapped or something was filed in a folder that was being removed (`Upset`),
  and once that has happened it stays so. `TreesAssumption` says that the folders at
  the start form a tree with the tests on it, belong to the oldest project, and
  that what is filed goes to a folder that was there.
- *The lists* (`ListedKnown`). What is made hangs on the oldest project unless two first
  requests overlapped (`Crowded`).

- *The fan-out* (`AllQueued`). A run is inserted in one statement and queued by the
  next, so that each job has its run but the newest run of a handler may have no job
  (`Waiting`); that run is known to nobody else, and jobs are told apart by their runs
  (`JobsKnown`). What a handler has queued of a test, together with what it has still
  to queue, is closed under "this browser with that row" and of one version
  (`HandKnown`), hence so are the jobs once nothing is to queue; the tests that it has
  passed are covered by the jobs of the runs it will name (`ToldKnown`, `Made`), but for
  those that a failure made it skip (`Lost`), of which there are no more than failures
  (`FewLost`): what it has queued of such a test it forgets, so that no part of a test is
  ever told of. The version
  that it read stays the test's own, because versions never change their owner
  (`PointsOwn`). While nobody changes the settings or the data of a test they are those it
  started with (`KeptThere`, as no other handler writes these columns), and then what
  is queued is exactly what the test asks for (`AsAsked`), which the property says by sets
  where the code has nested loops over lists (`BatchOf`). A client that names a test
  twice may get two versions of it, if it is edited between; the property excuses that.
  `FanOutAssumption` says that chromium
  is not one of `DISABLED_BROWSERS`, and that what is stored as browsers and rows, and
  what is sent, are lists. That the parser of `setData` returns a list is part of it.

**Only model-checked.** Liveness (`EveryRunFinishes`, `OtherAppsServed`,
`Terminates`, `CapturesEnd`, `ShowsTheTruth`, `QuietAfterLeaving`): fairness and
ENABLED are outside the prover's fragment. What is left of safety: `PastedTableStored`
of `Catalog`, which speaks of what the parser of a pasted table computes.
`DataRows` computes by folds over sequences, and what it computes for every input cannot be proved here: an induction
over data needs an instance of a theorem with an operator parameter, or a least
counterexample for each function, as above for the two of `expandActions`.

## 5. Not modelled

- Jobs without a version (only schedules, which are groundwork in the code,
  would add them), capture jobs in `RunQueue` (they take no lock), the branch
  of `runAttempt` that inserts a missing run row, the text of triage and
  self-healing.
- `packages/dsl`: AI steps, regular expressions in URLs, what a page contains,
  the wording of sentences, and scripts that were edited into something else
  than the generator writes.
- The pixel comparison (a distance), ignored regions, and the slug of a visual
  check's name, by which two names may share one image; TOTP codes; the format
  of generated values.
- Pages: the list of login flows (a poll of the kind `RecentRuns` is), the
  chooser's keyboard, `TestAlerts`, `SecretsManager`, `TestData`, the approval
  widget, icons, styling, search and rename texts, confirmations. Two identical
  calls of one kind under way at once are not told apart.
- REST: the API key check, import and the plain listings.
- Formatting, cryptography, logging, the AI client, the network guard,
  authentication middleware, demo seeding: no state of the modelled parts
  depends on them.
- What is left of the plan below.

## 6. Plan

Done, in this order: lock, queue, execution, login capture, because everything
else rests on runs being executed once, alone and to an end; then what runs
leave behind (`RunResults`), the catalogue (`Catalog`), the way from the form
to the browser (`TestLifecycle`), and the pages (`Pages`).

Left:

1. `AppLock`'s theorems for a renewed lease.
2. An atomic baseline register that `RunResults` implements for runs of one
   application.
3. Composition: `RunQueue` with `RunExec` in its slots for two deliveries of
   one run, where `VerdictExplained` meets redelivery; `LoginCapture` inside
   `RunExec`'s re-authentication.

## 7. Running it

```
tlc -workers 2 -config MCAppLock.cfg MCAppLock      # likewise every .cfg
tlapm AppLockProofs.tla                             # likewise every *Proofs
```

The largest runs are `queue` (2.3·10^6 states), `results` (1.7·10^6), `lock` (about
10^6), `pages` (8·10^5, with liveness: about three minutes), `authoring` (7·10^5)
and `exec` (about 5·10^5); each of the others finishes within about a minute.
