# TLA+ models and proofs for home-assistant-apps

This directory models the add-ons of this repository in TLA+: modules that
follow the code's state changes, TLC configurations that check them on small
instances, and theorems about them that TLAPS checks for every instance. Paths
below are relative to the repository; `wxverify/` stands for
`src/wxverify/wxverify/`.

| module | what it holds |
|---|---|
| `CloseChain` | the daily close of one site: day records, stage jobs, main lane, publications, stop, crash, start |
| `DayLedger` | what the daily close promises, without jobs, stages, clocks or restarts |
| `CloseMonitor` | the monitor's alerts about the close, read from `CloseChain`'s state |
| `InputEpoch` | the counts by which a scoring input's change is noticed, and their two clients |
| `JobQueue` | the jobs table, both lanes, outcomes, retries, deferrals, purge, site deletion, restarts |
| `QueueLedger` | what the queue promises of each key, without rows, ids, clocks or processes |
| `Downloads` | the forward downloads of one feed: rounds, daytime slots, asked-for fetches, budget, backoff, scored values |
| `StationDays` | a site's day records and bounds, zone and station changes, day lists, readings, hourly values, retention |
| `StationCalls` | the calls to weather.com: wind lane, gap fill, poll, adding a station, under one lock, backoff, holds and budget |
| `SyslogWriter` | py-syslog's files: append, roll over, rotate, compress, retention, space guard, deaths |
| `DdnsUpdater` | py-ddns's cycles, retries, saved address, and the record it keeps |
| `Startup` | a start of wxverify up to the open database: migrations, one-time corrections, compaction |
| `Lifespan` | a wxverify process from there to its end: pool, writer, threads, cancels, stop budget |
| `MC...` | values, symmetry and state views for TLC; `MCPrograms` runs the last three side by side, `MCDays` `StationDays` beside `SyslogWriter` |
| `..._proofs` | the theorems of `CloseChain` (with `CloseMonitor` and the refinement of `DayLedger`), `InputEpoch`, `JobQueue`, `Downloads`, `StationDays`, `StationCalls`, `SyslogWriter`, and, in `Programs_proofs`, of `Startup`, `Lifespan` and `DdnsUpdater` |

`PROJECT.json` names the runs with their modules and cfgs, the code each
definition models, every hazard at its line and the theorems. From this
directory, `tlc -workers 2 -config CloseChain.cfg MCCloseMonitor.tla` and the
like run TLC; `tlapm CloseChain_proofs.tla` and the like check the proofs.

## 1. The system and its components

The repository holds five add-ons. `wxverify` is the one with a program logic
worth a model: it downloads forecasts and station observations, closes each
past day, scores forecasts against it and publishes the ranking. `py-syslog`
and `py-ddns` are small daemons; `py-weather` is deprecated; the publish guard
is a CI script.

wxverify is one process: an asyncio event loop with two worker lanes, a web
server, and threads for database work, over one SQLite file with a single
writer connection and a pool of readers. Work passes between parts as rows of
the `jobs` table; nothing but the file survives a stop.

| component | state | operations | hard behaviour | what makes it correct | model |
|---|---|---|---|---|---|
| daily close chain (`worker/close_chain.py`) | `close_attempts`, `close_publications`, stage jobs | tick: start, miss, repair, retry; stages 2-7; failure; start-up settling | a chain of jobs across crashes, retries and late claims | days decided once, in order, each in at most two tries; no lost stage; publications of closed days only, and all end | `CloseChain` |
| site day records (`db/site_days.py`) | `site_days`, station logs, day lists | ensure, begin, fail, finish, miss; the write guard; zone and station changes; raw pruning | bounds computed under one zone and used under another | days tile time; lists agree with the logs; a closed day's values come from every reading it had | `StationDays`, `CloseChain` |
| publications (`scoring/publication.py`) | `publications` and their rows | swap in, prune, read the latest | swap and record are two writes | what readers see agrees with the records | `CloseChain` (the swap) |
| worker lanes, start and stop (`worker/processor.py`, `api/app.py`, `core/stop.py`) | running row of each lane, `runtime_state` | claim, run, record, heartbeat, drain, reclaim, settle, close | cancellation anywhere, threads that outlive their coroutine, crash in the middle of a start | a row runs only while a lane holds it; a connection has one user; a stop ends | `JobQueue`, `CloseChain`, `Lifespan` |
| job queue (`db/queue.py`) | `jobs` | enqueue with dedupe and cooldown, claim by tier, complete, fail with retry, defer, purge, reclaim | two lanes, reused ids, rows removed under a lane | an outcome goes to the lane's own row; one live row per key; retries end; due rows are claimed | `JobQueue` |
| scheduler (`worker/scheduler.py`, `worker/control.py`) | none of its own | the tick over sites | one site's failure must not stop another's | each due piece of work is enqueued once | shares in four modules |
| database connections, input epoch (`db/connection.py`, `db/snapshot.py`) | `_input_epoch`, `_dv_seen`, `_external_seq`, `_probe_dv`, pins, read pool | write, write_if_current, read_at_epoch, external_commit_seq, pinned_snapshot, close_if_idle | threads, the event loop and other processes read and move counts between each other's steps | nothing computed from old inputs is applied; equal pins mean equal inputs; connections stay apart | `InputEpoch`, `Lifespan` |
| round downloads (`worker/round.py`, `worker/feed_fetch.py`) | `forecast_downloads`, scored values | try, retry, settle, daytime slot, asked fetch | a command-line fetch beside the lane; a row lost between two writes | a round stores once; tries are bounded; scored values are the first download's | `Downloads` |
| call budget, backoff, access hold (`collection/budget.py`, `worker/domain_backoff.py`, `worker/access_hold.py`) | counters per billing day, hold-off times | reserve, refund, back off, hold | a refund after the roll-over; a call after another's refusal | the budget covers the requests sent on its reservations; a recorded pause or refusal is heeded, but for a pause that an addition erases | `Downloads`, `StationCalls` |
| wind lane, station day values (`worker/wind_days.py`, `worker/day_values.py`) | `station_wind_days`, day values | due check, try, store, gap fill, hourly values | overlap with the close; deferred slots | stored values only for days not closed; no evening slot is lost, and one is tried again only if its try was cut short | `StationCalls`, `StationDays` |
| current observations lane (`worker/current_obs_poller.py`) | poll times | enqueue and claim in one write | second lane on the same table | at most one row of its kind | `JobQueue`, `StationCalls` |
| migrations and compaction (`db/migrations.py`, `db/compaction.py`) | schema version, one-time marks | one savepoint per conversion, before the process serves | death, failure or stop between two statements | each step converges; nothing an operator chose is undone; history is kept | `Startup` |
| monitoring (`close_monitor.py`) | none | reports over tables | an alert that hides behind another | a day not published in time is named | `CloseMonitor` |
| py-syslog (`pysyslog/writer.py`) | active file, archives | append, rotate, compress, prune, reconcile | crash between replace and unlink | acknowledged lines are kept until pruning; older ones go first | `SyslogWriter` |
| py-ddns (`pyddns/updater.py`) | persisted address, cycle flags | update, retry, drift check | failed first cycle, lost answers | the record comes to the current address; a quiet cycle is right | `DdnsUpdater` |
| feeds and observation adapters, web and API, command line | none or single rows | HTTP and parsing; a read or write per request | none of their own, but for what is in other rows here | | the writes that meet other parts: `Downloads`, `StationDays`, `JobQueue`, `StationCalls` |
| scoring, forecast service, settings, py-weather, publish guard | none | computation, pages, validation | floating point, wording | | not modelled |

How the parts meet in a day's close: the **scheduler tick** (main lane, between
two jobs) reads the day records, the round's and the wind lane's answers and,
for one day, calls `begin_close` and enqueues stage 2. The **lane** claims the
row, runs the stage, whose write saves the stage and enqueues the next. Stage 6
closes the day, opens a publication record and enqueues stage 7, which swaps the
cutoff's rows in. Any exception goes through `_fail_job`; a stop reclaims rows;
the next start reclaims, settles interrupted closes, then starts the lane.

No run composes all of it: each module keeps as much of its neighbours as its
own properties can tell apart (`CloseChain` a queue of two kinds, `Downloads`
the last row of each key, `StationCalls` the instant from which a lane may claim
the work) and leaves the rest of the neighbour free, which is more behaviour
than the code has. `MCPrograms` and `MCDays` put programs that share nothing
into one run and are not compositions.

## 2. The runs

| run | instance | properties | distinct states |
|---|---|---|---|
| `close` | 3 days, the first a zone-changeover day, delays of 1, 1 stop or crash, clock to 5 | `NoStrandedJob`, `PublicationPerClosure`, `PublishedIsSwapped`, `UnpublishedDayIsNamed`, `StagesInOrder`, `RetrySpacing`, `NoEarlyVerdict`, `RecordsPublishInOrder`, `LedgerSpec` | 678 thousand |
| `close_live` | 2 days, 1 stop or crash, fairness | `EveryDayDone`, `PublicationsEnd` | 158 thousand |
| `epoch_counts` | 1 job, 2 readers, 2 foreign and 2 own commits, epoch to 4 | `NoStaleApply`, `PinsAgree` | 2.0 million |
| `job_queue` | 2 sites, 4 kinds, 2 inserts, 2 starts, clock to 2, tables left by an earlier process | `RunningIsHeld`, `RetriesEnd`, `OutcomeIsOwn`, `CooldownKept`, `LedgerSpec`, `DueIsClaimed` | 174 thousand |
| `downloads` | 1 feed, 2 requests a fetch, a limit of 4, 2 local and 3 billing days, 1 upset | `BudgetCoversCalls`, `RoundTriesBounded`, `RoundStoredOnce`, `ScoredIsFirst` | 1.1 million |
| `days` | `StationDays` with 2 stations, 3 zones, 2 inputs, 1 reading, clock to 5; `SyslogWriter` with 6 datagrams, segments of 2, 4 days, 2 deaths or failures | `DaysTile`, `ListsFollowLogs`, `ClosedFromItsReadings`, `LinesKept`, `DropsOlderDaysFirst` | 3.1 million |
| `station_calls` | 2 stations, slots at 2, 3 and 4, two billing days, a limit of 2, 1 upset, clock to 5 | `AnswersHeeded`, `SlotTriedOnce`, `SlotsKept` | 3.9 million |
| `programs` | `Startup` with 1 stop, 2 faults, 1 edit; `Lifespan` with 2 lanes, 1 page, 2 readers, 3 operations, 1 failure; `DdnsUpdater` with 2 addresses, 3 events | `QuietIsRight`, `RecordFollows`, `HistoryKept`, `OperatorChoiceKept`, `UpgradeCompletes`, `StopEnds`, `ConnectionsApart`, `NothingStranded`, `ShutdownEnds` | 532 thousand |
| `close_newer`, `syslog_oldest`, `ddns_startup`, `station_add` | as `close`, `days`, `programs`, smaller, and as `station_calls` | one sentence of a comment each, **violated**: see Findings | - |

The type invariants are not listed in the cfgs: each is a theorem. Every action
and every disjunct of a next-state relation fires in the passing runs.

Bounds. Each is the least number at which what the properties are about happens
at all, with the neighbouring case beside it: two or three days for an order
between days and for a decision that skips one; one stop reaches every place of
every lane, since it may come anywhere; two faults are a fault while repairing
the first; two rows or calls in flight are what it takes to take one for the
other. Delays of one or two units against a clock of four or five keep "just in
time", "late" and "never" apart. What a bound leaves out is what the theorems
add: they hold for every number of days, stations, rows, readers, starts and
faults.

Views. `LiveState` in the MC modules keeps the variables that a guard or a
property can still read: a stored value that is written again before it is read
does not distinguish states. Two states with one view have the same enabled
actions and the same futures, so the views are sound for the temporal runs too.
In `InputEpoch` the view keeps only how the counts compare, which is all the
code asks of them. Stations and readers are symmetric in `StationCalls` and
`InputEpoch`; neither run checks a liveness property. The two programs of `days`
share no state, and a behaviour of that run is one of either, the other at rest.

Deadlock is checked for `CloseChain` and `InputEpoch`, whose loops always have a
step. The other cfgs switch it off: their behaviours end where the bounds do, a
process that has died its last permitted time, a clock at its end, a log with no
datagram left.

## 3. The modules and the code

### CloseChain

One action per write transaction of the code; where the code awaits between two
writes of one job, another step may come between them.

| code | model |
|---|---|
| `site_days` row, current `close_attempts` row | `state`, `attempts`, `retryAt`, `reason`, `lastStage`, `progressAt` by day |
| `close_publications` row by cutoff; cutoffs with rows in `publications` | `pub`, `pubAttempt`, `pubRetryAt`, `pubStarted`; `swapped` |
| live rows of kinds `day_close`, `publish` | `jobs`, a set of records; `SameKey` is the dedupe index |
| where the process is | `pc`: `down`, `reclaimed`, `settled` (start), `loop`, `tick`, `claim` (lane), and a place inside a job |
| the claimed row, its `updated_at` | `cur`, `claimedAt` |
| `worker_started_at`, `worker_last_loop_at` | `startedAt`, `lastLoop` |
| `enqueue_due_close_work` for one site | `SchedulerTick` (`CloseDueDays`, `RetryPublications`, `TickJobs`), whole and in its order |
| stage 2 (two writes around its calls) | `BeginFill`, `FinishFill` |
| stages 3-5; stage 6; the retention after it | `RunStage`; `Closure`; `Retention` |
| stage 7 | `BeginPublication`, `Swap`, `FinishPublication` |
| exceptions and `_fail_job` | `Raise`, `FailJob` |
| `run_worker` cancelled; the process dying; `lifespan` | `Stop`; `Crash`; `StartReclaim`, `StartSettle`, `StartWorker` |

Points where the model is more than a reading of the line:

- `IdleTick` is the tick of a site that is switched off, or whose step raised
  and was rolled back by `_in_site_savepoint`.
- `Stalled` compares `claimedAt` with the row's enqueue: the code compares
  `updated_at`, set by the claim, with `created_at`.
- `Claim` orders rows by `created_at` only. The code breaks ties by id; the
  model allows either, which is more behaviour, and the fairness below says
  that no row is passed for ever, which the ids ensure.
- `ensure_site_days` writes the records through the date after the current one,
  so two days are open at the beginning (`Ensured`, `Init`).
- The round's answers (`settled`) and the wind lane's (`windDue`) are any value
  at every tick: they are other components' state.

Left out of `CloseChain`: a step of the start's settling that raises (it is
rolled back by `_in_settle_savepoint` and logged), rows with unreadable stamps,
deletion of a superseded publication's rows after `PUBLICATION_KEEP_HOURS`
(`swapped` means "was ever swapped in"), deletion of a site and change of its
zone, the close being switched off, the offline close of the command line, and
the order among several sites (each has its own rows; a model of one site and a
lane that may at any time be elsewhere is the same for these properties).


`CloseMonitor` reads this state as `close_monitor.py` does in one transaction:
missed days, the late publication of an expected day, failed and stalled
attempts. An alert is the set of days its lines name.

### InputEpoch

`Database` keeps two counts. `_input_epoch` is moved by the writer's
transactions: at their begin, when `PRAGMA data_version` shows that another
connection has committed, and at their end, when they changed rows.
`_external_seq` is moved by a probe connection that sees every commit, the
process's own being absorbed. The model has one action per step that another
thread can observe:

| code | model |
|---|---|
| `_run_epoch_txn`, `_body` inside `BEGIN IMMEDIATE` | `Begin` (by `Write` or `Apply`), `BeginFails` |
| `fn` and the commit or rollback | `Commit`, `CommitNothing`, `Rollback` |
| the `finally`: the epoch's bump | `Bump` |
| `_absorb_own_commit`, its two reads under `_probe_lock` | `AbsorbProbe`, `AbsorbOwn`, `AbsorbFails` |
| `FencedWriter.read_at_epoch`, then `write_if_current` | `ReadEpoch`, `ReadSnapshot`, `Apply`, `Return` |
| `pinned_snapshot`: counts, snapshot, counts | `CountBefore`, `EpochBefore`, `Snapshot`, `CountAfter`, `EpochAfter`, `ProbeFails` |
| another process on the file | `ForeignCommit` |

`PRAGMA data_version` is modelled by what it tells: for the writer, how many
commits other connections have made; for the probe, that and the writer's own
commits. SQLite's file lock keeps `ForeignCommit` out while a transaction of the
writer is open. A write declared exempt changes no scoring input (that is the
meaning of the flag, and each caller's duty). `pins` is a history variable.

No caller in the repository applies with `write_if_current` at present
(`scoring/publication.py` reads at an epoch and does not use it), and the
weights cache that the docstrings name as the pins' user is not in the tree;
every page read registers a pin. Both are contracts of
`connection.py` that its docstrings and tests state, and the model is of them.

### JobQueue

One action per write transaction on `jobs`; a transaction that enqueues several
keys is one step per key.

| code | model |
|---|---|
| `jobs` by id; the ids SQLite gives out again | `jobs`, a partial function; `CreateSite`, `DeleteSite` with its cascade |
| `enqueue_if_absent`; `enqueue_if_absent_with_cooldown` | `DirectEnqueue`; `ScheduledEnqueue`, `Suppressed` |
| `_claim`, for either lane; tiers and age | `Claims`, `TierOf`, `IsFirst`, the claim in `LaneStep` |
| `run_claimed_job` and the outcome's write, only on the row it claimed | `held`, the outcome steps of `LaneStep` |
| `fail` with retry, `MAX_RETRY_COUNT`, unreadable rows | the failure steps; `Unreadable` |
| `purge_failed_jobs_older_than`; the shutdown's and the start's reclaims | `Purge`; `ShutdownReclaim`, `Start` |
| `run_worker` cancelled, the process dying | `Stop`, `Exit`, `Crash` |

A lane whose row is deleted goes on with its job; the outcome then meets no row,
or a row that has got the id since, which `born` (history) tells apart. What a
job does while it runs is elsewhere. `MCTables` starts TLC on tables that an
earlier process, or an earlier version, may have left.

### Downloads

| code | model |
|---|---|
| `forecast_downloads`, `forecast_scored` | `rows`, `scored` |
| a fetch, from its job's start to its rows; the main lane's or the command line's | `run`, a record by runner with its place, moved by `Step` |
| `reserve_budget`, `refund_budget`, the reservation's billing day | `calls`, by billing day |
| `google.py`: the pages, one request each | `sent`, one step a request, booked on its reservation's billing day |
| `domain_backoff.py` | `backoff` |
| `enqueue_due_round_tries`, daytime slots, an asked fetch | `Schedule`; `CliFetch` for the operator's |
| the outcome of the job; a row deleted under it, a failed write, a restart | `JobStep`, bounded by `MaxUpsets` |

A feed's round counts its tries against `_TRY_OFFSETS` and `ROUND_BOUND`; a
reply stores the hours it holds, and a value becomes scored with the first
download that has it. Days are of one zone and one length. A request that goes
out after the billing roll-over is counted for its reservation's day, as the code
counts it: `BudgetCoversCalls` is a statement by reservation, not by the day on
which the provider sees the request.

### StationDays

| code | model |
|---|---|
| `site_days` bounds and states | `days`, a partial function by date |
| `ensure_site_days`, with the bounds of a date from the zone in force | `Tick` |
| `enter_zone_change` | `EnterZoneChange` |
| the station routes; `station_changes`, `site_day_stations` | `TurnOn`, `TurnOff`, `changeLog`, `list` |
| the writers of readings, each behind the guard of its own window | `StoreFiveMinute`, `StoreCurrentObs`, `StoreGapFill` |
| `begin_close`, `fail_close`, `finish_close`, `mark_missed` | `BeginClose`, `FailClose`, `FinishClose`, `MarkMissed` |
| the hourly stage; the rain check's flags | `HourlyStage`, with any set of stations set aside |
| `prune_raw_readings` | `Prune` |

Zones are how long before the westernmost midnight theirs comes (`Ahead`), so a
change moves bounds either way by less than two days. A reading is its station
and its instant. A zone has one offset: there is no daylight saving time.

Two zones whose midnights are almost a day apart, by less than the look back,
are assumed not to be both in use. A move between them (there are such pairs:
the Marquesas or the Chatham Islands and places across the date line) would make
a day of less than an hour, which the code allows. The look back of the day
after it then reaches into the day before it, whose readings may be deleted once
both are done for `RAW_KEEP`, seven days, if the later day is still to be closed
by then.

### StationCalls

`main`, `poller` and `adder` are records with a place (`at`): the main lane's
wind chunk or gap fill, the second lane's poll, and the request that adds a
station. `Wind`, `Fill`, `Poll` and `Add` hold their steps: waiting for the call
lock, the checks made under it (hold, backoff, budget, switch), the call with
any answer, and what each answer changes in one write. `Switch` is a station
turned on or off, `Stop` a restart.

A call and its outcome's write are one step because nothing in between is
stored. The addition of a station is the exception: its call's answer and its
last write (`AddWrite`, which clears the backoff) are two, with the lock free
between them. `asked`, `erased`, `refused`, `tried` and `cut` are history: the
end of the pause last recorded, whether an addition ended since, the end of each
kind's last recorded hold, the slot of each station's last try and whether that
try was cut short. An answer counts once it is recorded; one that a death or a
failed write lost is known to nobody. The jobs' rows are reduced to the instant
from which a lane may claim the work, so a lane may come as late as it likes.
Left out: the live-call statistics; a write refused for a stale epoch (no caller
passes one); a second local day (a try deferred past midnight, see the notes
under Findings).

### SyslogWriter

`pc` follows the writer through its statements: `Start`, `Reconcile`, `Receive`,
`Reopen`, `AppendLine`, `SizeRoll`, the compress as `Replace` and `Unlink`,
`PruneOld`, `EnforceSpace`, `SpaceTick`, `Ack`; `WriteError`, `StartError` and
`Die` may come at each. A killed process keeps what it flushed. Archives are
sets of lines with a day and a number; the daily archive of a day has number 0.

Left out, and visible in the properties as exemptions: UTC stepping back; a
process that starts after midnight archives the base under its own open date
(`straddled`); `OSError`s of `_rotate_by_size_if_needed` that are not wrapped.
A death between replace and unlink leaves both files, and the next start
archives the lines a second time: lines may be double, none is lost.

### DdnsUpdater

One action per call over the network or write of the file: `Cycle` is the
program's next such step, by `pc`. The two provider kinds (Azure's API, a URL),
each with the drift check on or off, are the values of `config`. The box's
address, the record and the name servers' caches change under the program
(`NewAddress`, `Tamper`, `Propagate`).

### Startup

`Script` lists the 40 statements of a start, in order, each with what it reads
and writes of the file; `at` is the present one and `stmt` how far it is. A
statement is announced to `stop.STOP` or not, runs, and may take long; a stop
signal, a death, a failure may come before or in it. The upgrade's savepoint and
the conversions run in autocommit, since `executescript` commits what is open:
`file` and `work` differ only inside a savepoint. `drop_record`, the index
syncs, the sanitize pass and the checkpoints are one step each and never long.

### Lifespan

A client's coroutine (`op`) and the thread that runs its statement (`threads`)
are apart: a cancel ends the first and leaves the second, which is what
`_settle_reader`, the deferred cancel of `core/aio.py`, the write lock and
`close_if_idle` are for. Lanes claim, work and finish; pages read. The pool is a
set where the code has a queue, so any reader may be next. `BeginReap`,
`Ending`, `ProcessEnds` and `Boot` are the lifespan, its budget and its grace
reduced to `within`, `over`, `spent`.

## 4. Fairness

`CloseChain!FairSpec`: the lane goes on (`WF` of `LaneStep`: `run_worker` is an
endless loop, and a job is assumed to end or to raise: its calls are HTTP
requests and database work), the tick does its work again
and again when it could (`SF` of `SchedulerTick`: a site is not switched off for
ever, and a tick step that raises does not raise for ever), a pending row of
each kind is claimed if it could be claimed again and again (the queue's order by
time and id), the add-on is started again after a stop (Home Assistant's
supervisor), and time passes. Nothing is assumed of stops and exceptions:
`EveryDayDone` holds although stages may raise always, since two failures are a
verdict. `PublicationsEnd` says "unless stages raise for ever": a stage 7 whose
first write always raises leaves its record pending, and the tick repairs it
each time.

`JobQueue!FairSpec`: a started process ends its start, an asked-for exit
completes, and each lane takes a step that stays possible (its loop). No
fairness on enqueues, deletions, stops or time. `DueIsClaimed` follows because a
due row is passed only by rows before it, of which there are finitely many.

`DdnsUpdater`: the cycle goes on, the add-on is started again, name servers come
to answer the record. Strong fairness of a detection that succeeds: an address
service that never answers leaves nothing to promise. Nothing is assumed of the
provider's calls, whose retries the code bounds: `RecordFollows` says that with
the drift check on, once calls have stopped failing, the record comes to the
box's address and stays there.

`Startup`: each statement that was started ends unless it is a long one; a
registered stop is delivered (`Interrupt`, `StopProgress`, `StopServing`). No
statement is assumed to be short. `Lifespan`: only the lifespan's own steps
(`Ending`): no thread is assumed to come to an end, which is why the budget
exists, and `ShutdownEnds` holds without it.

## 5. What is proved

The theorems hold for every value of the constants that the modules' named
assumptions allow. The assumptions say that delays, limits and bounds are
natural numbers, that days end in order, that a list of slots is a sequence,
that sets of readers or stations are finite, that the marks for "nobody" are not
members of what they are absent from, that the two rounds' day length is
positive, and what section 3 says of the zones of `StationDays`. None fixes an
instance. Each is stated in the module that declares the constants, and TLC
evaluates it in the runs.

### CloseChain, DayLedger, CloseMonitor

All safety and step properties of the runs, and with them the ledger: only
`EveryDayDone` and `PublicationsEnd`, which need fairness, stay with TLC.
`Inv` is the conjunction of the properties with:

- `DayFit`, `PubFit`, `LaneFit`: what a state says of its attempt count, and the
  lane's place of its job. Without them `fail_close`'s test `attempts = 1` says
  nothing of what was before.
- `ClockInv`: the process did not start in the future.
- `Contiguous`: day records are created without gaps, so "the latest recorded
  date before the first undone one" is the day just closed. It is what makes
  stage 6's insert (`PublicationPerClosure`) never collide.
- `PublishingInv`: past the swap, the lane's cutoff has its rows, and while the
  lane is in stage 7 no later cutoff is published. From it `PublishedIsSwapped`
  and `RecordsPublishInOrder`.
- `SpacingInv`: a retry time is never earlier than the first attempt's last
  progress plus `RetryDelay`, and no progress is dated in the future.
- `SettledInv`, `StartJobsInv`: what the start has already put right at each of
  its steps, also when a crash cuts it short.
- `JobsBehind`: no row belongs to an attempt its day has not begun, and none of
  the current attempt is further than one stage ahead. From it `NextStageOnly`.

The proof that a step keeps `Inv` is by what the step does to the days
(`DaySteps`), the publications (`PubSteps`), the rows (`RowSteps`) and the lane
(`LaneSteps`), each a lemma proved once over all actions. `TickWalk` shows that
the tick's walk does what its loop is meant to: misses a prefix of the undone
days and starts at most the next one. The refinement maps `closing` to the
ledger's active day, and `closed`/`missed` to its verdicts; `TickIsWalk` and
`EndIsLedgers` show that ticks and ends of attempts are ledger steps.

`UnpublishedDayIsTold` (no day that should have been published is silent) needs
more than `Inv` of what a monitor sees: that the records have no gaps
(`Contiguous`), so `closed_through`, the greatest done day before the first
undone one, reaches every done day (`ClosedThroughReaches`); that every day done
as closed has a publication record; and that a published record's rows are
there. Then a day the late-publication alert passes over is one that another
alert names, by the case its state is in (`AlertsName`).

### InputEpoch

`NoStaleApply` and `PinsAgree`, for any number of jobs, readers and commits.
`AllShown` says that nothing has changed the inputs that the epoch will not show
before another transaction begins. While the epoch stands still, inputs can only
change by leaving `AllShown` false (`ShownOrMoved`), so a job whose epoch is
still current computed from the present inputs (`JobsFresh`, and `AppliedFresh`
for its own transaction). For pins, a change not yet shown is `Uncounted`: it
sits on the probe until a lookup counts it or a transaction absorbs it, and a
transaction that absorbs without counting has shown everything
(`AcknowledgedShown`, where the order "probe first, then the writer" is used).
Inputs seen at the present counts are then the present ones or wait for a count
(`Explained`); a reader whose second count finds the probe unmoved holds the
present inputs (`NewPinning`), and readers about to pin agree with each other
and with every pin (`PinningAgree`), which is the part that makes `PinsAgree`
inductive: the external count may move between a reader's last two reads.

### JobQueue and QueueLedger

`RunningIsHeld`, `RetriesEnd`, `OutcomeIsOwn`, `CooldownKept` and the refinement
of `QueueLedger`, for any sites, kinds and tables a process may find. `Inv` adds
`BirthOrder` (a higher id was inserted later, and nothing in a lane's hand is
newer than the count: so a lane's row is told from a later one that got its id),
`HeldFit` (what a lane has in hand is of its own types, and of the kind of its
row while that stands), `RunningOwned` (a running row is in its lane's hand, or
the process is stopping, that lane has let go and the reclaim is to come: it is
`RunningIsHeld` carried through a stop), `TriesFit` (failures, tries and limit
of a live row; without it nothing bounds the retries of a row whose limit was
clamped) and `EndingShown` (what is remembered of a key's last end agrees with
the row that ended). A key is mapped to absent, waiting or running; each step is
a ledger step by the row it writes.

### Downloads

All four invariants. `BudgetCoversCalls` is not inductive: `OwedFit` adds, for
every billing day, what each fetch in hand may still send or give back, the day
being its reservation's; a refund after the roll-over then takes nothing of the
new day's. `RoundTriesBounded` is `TriesFit`: a reservation for a round is
one of the tries its rows allow, or one redone after a lost row or a restart.
`RoundStoredOnce` rests on `LaneFit` (while the lane's round fetch is out, its
round has no stored row), which needs `KeyFit` (the fetch in hand is the one
its key's row says, the command line's never a round's). `ScoredIsFirst` rests
on `Numbered`: a download's number is above all earlier ones.

### StationDays

All three invariants, for any zones, any number of changes, stations and
readings, and any time without a record. `Sound` is `DaysTile` of any set of
records, with the look back inside each day; `ZoneTail` says that the dates
without a record yet are the site's zone's. From the two, `EnsuredIs`: what
`_ensure` makes is always sound, has the old records in it, and goes past the
current date, which is why every transaction finds the days it needs (`HereIs`).
`RemadeFits` is the same for a zone change, whose kept records end with the
day that holds the change's instant; there the assumption on the zones gives the
changeover day its look back. `MovesFit` says that days are begun in order and
only once they have ended; so the current date comes after every day begun
(`CurrentIsOpen`), a station change rewrites no list that a close has used, and
the closing day's check is later lists' latest (`CheckLists`, with `ChecksFit`:
a check judges its day's whole list). `ClosedFromItsReadings` is `SourcesFit`
from the hourly stage on: the guard lets no writer at a day that is final
(`StoreFits`), and what has been deleted is of a day that is done with the day
after it done too (`GoneFit`), hence too far back for the closing day.

### StationCalls

`AnswersHeeded` says of what was *recorded* what every later call has to
respect; no single variable of the program holds it, since an addition may erase
the backoff. `GatesOpen` says that a call goes on under no stored pause or hold:
who is out on a call has the lock, and every other write of a pause or a hold
needs it. `Remembered` says that a pause or refusal that lasts is stored as it
was recorded, or, a pause only, that an addition ended after it. The two
together are `AnswersHeeded`; that the exception is needed is what `station_add`
shows.

`SlotTriedOnce` counts tries (a call, or a turn away at the gates), not rows of
the log: the process may die during a call, or its outcome's write may fail, and
the slot is then tried again, which is why the property allows it for a try that
was cut short (`cut`). It needs `TodoFits` (the stations still to be tried in a
chunk are due, and before the day's end) and `SlotsFit`: a row whose last try
was of an evening slot is due in a later one, or done, unless that try goes on
or was cut short; then it is due no earlier than that slot. `SlotsKept`, the
other action property, says of each step that moves a row which slots it may
pass over; it is proved by what a try's outcome does to the row (`RowMoves`).

### SyslogWriter

`LinesKept` and `DropsOlderDaysFirst`, for any line, day and fault counts.
`Placed` says what each place in the writer implies of the base file, its day
and the task in hand; `KeptFit` is `LinesKept` with the datagram in hand, from the
moment it is written; `DailyFit` that no daily archive stands where the next
roll over will write one, unless it holds the same lines (a death between
replace and unlink), so that a replace never covers another day's lines;
`Ordered` that archives in the order of their names, and then the base file,
hold lines in the order they were received, a doubled one apart.

### Startup, Lifespan, DdnsUpdater

`HistoryIsKept`, `OperatorChoiceIsKept`: for any file an earlier release may
have left and any number of stops, deaths, failures and edits. `StatementFits`
says at which places of the script the savepoint is open, `VersionFits` and
`TablesFit` what a place and the schema version imply of the tables, `RowsFit`
that the old tables and the history hold together what the first file held,
`WorkFits` what the savepoint has done so far and that nothing is uncommitted
outside it, `ChoiceFits` what a finished start has left to the operator.

`ConnectionsStayApart`, `NothingIsStranded`: for any lanes, pages and pool.
`HoldersFit`, `LockFits`, `KindsFit`, `ThreadsFit` and `ReadersFit` say who has
what, coroutine and thread apart (a reader outside the pool is held by one
client; a thread runs on a connection only while its client holds it, the writer
included); `ReclaimFits` and `ReclaimMends` that a worker whose reclaim has
begun has cut both lanes, that none of them writes after it, and that its end
leaves no row claimed, unless its write failed or was left behind.

`QuietCyclesAreRight`: `SavedFits` (with Azure, the saved address is the
record's unless somebody changed one of them alone), `QuietFits`, `CallbackFits`.

### Not proved

Liveness (`EveryDayDone`, `PublicationsEnd`, `DueIsClaimed`, `RecordFollows`,
`UpgradeCompletes`, `StopEnds`, `ShutdownEnds`) is model-checked only: the
prover handles neither fairness nor `ENABLED`. Every other property of the
passing runs is a theorem.

## 6. Findings

1. `close_newer`. The comment at `wxverify/worker/close_chain.py:1224-1226` says
   that an older cutoff's retry or repaired stage 7 "never publishes after a
   newer cutoff has". `_newer_publication` looks for newer records that are
   pending, building or published. A newer cutoff whose rows are swapped in but
   whose record went to `retry_due`, the last write having failed, is not among
   them, and the older one is then swapped in after it. Readers take the latest
   cutoff, so what they are served does not change; the order of the *records*
   holds and is proved (`RecordsEndInOrder`).
2. `syslog_oldest`. `pysyslog/writer.py:119-121` and `:549-550` call the space
   guard keep-newest, drop-oldest, with a day's daily archive its oldest. The
   daily archive of a day that also rolled by size holds what came after its
   last segment, and is deleted before them. Days and segments do go oldest
   first (`DropsOlderDaysFirst`, proved).
3. `ddns_startup`. `pyddns/updater.py:12-15` says that local state never
   suppresses a startup's self-heal, with the drift check off too. A first
   cycle that detects no address, or whose read fails, is the first cycle all
   the same; the next one compares the detected address with the saved one and
   leaves a record that was changed meanwhile.
4. `station_add`. `worker/station_pacing.py:13-16` says of the call lock, "across
   the worker and the add-station route", that "the reserve, the call and the
   outcome write run under it". `api/routes/stations.py` writes a failed call's
   backoff under the lock, releases it (307), looks up the elevation, and then
   clears weather.com's backoff with its last write (371). In between another call
   may have been answered 429 and have recorded a pause, which that write erases;
   the next call runs during it. Whatever else of a recorded answer is heeded is
   `AnswersHeeded`, proved.

Smaller disagreements and points to know, met while modelling and not given a
run of their own:

- `wxverify/db/connection.py:423` says that `external_commit_seq` moves after every
  commit by another connection. A commit that lands before a write of this
  process and before any lookup is noticed by that write's begin (358-362),
  which moves the epoch, and absorbed as if it were the write's own (406-412).
  Only the pair of counts is safe, which `PinsAgree` shows.
- `worker/processor.py:573-575` says that a poll's transport failure is deferred
  to the floor. The poll's state is set so, but the exception is raised on and
  the job row goes through `fail_job`'s retries, whose delays are its own.
- `api/routes/stations.py:468`: before a site's first record its list is empty
  for that day; the check that a site keeps one station looks at flags and the
  current day.
- `worker/round.py:501`: a daytime try deferred past midnight records its slot
  under the next date, whose own try of it is then not made.
- `worker/processor.py:565`: site and station ids are used again after a
  deletion, so a fetch in flight may store under a new site's id.
- py-ddns: a write whose answer is lost, with the address going back before the
  retry, leaves the saved address and the record apart until the next check,
  where `state.py:6-8` says they never desync; `_last_drift` is set by the read
  even when the write after it fails; a URL provider saves the resolved value,
  which a cache may have kept.
- py-syslog: a death between replace and unlink archives lines twice.

## 7. Plan

1. `DayScores`: the scored values of a closed day as `scoring/` stores them,
   control only: which values count, when a day's scores are replaced.
2. `Publications`: a cutoff's rows, their swap, the deletion of superseded ones
   and the readers that hold one while it goes.
3. `HourlyValues`: the merge of a day's hourly values from several stations.
4. `ForecastPage`: the forecast service's cache against pinned snapshots.

## 8. What is not shown

Numeric work (scores, weights, blends, rain judgements, learnt intervals) is not
modelled; where its answer matters to the control it is any value. SQLite is
trusted to be serializable per transaction and to keep its file lock; a
transaction is one step. Times are small integers; the code's instants are UTC
and compared as such, and local time matters in two places only: the zone
changeover of a close (`Changeover`) and the bounds of days (`StationDays`).
Several sites are several copies of one: only `JobQueue`, whose lanes they
share, has more than one.
