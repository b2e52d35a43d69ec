----------------------------- MODULE JobQueue ------------------------------
(***************************************************************************)
(* The jobs table and the two worker lanes that work it: enqueue with      *)
(* dedupe and cooldowns, claim by lane and tier, outcomes recorded only    *)
(* while the claimed row stands, retries, deferrals, the purge of failed   *)
(* rows, the deletion of a site under a running job, and what a stop, a    *)
(* crash and a restart do to claimed rows.                                 *)
(*                                                                         *)
(* Sources: wxverify/db/queue.py (the table), worker/processor.py (the     *)
(* main lane and the outcomes), worker/current_obs_poller.py (the other    *)
(* lane), worker/scheduler.py (the enqueues), api/app.py (start and stop), *)
(* api/routes/sites.py (deletion).                                         *)
(*                                                                         *)
(* One action per write transaction; a transaction that enqueues several   *)
(* keys is one step per key, which only adds interleavings.  What a job    *)
(* does while it runs is outside this module.                              *)
(***************************************************************************)
EXTENDS Integers, FiniteSets

CONSTANTS
  Sites,         \* the site ids; a deleted site's id may be given out again
  Kinds,         \* the kinds of key in play, among AllKinds
  Limit,         \* max_retries of a fresh row, by kind
  Cooldown,      \* scheduler._DUE_JOB_FAILURE_COOLDOWN
  Spacing,       \* wind_days.WIND_DAYS_SPACING
  Evening,       \* the instants of the wind lane's evening window
  Retention,     \* processor.FAILED_JOB_RETENTION_HOURS
  MaxRetryCount, \* queue.MAX_RETRY_COUNT
  MaxDelay,      \* bound: the longest retry delay or deferral
  InitialTables, \* the jobs tables a process may find when it starts
  MaxJobs,       \* bound: rows ever inserted
  MaxTime,       \* bound: the clock stops here
  MaxStarts      \* bound: starts of the process

AllKinds == {"close", "publish", "wind", "round", "fetch", "curobs"}

\* jobs.type of each kind of key: the wind lane's key is "wind-days", a round
\* try's "round:<feed>", any other download's "fetch:<feed>".
Type(k) ==
  CASE k = "close"   -> "day_close"
    [] k = "publish" -> "day_publish"
    [] k = "wind"    -> "fetch_obs"
    [] k \in {"round", "fetch"} -> "fetch_feed"
    [] k = "curobs"  -> "fetch_current_obs"

Lanes == {"main", "obs"}

\* Mutant of Claims: the lanes' type sets overlap on the wind lane's type.
ClaimsTwice(l, k) == IF l = "obs" THEN Type(k) \in {"fetch_current_obs", "fetch_obs"}
                                  ELSE Type(k) # "fetch_current_obs"

\* Mutant of Claims: the retired download's type is left to no lane.
ClaimsRetired(l, k) ==
  IF l = "obs" THEN Type(k) = "fetch_current_obs"
               ELSE Type(k) \notin {"fetch_current_obs", "fetch_obs"}

\* MAIN_LANE_TYPE_SQL and the other lane's clause: a partition of the types.
Claims(l, k) == IF l = "obs" THEN Type(k) = "fetch_current_obs"
                             ELSE Type(k) # "fetch_current_obs"

Tier0 == {"close", "publish", "wind", "round"}

\* The kinds the scheduler enqueues with the failure cooldown.
Cooled == {"wind", "fetch", "curobs"}

Unreadable == -1   \* an updated_at that does not parse

Ended  == {"completed", "failed"}
Active == {"pending", "running"}

Row == [kind : Kinds, site : Sites, status : Active \cup Ended,
        due : Nat, updated : Nat \cup {Unreadable},
        tries : Int, limit : Int, readable : BOOLEAN,
        born : Nat, fails : Nat]  \* history: the insert's number, its failures

IsTable(T) ==
  /\ DOMAIN T \subseteq 1..MaxJobs
  /\ \A i \in DOMAIN T : T[i] \in Row
  /\ \A i, j \in DOMAIN T :  \* a key's live row is its latest one
       /\ T[i].kind = T[j].kind /\ T[i].site = T[j].site
       /\ T[i].status \in Active
       => j <= i

ASSUME ConstantsAssumption ==
  /\ Kinds \subseteq AllKinds
  /\ Limit \in [Kinds -> Nat]
  /\ Cooldown \in Nat /\ Spacing \in Nat /\ Evening \subseteq Nat
  /\ Retention \in Nat /\ Cooldown <= Retention
  /\ MaxRetryCount \in Nat \ {0}
  /\ MaxDelay \in Nat \ {0}
  /\ MaxJobs \in Nat /\ MaxTime \in Nat /\ MaxStarts \in Nat
  /\ \A T \in InitialTables :
       /\ IsTable(T)
       /\ \E n \in 0..MaxJobs : DOMAIN T = 1..n
       /\ \A i \in DOMAIN T : T[i].born = i /\ T[i].fails = 0

VARIABLES
  clock,
  sites,    \* the sites that exist
  jobs,     \* the jobs table: row by id
  closeOn,  \* whether runtime_state holds the daily close's key
  proc,     \* down, up, stopping, or reclaimed: stopping, its reclaim done
  held,     \* the job each lane's run_claimed_job has in hand
  starts,   \* how often the process has started
  births,   \* history: rows inserted so far
  ended     \* history: how and when each key's last run ended for good

vars == <<clock, sites, jobs, closeOn, proc, held, starts, births, ended>>

Keys == Kinds \X Sites

NoHold == [id |-> 0, kind |-> "none", born |-> 0]
Hold   == [id : Nat, kind : Kinds, born : Nat]
Never  == [status |-> "never", at |-> 0]
Ending == [status : Ended, at : Nat]

-----------------------------------------------------------------------------
(* Enqueues.                                                               *)

HasActive(k, s) ==
  \E i \in DOMAIN jobs : /\ jobs[i].kind = k /\ jobs[i].site = s
                         /\ jobs[i].status \in Active

NewRow(k, s) ==
  [kind |-> k, site |-> s, status |-> "pending", due |-> clock,
   updated |-> clock, tries |-> 0, limit |-> Limit[k], readable |-> TRUE,
   born |-> births + 1, fails |-> 0]

\* INTEGER PRIMARY KEY without AUTOINCREMENT: one past the highest id there is,
\* so the id of a deleted highest row is given out again.
IsNextId(i) ==
  /\ \A j \in DOMAIN jobs : j < i
  /\ i = 1 \/ i - 1 \in DOMAIN jobs

\* enqueue_if_absent's select and idx_jobs_active_dedupe say the same.
MayInsert(k, s) == s \in sites /\ ~HasActive(k, s)

Insert(k, s) ==
  /\ MayInsert(k, s)
  /\ births < MaxJobs
  /\ \E i \in 1..MaxJobs :
       /\ IsNextId(i)
       /\ jobs' = [j \in DOMAIN jobs \cup {i} |->
                     IF j = i THEN NewRow(k, s) ELSE jobs[j]]
  /\ births' = births + 1
  /\ UNCHANGED <<clock, sites, closeOn, proc, held, starts, ended>>

\* LATEST_JOB_SQL
IsLatest(i, k, s) ==
  /\ jobs[i].kind = k /\ jobs[i].site = s
  /\ \A j \in DOMAIN jobs : jobs[j].kind = k /\ jobs[j].site = s => j <= i

EndedWithin(k, s, status, time) ==
  \E i \in DOMAIN jobs :
    /\ IsLatest(i, k, s) /\ jobs[i].status = status
    /\ jobs[i].updated # Unreadable
    /\ clock - jobs[i].updated < time

\* enqueue_if_absent_with_cooldown, and _enqueue_due_wind_days' choice of the
\* success spacing: none in the evening window or on an unreadable stamp.
Suppressed(k, s) ==
  \/ k \in Cooled /\ EndedWithin(k, s, "failed", Cooldown)
  \/ k = "wind" /\ clock \notin Evening /\ EndedWithin(k, s, "completed", Spacing)

\* A lane between two jobs.  The main lane ticks on until it is cancelled; the
\* other does nothing once a stop began.
InLoop(l) ==
  /\ held[l] = NoHold
  /\ IF l = "main" THEN proc \in {"up", "stopping"} /\ closeOn ELSE proc = "up"

\* scheduler_tick and enqueue_due_current_obs, for one key that is due.
ScheduledEnqueue(k, s) ==
  /\ \E l \in Lanes : Claims(l, k) /\ InLoop(l)
  /\ ~Suppressed(k, s)
  /\ Insert(k, s)

\* The enqueues with no cooldown: an operator's fetch, from a request or the
\* command line, and the close chain's next stage, from its own running job.
DirectEnqueue(k, s) ==
  /\ \/ k = "fetch"
     \/ k \in {"close", "publish"} /\ held["main"].kind \in {"close", "publish"}
  /\ Insert(k, s)

-----------------------------------------------------------------------------
(* Claims.                                                                 *)

TierOf(k) == IF k \in Tier0 THEN 0 ELSE 1

Claimable(l, i) == /\ jobs[i].status = "pending" /\ jobs[i].due <= clock
                   /\ Claims(l, jobs[i].kind)

\* _CLAIM_ORDER_BY: the tier, then created_at and id, which order rows alike.
IsFirst(l, i) ==
  /\ Claimable(l, i)
  /\ \A j \in DOMAIN jobs :
       Claimable(l, j) => \/ TierOf(jobs[i].kind) < TierOf(jobs[j].kind)
                          \/ TierOf(jobs[i].kind) = TierOf(jobs[j].kind) /\ i <= j

MayClaim(l, i) == proc = "up" /\ InLoop(l) /\ i \in DOMAIN jobs /\ IsFirst(l, i)

Claim(l, i) ==
  /\ MayClaim(l, i)
  /\ jobs[i].readable
  /\ jobs' = [jobs EXCEPT ![i].status = "running", ![i].updated = clock]
  /\ held' = [held EXCEPT ![l] = [id |-> i, kind |-> jobs[i].kind,
                                  born |-> jobs[i].born]]
  /\ UNCHANGED <<clock, sites, closeOn, proc, starts, births, ended>>

EndOf(k, s, status) ==
  [ended EXCEPT ![<<k, s>>] = [status |-> status, at |-> clock]]

\* A row that does not read back fails in the claim's own transaction.
ClaimUnreadable(l, i) ==
  /\ MayClaim(l, i)
  /\ ~jobs[i].readable
  /\ jobs' = [jobs EXCEPT ![i].status = "failed", ![i].updated = clock]
  /\ ended' = EndOf(jobs[i].kind, jobs[i].site, "failed")
  /\ UNCHANGED <<clock, sites, closeOn, proc, held, starts, births>>

-----------------------------------------------------------------------------
(* Outcomes.                                                               *)

\* Mutant of StillClaimed: the id and the status alone.
SameIdRunning(h) ==
  /\ h.id \in DOMAIN jobs
  /\ jobs[h.id].status = "running"

\* _still_claimed
StillClaimed(h) ==
  /\ h.id \in DOMAIN jobs
  /\ Type(jobs[h.id].kind) = Type(h.kind)
  /\ jobs[h.id].status = "running"

\* _record_outcome: write the row, or nothing when the claim no longer stands.
Record(l, row) ==
  /\ proc # "down" /\ held[l] # NoHold
  /\ held' = [held EXCEPT ![l] = NoHold]
  /\ IF StillClaimed(held[l])
     THEN /\ jobs' = [jobs EXCEPT ![held[l].id] = row]
          /\ ended' = IF row.status \in Ended
                      THEN EndOf(row.kind, row.site, row.status) ELSE ended
     ELSE UNCHANGED <<jobs, ended>>
  /\ UNCHANGED <<clock, sites, closeOn, proc, starts, births>>

Mine(l) == jobs[held[l].id]

\* A normal return, or a cancelled job.
Complete(l) ==
  Record(l, [Mine(l) EXCEPT !.status = "completed", !.updated = clock])

Defer(l, wait) ==
  Record(l, [Mine(l) EXCEPT !.status = "pending", !.due = clock + wait,
                            !.updated = clock])

Least(a, b)   == IF a < b THEN a ELSE b
Largest(a, b) == IF a < b THEN b ELSE a

TriesAfter(row) == Least(Largest(row.tries, 0) + 1, MaxRetryCount)

\* Mutant of Terminal: the saturated count retries.
TerminalAtLimit(row) == TriesAfter(row) > row.limit

Terminal(row) == TriesAfter(row) > row.limit \/ TriesAfter(row) >= MaxRetryCount

\* fail(), from _fail_job: the row ends, or waits out the retry's delay.
Failed(row, wait) ==
  [row EXCEPT !.status = IF Terminal(row) THEN "failed" ELSE "pending",
              !.due = IF Terminal(row) THEN row.due ELSE clock + wait,
              !.tries = TriesAfter(row), !.updated = clock,
              !.fails = row.fails + 1]

Fail(l, wait) == Record(l, Failed(Mine(l), wait))

\* StopRequested, or the lane's cancellation: nothing is recorded.
Abandon(l) ==
  /\ proc \in {"stopping", "reclaimed"} /\ held[l] # NoHold
  /\ held' = [held EXCEPT ![l] = NoHold]
  /\ UNCHANGED <<clock, sites, jobs, closeOn, proc, starts, births, ended>>

-----------------------------------------------------------------------------
(* The process, the sites, the clock.                                      *)

Idle == [l \in Lanes |-> NoHold]

\* reclaim_all_stale
Reclaimed ==
  [i \in DOMAIN jobs |->
     IF jobs[i].status = "running"
     THEN [jobs[i] EXCEPT !.status = "pending", !.updated = clock] ELSE jobs[i]]

\* Mutant of Start: no reclaim at the start.
StartPlain ==
  /\ proc = "down" /\ starts < MaxStarts
  /\ proc' = "up" /\ starts' = starts + 1
  /\ UNCHANGED <<clock, sites, jobs, closeOn, held, births, ended>>

\* lifespan's start, before run_worker.
Start ==
  /\ proc = "down" /\ starts < MaxStarts
  /\ proc' = "up" /\ starts' = starts + 1
  /\ jobs' = Reclaimed
  /\ UNCHANGED <<clock, sites, closeOn, held, births, ended>>

\* request_stop, then the lanes are cancelled; a restart follows.
Stop ==
  /\ proc = "up" /\ starts < MaxStarts
  /\ proc' = "stopping"
  /\ UNCHANGED <<clock, sites, jobs, closeOn, held, starts, births, ended>>

\* _shutdown_reclaim: the drain is over, or its budget ran out with a lane
\* still at its job.
ShutdownReclaim ==
  /\ proc = "stopping"
  /\ proc' = "reclaimed"
  /\ jobs' = Reclaimed
  /\ UNCHANGED <<clock, sites, closeOn, held, starts, births, ended>>

\* The stop's end, with its reclaim or without.
Exit ==
  /\ proc \in {"stopping", "reclaimed"}
  /\ proc' = "down" /\ held' = Idle
  /\ UNCHANGED <<clock, sites, jobs, closeOn, starts, births, ended>>

\* A kill, or a lane that ended on its own (_stop_on_worker_done).
Crash ==
  /\ proc # "down" /\ starts < MaxStarts
  /\ proc' = "down" /\ held' = Idle
  /\ UNCHANGED <<clock, sites, jobs, closeOn, starts, births, ended>>

Without(S) == [i \in DOMAIN jobs \ S |-> jobs[i]]

\* Mutant of Expired: the purge does not look at the age.
ExpiredAtOnce == {i \in DOMAIN jobs : jobs[i].status = "failed"}

Expired == {i \in DOMAIN jobs : /\ jobs[i].status = "failed"
                                /\ jobs[i].updated # Unreadable
                                /\ jobs[i].updated + Retention < clock}

\* purge_failed_jobs_older_than, once an hour in the main lane's loop.
Purge ==
  /\ held["main"] = NoHold /\ proc \in {"up", "stopping"}
  /\ Expired # {}
  /\ jobs' = Without(Expired)
  /\ UNCHANGED <<clock, sites, closeOn, proc, held, starts, births, ended>>

OfSite(s) == {i \in DOMAIN jobs : jobs[i].site = s}

\* delete_site: the cascade takes the site's rows, the running ones too.
DeleteSite(s) ==
  /\ s \in sites
  /\ sites' = sites \ {s}
  /\ jobs' = Without(OfSite(s))
  /\ ended' = [q \in Keys |-> IF q[2] = s THEN Never ELSE ended[q]]
  /\ UNCHANGED <<clock, closeOn, proc, held, starts, births>>

CreateSite(s) ==
  /\ s \in Sites \ sites
  /\ sites' = sites \cup {s}
  /\ UNCHANGED <<clock, jobs, closeOn, proc, held, starts, births, ended>>

\* The daily close is switched on, once.
SwitchOn ==
  /\ ~closeOn /\ closeOn' = TRUE
  /\ UNCHANGED <<clock, sites, jobs, proc, held, starts, births, ended>>

Tick ==
  /\ clock < MaxTime /\ clock' = clock + 1
  /\ UNCHANGED <<sites, jobs, closeOn, proc, held, starts, births, ended>>

-----------------------------------------------------------------------------

Init ==
  /\ clock = 0
  /\ jobs \in InitialTables
  /\ sites = Sites
  /\ closeOn \in BOOLEAN
  /\ proc = "down" /\ held = Idle /\ starts = 0
  /\ births \in 0..MaxJobs /\ DOMAIN jobs = 1..births
  /\ ended = [q \in Keys |-> Never]

Outcome(l) == \/ Complete(l)
              \/ \E wait \in 1..MaxDelay : Defer(l, wait) \/ Fail(l, wait)
              \/ Abandon(l)

ClaimNext(l) == \E i \in DOMAIN jobs : Claim(l, i) \/ ClaimUnreadable(l, i)

LaneStep(l) == ClaimNext(l) \/ Outcome(l)

Next ==
  \/ \E k \in Kinds, s \in Sites : ScheduledEnqueue(k, s) \/ DirectEnqueue(k, s)
  \/ \E l \in Lanes : LaneStep(l)
  \/ Start \/ Stop \/ ShutdownReclaim \/ Exit \/ Crash
  \/ Purge \/ SwitchOn \/ Tick
  \/ \E s \in Sites : DeleteSite(s) \/ CreateSite(s)

Spec == Init /\ [][Next]_vars

\* The supervisor restarts a process that ended, a stop ends (the lanes' drain
\* and the reclaim wait only within the stop budget), a lane between jobs
\* claims at every pass of its loop and a job it runs ends: every provider call
\* and every write has a time limit.
Fairness ==
  /\ WF_vars(Start) /\ WF_vars(Exit)
  /\ \A l \in Lanes : WF_vars(LaneStep(l))

FairSpec == Spec /\ Fairness

-----------------------------------------------------------------------------
(* Properties.                                                             *)

\* The type invariant: rows, holds and histories are of their types, and a key
\* has at most one live row, later than its every other row.
TypeOK ==
  /\ clock \in Nat /\ starts \in Nat /\ births \in 0..MaxJobs
  /\ sites \subseteq Sites /\ closeOn \in BOOLEAN
  /\ proc \in {"down", "up", "stopping", "reclaimed"}
  /\ IsTable(jobs)
  /\ held \in [Lanes -> Hold \cup {NoHold}]
  /\ ended \in [Keys -> Ending \cup {Never}]

HeldBy(l, i) == held[l].id = i /\ held[l].born = jobs[i].born

\* While the process works, every running row is in the hands of the lane that
\* claims its type: no row is left running by an earlier process or by a lane
\* that went on, where it would block its key for ever.
RunningIsHeld ==
  proc = "up" =>
    \A i \in DOMAIN jobs : jobs[i].status = "running" =>
      \E l \in Lanes : Claims(l, jobs[i].kind) /\ HeldBy(l, i)

\* A job fails at most max_retries + 1 times, whatever its stored count was and
\* however high its limit is: the saturated count ends it (fail).
RetriesEnd ==
  \A i \in DOMAIN jobs :
    /\ jobs[i].fails <= MaxRetryCount
    /\ jobs[i].fails <= Largest(jobs[i].limit, 0) + 1

Finishes(l) == held[l] # NoHold /\ held'[l] = NoHold

\* An outcome is written to the very row its lane claimed, never to another row
\* that a site deletion let take over the id (_still_claimed's comment).
OutcomeIsOwn ==
  [][\A l \in Lanes : Finishes(l) /\ jobs' # jobs =>
       \A i \in DOMAIN jobs :
         /\ i \in DOMAIN jobs'
         /\ jobs'[i] # jobs[i] => HeldBy(l, i)]_vars

Appears(k, s) ==
  \E i \in DOMAIN jobs' : /\ jobs'[i].kind = k /\ jobs'[i].site = s
                          /\ jobs'[i].born = births + 1

\* The scheduler starts no wind or current-observations job while its key's last
\* run, purged or not, failed for good less than the cooldown ago, and no wind
\* job less than the spacing after a success, except in the evening window: the
\* loop that would starve every other job (enqueue_if_absent_with_cooldown).
CooldownKept ==
  [][\A k \in Kinds \cap {"wind", "curobs"}, s \in Sites : Appears(k, s) =>
       LET last == ended[<<k, s>>] IN
         /\ last.status = "failed" => clock - last.at >= Cooldown
         /\ last.status = "completed" /\ k = "wind" /\ clock \notin Evening
              => clock - last.at >= Spacing]_vars

Phase ==
  [q \in Keys |->
     IF \E i \in DOMAIN jobs : <<jobs[i].kind, jobs[i].site>> = q
                              /\ jobs[i].status = "pending"
     THEN "waiting"
     ELSE IF HasActive(q[1], q[2]) THEN "running" ELSE "none"]

LaneOfKey == [q \in Keys |-> IF Claims("obs", q[1]) THEN "obs" ELSE "main"]

SiteOfKey == [q \in Keys |-> q[2]]

Ledger == INSTANCE QueueLedger WITH Lane <- LaneOfKey, Owner <- SiteOfKey, phase <- Phase

\* The table and its lanes implement the queue's promise: one run of a key and
\* of a lane at a time, entered by a claim and left by an outcome.
LedgerSpec == Ledger!Spec

\* A row that is due while the process works; while the close is off only the
\* current-observations lane does.
DueRow(b) ==
  \E i \in DOMAIN jobs :
    /\ jobs[i].born = b /\ jobs[i].status = "pending" /\ jobs[i].due <= clock
    /\ proc = "up" /\ (closeOn \/ jobs[i].kind = "curobs")

\* Under fairness a row that is due for a working lane is claimed, or goes with
\* its site, or the process stops: no type is without a lane, no lane is held up
\* for ever by a row that another run or another process left behind.
DueIsClaimed == \A b \in 1..MaxJobs : DueRow(b) ~> ~DueRow(b)
=============================================================================
