----------------------------- MODULE CloseChain -----------------------------
(***************************************************************************)
(* The daily close of one site: its day records, its close attempts, the   *)
(* stage jobs that carry them, the publications that follow, the scheduler *)
(* tick that starts, repairs and gives up on work, and what a stop, a      *)
(* crash and a restart do to all of it.                                    *)
(*                                                                         *)
(* Sources: wxverify/worker/close_chain.py (the chain), db/site_days.py    *)
(* (the day records), worker/processor.py (the main lane), api/app.py (the *)
(* start), scoring/publication.py (the publication swap).                  *)
(*                                                                         *)
(* One action per write transaction of the code.  Days are numbered 1, 2,  *)
(* ...; instants are natural numbers in a unit that DayEnd, RoundBound,    *)
(* RetryDelay and LateLimit share.                                         *)
(***************************************************************************)
EXTENDS Integers, FiniteSets

CONSTANTS
  NumDays,     \* the days of the model: 1..NumDays
  DayEnd,      \* day_end_utc of each day, a function of the day
  RoundBound,  \* the round's bound, counted from the day's end (worker/round.py)
  RetryDelay,  \* site_days.RETRY_DELAY
  LateLimit,   \* close_chain.CLOSE_LATE_LIMIT
  Changeover,  \* the days whose record is created with zone_changeover set
  MaxTime,     \* bound: the clock stops here
  MaxStops     \* bound: how many stops and crashes a behaviour may have

Days == 1..NumDays

ASSUME ConstantsAssumption ==
  /\ NumDays \in Nat \ {0}
  /\ DayEnd \in [Days -> Nat]
  /\ \A d, e \in Days : d < e => DayEnd[d] < DayEnd[e]
  /\ RoundBound \in Nat
  /\ RetryDelay \in Nat
  /\ LateLimit \in Nat
  /\ Changeover \subseteq Days
  /\ MaxTime \in Nat
  /\ MaxStops \in Nat

VARIABLES
  now,         \* the clock
  \* site_days, and the current attempt's close_attempts row
  state,       \* site_days.state; "none" while the day has no record
  attempts,    \* site_days.attempts
  retryAt,     \* site_days.retry_at
  reason,      \* site_days.missed_reason
  lastStage,   \* close_attempts.last_stage of the attempt numbered attempts
  progressAt,  \* close_attempts.last_progress_at of that attempt
  \* close_publications, by cutoff, and the publications table
  pub,         \* close_publications.state; "none" while there is no record
  pubAttempt,  \* close_publications.attempt
  pubRetryAt,  \* close_publications.retry_at
  pubStarted,  \* close_publications.started_at, else opened_at
  swapped,     \* the cutoffs whose rows scoring/publication.py has swapped in
  \* the jobs table's live rows of the two close kinds, and the main lane
  jobs,
  pc,          \* where the process is: down, starting, or in the lane's loop
  cur,         \* the job the lane has claimed
  claimedAt,   \* its updated_at, the time of the claim
  \* runtime_state
  startedAt,   \* worker_started_at
  lastLoop,    \* worker_last_loop_at
  stops        \* how many stops and crashes so far

dayVars  == <<state, attempts, retryAt, reason, lastStage, progressAt>>
pubVars  == <<pub, pubAttempt, pubRetryAt, pubStarted, swapped>>
laneVars == <<pc, cur, claimedAt>>
runVars  == <<startedAt, lastLoop, stops>>
vars     == <<now, dayVars, pubVars, jobs, laneVars, runVars>>

-----------------------------------------------------------------------------
(* Records and states.                                                     *)

DayState  == {"none", "open", "closing", "retry_due", "closed", "missed"}
PubState  == {"none", "pending", "building", "retry_due",
              "published", "failed", "superseded"}
Reason    == {"none", "never_attempted", "retry_failed", "retry_not_run",
              "zone_changeover"}

\* Where the lane is while it holds a claimed job.
Running   == {"run", "filling", "retention", "publishing", "announce",
              "complete", "raise"}
Starting  == {"down", "reclaimed", "settled"}
Lane      == {"loop", "tick", "claim"}

Status == {"pending", "running"}
Job ==
  [kind : {"close"}, date : Days, stage : 2..6, attempt : 1..2, enq : Nat, status : Status]
    \cup
  [kind : {"publish"}, date : Days, stage : {7}, attempt : 1..2, enq : Nat, status : Status]
NoJob == [kind |-> "none", date |-> 0, stage |-> 0, attempt |-> 0,
          enq |-> 0, status |-> "none"]

Larger(a, b) == IF a < b THEN b ELSE a

IsDone(s)   == s \in {"closed", "missed"}
IsUndone(s) == s \in {"open", "closing", "retry_due"}
Open        == {"pending", "building"}

CloseJob(d, s, a) == [kind |-> "close", date |-> d, stage |-> s,
                      attempt |-> a, enq |-> now, status |-> "pending"]
PublishJob(c, a)  == [kind |-> "publish", date |-> c, stage |-> 7,
                      attempt |-> a, enq |-> now, status |-> "pending"]

\* idx_jobs_active_dedupe: a close stage's key holds its date and stage, a
\* publication's key only the site.
SameKey(j, k) == /\ j.kind = k.kind
                 /\ j.kind = "close" => j.date = k.date /\ j.stage = k.stage

Enqueue(js, new) ==
  js \cup {j \in new : \A k \in js : ~SameKey(j, k)}

OfDay(js, d)  == {j \in js : j.kind = "close" /\ j.date = d}
Live(js, kind) == {j \in js : j.kind = kind}
Pending(js)   == {j \in js : j.status = "pending"}

Earliest(S) == {c \in S : \A e \in S : c <= e}

-----------------------------------------------------------------------------
(* db/site_days.py.                                                        *)

\* ensure_site_days: the records through the date after the one holding now.
Ensured(st) ==
  [d \in Days |->
     IF st[d] = "none" /\ (d <= 2 \/ DayEnd[d - 2] <= now)
     THEN "open" ELSE st[d]]

NoEarlierUndone(st, d) == \A e \in Days : e < d => ~IsUndone(st[e])

\* Mutant of ClosedThrough: the first undone date counts as done.
ClosedThroughOneMore(st) ==
  {d \in Days : /\ st[d] # "none"
                /\ \A e \in Days : IsUndone(st[e]) => d <= e
                /\ \A e \in Days : (st[e] # "none" /\ d < e)
                                      => \E f \in Days : IsUndone(st[f]) /\ f < e}

\* closed_through: the latest recorded date before the first undone one, as a
\* set of at most one date.
ClosedThrough(st) ==
  {d \in Days : /\ st[d] # "none"
                /\ \A e \in Days : IsUndone(st[e]) => d < e
                /\ \A e \in Days : (st[e] # "none" /\ d < e)
                                      => \E f \in Days : IsUndone(st[f]) /\ f <= e}

\* Mutant of FailClose: the attempt count is not looked at.
FailCloseForever(d, at) ==
  /\ state' = [state EXCEPT ![d] = "retry_due"]
  /\ retryAt' = [retryAt EXCEPT ![d] = at + RetryDelay]
  /\ UNCHANGED reason

\* fail_close: a retry after the first attempt, missed after the second.
FailClose(d, at) ==
  /\ state' = [state EXCEPT ![d] = IF attempts[d] = 1 THEN "retry_due" ELSE "missed"]
  /\ retryAt' = IF attempts[d] = 1
                THEN [retryAt EXCEPT ![d] = at + RetryDelay] ELSE retryAt
  /\ reason' = IF attempts[d] = 1
               THEN reason ELSE [reason EXCEPT ![d] = "retry_failed"]

-----------------------------------------------------------------------------
(* The scheduler tick's close work: enqueue_due_close_work for one site.   *)

\* _running_at: the process was up at the due instant and this tick is not
\* more than LateLimit after it.
RunningAt(due) == startedAt <= due /\ now - due <= LateLimit

DueAt(st, d) == IF st[d] = "retry_due" THEN retryAt[d] ELSE DayEnd[d] + RoundBound

\* Mutant of PastWaits: a changeover day goes as soon as its round is settled.
PastWaitsForAll(st, d, settled) ==
  \/ /\ st[d] = "open" /\ now >= DayEnd[d]
     /\ now >= DueAt(st, d) \/ d \in settled
  \/ st[d] = "retry_due" /\ now >= retryAt[d]

\* The waits of _close_due_days: a day past them is missed or attempted now.
PastWaits(st, d, settled) ==
  \/ /\ st[d] = "open" /\ now >= DayEnd[d]
     /\ now >= DueAt(st, d) \/ (d \notin Changeover /\ d \in settled)
  \/ st[d] = "retry_due" /\ now >= retryAt[d]

ToMiss(st, d, settled) ==
  /\ PastWaits(st, d, settled)
  /\ (st[d] = "open" /\ d \in Changeover) \/ ~RunningAt(DueAt(st, d))

\* The walk, oldest first: it passes the days it moves to missed and ends at
\* the first other undone day.
MissedNow(st, settled) ==
  {d \in Days : /\ IsUndone(st[d])
                /\ \A e \in 1..d : IsUndone(st[e]) => ToMiss(st, e, settled)}

StartNow(st, settled, windDue) ==
  {d \in Days : /\ PastWaits(st, d, settled)
                /\ ~ToMiss(st, d, settled)
                /\ \A e \in 1..(d - 1) : IsUndone(st[e]) => ToMiss(st, e, settled)
                /\ ~(st[d] = "open" /\ windDue)}

MissReason(st, d) ==
  CASE st[d] = "retry_due" -> "retry_not_run"
    [] d \in Changeover    -> "zone_changeover"
    [] OTHER               -> "never_attempted"

\* Mutant of CloseDueDays: the second attempt goes on from the first one's stage.
CloseDueDaysResume(st, missed, start) ==
  /\ state' = [d \in Days |-> IF d \in missed THEN "missed"
                              ELSE IF d \in start THEN "closing" ELSE st[d]]
  /\ reason' = [d \in Days |-> IF d \in missed THEN MissReason(st, d) ELSE reason[d]]
  /\ attempts' = [d \in Days |-> IF d \in start
                                 THEN IF st[d] = "open" THEN 1 ELSE 2
                                 ELSE attempts[d]]
  /\ lastStage' = [d \in Days |-> IF d \in start THEN Larger(1, lastStage[d])
                                  ELSE lastStage[d]]
  /\ progressAt' = [d \in Days |-> IF d \in start THEN now ELSE progressAt[d]]
  /\ UNCHANGED retryAt

\* _close_due_days: begin_close and the attempt record of the day started.
CloseDueDays(st, missed, start) ==
  /\ state' = [d \in Days |-> IF d \in missed THEN "missed"
                              ELSE IF d \in start THEN "closing" ELSE st[d]]
  /\ reason' = [d \in Days |-> IF d \in missed THEN MissReason(st, d) ELSE reason[d]]
  /\ attempts' = [d \in Days |-> IF d \in start
                                 THEN IF st[d] = "open" THEN 1 ELSE 2
                                 ELSE attempts[d]]
  /\ lastStage' = [d \in Days |-> IF d \in start THEN 1 ELSE lastStage[d]]
  /\ progressAt' = [d \in Days |-> IF d \in start THEN now ELSE progressAt[d]]
  /\ UNCHANGED retryAt

\* _retry_publications, the records whose time has come.
DueRetries == {c \in Days : pub[c] = "retry_due" /\ now >= pubRetryAt[c]}
Revived    == {c \in DueRetries : RunningAt(pubRetryAt[c])}

RetryPublications ==
  /\ pub' = [c \in Days |-> IF c \in Revived THEN "pending"
                            ELSE IF c \in DueRetries THEN "failed" ELSE pub[c]]
  /\ pubAttempt' = [c \in Days |-> IF c \in Revived THEN 2 ELSE pubAttempt[c]]
  /\ pubRetryAt' = [c \in Days |-> IF c \in Revived THEN 0 ELSE pubRetryAt[c]]
  /\ UNCHANGED <<pubStarted, swapped>>

\* Mutant of TickJobs: no repair of a closing day.
TickJobsNoCloseRepair(start) ==
  LET open    == {c \in Days : pub[c] \in Open}
      started == Enqueue(jobs, {CloseJob(d, 2, attempts'[d]) : d \in start})
      pubRep  == IF Live(started, "publish") = {}
                 THEN started \cup {PublishJob(c, pubAttempt[c]) : c \in Earliest(open)}
                 ELSE started
  IN  Enqueue(pubRep, {PublishJob(c, 2) : c \in Earliest(Revived)})

\* Mutant of TickJobs: no repair of an open publication.
TickJobsNoPubRepair(start) ==
  LET closing  == {d \in Days : state'[d] = "closing"}
      started  == Enqueue(jobs, {CloseJob(d, 2, attempts'[d]) : d \in start})
      closeRep == IF Live(started, "close") = {}
                  THEN started \cup {CloseJob(d, lastStage'[d] + 1, attempts'[d]) : d \in closing}
                  ELSE started
  IN  Enqueue(closeRep, {PublishJob(c, 2) : c \in Earliest(Revived)})

\* The jobs the tick enqueues, in its order: stage 2 of the attempt started,
\* the repair of a closing day's lost job, the repair of the oldest open
\* publication's, the retried publications' (one key, so the oldest wins).
TickJobs(start) ==
  LET closing  == {d \in Days : state'[d] = "closing"}
      open     == {c \in Days : pub[c] \in Open}
      started  == Enqueue(jobs, {CloseJob(d, 2, attempts'[d]) : d \in start})
      closeRep == IF Live(started, "close") = {}
                  THEN started \cup {CloseJob(d, lastStage'[d] + 1, attempts'[d]) : d \in closing}
                  ELSE started
      pubRep   == IF Live(closeRep, "publish") = {}
                  THEN closeRep \cup {PublishJob(c, pubAttempt[c]) : c \in Earliest(open)}
                  ELSE closeRep
  IN  Enqueue(pubRep, {PublishJob(c, 2) : c \in Earliest(Revived)})

\* The round's answers and the wind lane's due job are other components' and
\* may be anything.
SchedulerTick ==
  /\ pc = "tick"
  /\ pc' = "claim"
  /\ \E settled \in SUBSET Days, windDue \in BOOLEAN :
       LET st     == Ensured(state)
           missed == MissedNow(st, settled)
           start  == StartNow(st, settled, windDue)
       IN  /\ CloseDueDays(st, missed, start)
           /\ RetryPublications
           /\ jobs' = TickJobs(start)
  /\ UNCHANGED <<now, cur, claimedAt, runVars>>

\* The tick of a site that is turned off, which is not among its sites, or whose
\* step raised and was rolled back (_in_site_savepoint).
IdleTick ==
  /\ pc = "tick"
  /\ pc' = "claim"
  /\ UNCHANGED <<now, dayVars, pubVars, jobs, cur, claimedAt, runVars>>

-----------------------------------------------------------------------------
(* The main lane.                                                          *)

\* _maybe_stamp_runtime_heartbeat; a write that fails is logged and passed.
Heartbeat ==
  /\ pc = "loop"
  /\ pc' = "tick"
  /\ lastLoop' \in {now, lastLoop}
  /\ UNCHANGED <<now, dayVars, pubVars, jobs, cur, claimedAt, startedAt, stops>>

\* claim_next_job over the two close kinds, both of the first tier: the oldest
\* pending row by created_at.  The id that orders rows of one instant is left
\* out: any of them may come first, and FairSpec says none is passed for ever.
Claim ==
  /\ pc = "claim"
  /\ \E j \in Pending(jobs) :
       /\ \A k \in Pending(jobs) : j.enq <= k.enq
       /\ cur' = [j EXCEPT !.status = "running"]
       /\ jobs' = (jobs \ {j}) \cup {cur'}
  /\ claimedAt' = now
  /\ pc' = "run"
  /\ UNCHANGED <<now, dayVars, pubVars, runVars>>

\* With no row to claim the lane goes round again.
ClaimNothing ==
  /\ pc = "claim"
  /\ Pending(jobs) = {}
  /\ pc' = "loop"
  /\ UNCHANGED <<now, dayVars, pubVars, jobs, cur, claimedAt, runVars>>

\* The claimed row ends: complete, or fail with no retry left.
EndJob ==
  /\ jobs' = jobs \ {cur}
  /\ cur' = NoJob
  /\ claimedAt' = 0
  /\ pc' = "loop"

\* run_claimed_job's normal end, in a write of its own.
Complete ==
  /\ pc = "complete"
  /\ EndJob
  /\ UNCHANGED <<now, dayVars, pubVars, runVars>>

-----------------------------------------------------------------------------
(* The stages.                                                             *)

\* _current: the day is closing in the job's attempt.
Current(j) == state[j.date] = "closing" /\ attempts[j.date] = j.attempt

\* _stalled: the lane's job was claimed more than LateLimit after its enqueue.
Stalled == claimedAt - cur.enq > LateLimit

\* _open_stage lets the stage run.
Opens(j) == Current(j) /\ lastStage[j.date] < j.stage /\ ~Stalled

\* fail_attempt: fail_close, and the day's other pending stage jobs completed.
FailAttempt(d) ==
  /\ FailClose(d, now)
  /\ jobs' = jobs \ {j \in OfDay(jobs, d) : j.status = "pending"}
  /\ UNCHANGED <<attempts, lastStage, progressAt, pubVars>>

\* _complete_stage: the stage saved and the next one enqueued.
CompleteStage(j) ==
  /\ lastStage' = [lastStage EXCEPT ![j.date] = j.stage]
  /\ progressAt' = [progressAt EXCEPT ![j.date] = now]
  /\ jobs' = Enqueue(jobs, {CloseJob(j.date, j.stage + 1, j.attempt)})
  /\ UNCHANGED <<state, attempts, retryAt, reason, pubVars>>

\* _open_stage: a stale or repeated job does nothing.
SkipStage ==
  /\ pc = "run" /\ cur.kind = "close"
  /\ ~Current(cur) \/ lastStage[cur.date] >= cur.stage
  /\ pc' = "complete"
  /\ UNCHANGED <<now, dayVars, pubVars, jobs, cur, claimedAt, runVars>>

\* _open_stage: a job claimed too late fails its attempt.
StalledStage ==
  /\ pc = "run" /\ cur.kind = "close"
  /\ Current(cur) /\ lastStage[cur.date] < cur.stage /\ Stalled
  /\ FailAttempt(cur.date)
  /\ pc' = "complete"
  /\ UNCHANGED <<now, cur, claimedAt, runVars>>

\* _gap_fill_stage's first write; its calls and their writes follow.
BeginFill ==
  /\ pc = "run" /\ cur.kind = "close" /\ cur.stage = 2
  /\ Opens(cur)
  /\ pc' = "filling"
  /\ UNCHANGED <<now, dayVars, pubVars, jobs, cur, claimedAt, runVars>>

\* _gap_fill_stage's last write: the attempt read again, then its outcome.
FinishFill ==
  /\ pc = "filling"
  /\ \/ /\ ~Current(cur) \/ lastStage[cur.date] >= cur.stage
        /\ UNCHANGED <<dayVars, pubVars, jobs>>
     \/ /\ Current(cur) /\ lastStage[cur.date] < cur.stage
        /\ FailAttempt(cur.date) \/ CompleteStage(cur)
  /\ pc' = "complete"
  /\ UNCHANGED <<now, cur, claimedAt, runVars>>

\* Stages 3 to 5, one transaction each.  Stage 3 fails the attempt when the
\* guard refuses its values, stage 4 when the day's bounds are not its zone's;
\* stage 5 fails only by an exception.
RunStage ==
  /\ pc = "run" /\ cur.kind = "close" /\ cur.stage \in 3..5
  /\ Opens(cur)
  /\ \/ CompleteStage(cur)
     \/ cur.stage \in {3, 4} /\ FailAttempt(cur.date)
  /\ pc' = "complete"
  /\ UNCHANGED <<now, cur, claimedAt, runVars>>

\* _closure, stage 6: the day closed, its publication opened and stage 7
\* enqueued in one write.  The insert collides, and the write with it, when the
\* cutoff already has a record: then only Raise is possible.
Closure ==
  /\ pc = "run" /\ cur.kind = "close" /\ cur.stage = 6
  /\ Opens(cur)
  /\ state' = [state EXCEPT ![cur.date] = "closed"]
  /\ lastStage' = [lastStage EXCEPT ![cur.date] = 6]
  /\ progressAt' = [progressAt EXCEPT ![cur.date] = now]
  /\ UNCHANGED <<attempts, retryAt, reason>>
  /\ \E c \in ClosedThrough(state') :
       /\ pub[c] = "none"
       /\ pub' = [pub EXCEPT ![c] = "pending"]
       /\ pubAttempt' = [pubAttempt EXCEPT ![c] = 1]
       /\ pubStarted' = [pubStarted EXCEPT ![c] = now]
       /\ jobs' = Enqueue(jobs, {PublishJob(c, 1)})
  /\ UNCHANGED <<pubRetryAt, swapped>>
  /\ pc' = "retention"
  /\ UNCHANGED <<now, cur, claimedAt, runVars>>

\* The raw retention after a closure, a write of its own; it touches no state
\* of this module.
Retention ==
  /\ pc = "retention"
  /\ pc' = "complete"
  /\ UNCHANGED <<now, dayVars, pubVars, jobs, cur, claimedAt, runVars>>

-----------------------------------------------------------------------------
(* Stage 7, the publication.                                               *)

\* The record stands for the job: its attempt, pending or building.
RecordOpen(j) == pub[j.date] \in Open /\ pubAttempt[j.date] = j.attempt

\* Mutant of NewerPublication: only an open one counts.
NewerPublicationOpen(c) == \E e \in Days : c < e /\ pub[e] \in Open

\* _newer_publication: a later cutoff is open or published.
NewerPublication(c) ==
  \E e \in Days : c < e /\ pub[e] \in Open \cup {"published"}

\* fail_publication: a retry after attempt 1, failed after attempt 2.
FailPublication(c) ==
  /\ pub' = [pub EXCEPT ![c] = IF pubAttempt[c] = 1 THEN "retry_due" ELSE "failed"]
  /\ pubRetryAt' = IF pubAttempt[c] = 1
                   THEN [pubRetryAt EXCEPT ![c] = now + RetryDelay] ELSE pubRetryAt
  /\ UNCHANGED <<pubAttempt, swapped>>

\* _begin_publication: nothing for a record no longer open; superseded behind a
\* newer one; failed when the job was claimed too late; else building.
BeginPublication ==
  /\ pc = "run" /\ cur.kind = "publish"
  /\ \/ /\ ~RecordOpen(cur)
        /\ pc' = "complete"
        /\ UNCHANGED pubVars
     \/ /\ RecordOpen(cur) /\ NewerPublication(cur.date)
        /\ pub' = [pub EXCEPT ![cur.date] = "superseded"]
        /\ pc' = "complete"
        /\ UNCHANGED <<pubAttempt, pubRetryAt, pubStarted, swapped>>
     \/ /\ RecordOpen(cur) /\ ~NewerPublication(cur.date) /\ Stalled
        /\ FailPublication(cur.date)
        /\ pubStarted' = [pubStarted EXCEPT ![cur.date] = now]
        /\ pc' = "complete"
     \/ /\ RecordOpen(cur) /\ ~NewerPublication(cur.date) /\ ~Stalled
        /\ pub' = [pub EXCEPT ![cur.date] = "building"]
        /\ pubStarted' = [pubStarted EXCEPT ![cur.date] = now]
        /\ pc' = "publishing"
        /\ UNCHANGED <<pubAttempt, pubRetryAt, swapped>>
  /\ UNCHANGED <<now, dayVars, jobs, cur, claimedAt, runVars>>

\* Mutant of Swap: a write refused by its fence passes for done.
SwapLost ==
  /\ pc = "publishing"
  /\ pc' = "announce"
  /\ UNCHANGED <<now, dayVars, pubVars, jobs, cur, claimedAt, runVars>>

\* publication.publish: the swap, in its own write; a cutoff already there is
\* left alone, one whose day is not closed raises.
Swap ==
  /\ pc = "publishing"
  /\ cur.date \in swapped \/ state[cur.date] = "closed"
  /\ swapped' = swapped \cup {cur.date}
  /\ pc' = "announce"
  /\ UNCHANGED <<now, dayVars, pub, pubAttempt, pubRetryAt, pubStarted, jobs,
                 cur, claimedAt, runVars>>

\* _publish_stage's last write: the record read again, then published.
FinishPublication ==
  /\ pc = "announce"
  /\ pub' = IF pub[cur.date] = "building" /\ pubAttempt[cur.date] = cur.attempt
            THEN [pub EXCEPT ![cur.date] = "published"] ELSE pub
  /\ pc' = "complete"
  /\ UNCHANGED <<now, dayVars, pubAttempt, pubRetryAt, pubStarted, swapped, jobs,
                 cur, claimedAt, runVars>>

-----------------------------------------------------------------------------
(* Exceptions.                                                             *)

\* Any of the job's writes or calls may raise; the write rolls back.
Raise ==
  /\ pc \in Running \ {"raise"}
  /\ pc' = "raise"
  /\ UNCHANGED <<now, dayVars, pubVars, jobs, cur, claimedAt, runVars>>

\* _fail_job: the attempt or publication failed when it is still the job's, and
\* the row ended; both kinds have max_retries 0.
FailJob ==
  /\ pc = "raise"
  /\ \/ /\ cur.kind = "close" /\ Current(cur)
        /\ FailClose(cur.date, now)
        /\ jobs' = jobs \ ({j \in OfDay(jobs, cur.date) : j.status = "pending"} \cup {cur})
        /\ UNCHANGED <<attempts, lastStage, progressAt, pubVars>>
     \/ /\ cur.kind = "publish"
        /\ pub[cur.date] = "building" /\ pubAttempt[cur.date] = cur.attempt
        /\ FailPublication(cur.date)
        /\ jobs' = jobs \ {cur}
        /\ UNCHANGED <<dayVars, pubStarted>>
     \/ /\ ~(cur.kind = "close" /\ Current(cur))
        /\ ~(/\ cur.kind = "publish"
             /\ pub[cur.date] = "building" /\ pubAttempt[cur.date] = cur.attempt)
        /\ jobs' = jobs \ {cur}
        /\ UNCHANGED <<dayVars, pubVars>>
  /\ cur' = NoJob
  /\ claimedAt' = 0
  /\ pc' = "loop"
  /\ UNCHANGED <<now, runVars>>

-----------------------------------------------------------------------------
(* Stop, crash and start.                                                  *)

\* Mutant of Reclaimed: running rows stay as they are.
ReclaimedNone(js) == js

\* Rows back to pending: the shutdown reclaim and reclaim_all_stale.
Reclaimed(js) == {[j EXCEPT !.status = "pending"] : j \in js}

Down ==
  /\ stops < MaxStops
  /\ stops' = stops + 1
  /\ pc' = "down"
  /\ cur' = NoJob
  /\ claimedAt' = 0
  /\ UNCHANGED <<now, dayVars, pubVars, startedAt, lastLoop>>

\* run_worker cancelled: the lane drains and its row is reclaimed.  A stop that
\* lands before a stage starts (StopRequested) ends the same way.
Stop ==
  /\ pc \notin Starting
  /\ Down
  /\ jobs' = Reclaimed(jobs)

\* The process dies anywhere, its start included.
Crash ==
  /\ pc # "down"
  /\ Down
  /\ UNCHANGED jobs

\* lifespan: reclaim_all_stale.
StartReclaim ==
  /\ pc = "down"
  /\ jobs' = Reclaimed(jobs)
  /\ pc' = "reclaimed"
  /\ UNCHANGED <<now, dayVars, pubVars, cur, claimedAt, runVars>>

\* Mutant of StopTime: the last heartbeat only, whatever was saved after it.
StopTimeHeartbeat(known) == lastLoop

\* _settle_day and _settle_publication: L, the time of the stop, and what an
\* interrupted first attempt becomes.
StopTime(known) == Larger(lastLoop, known)

RetryMissed(known) == now > StopTime(known) + RetryDelay

\* settle_interrupted_closes: every closing day and every building publication.
StartSettle ==
  /\ pc = "reclaimed"
  /\ LET closing  == {d \in Days : state[d] = "closing"}
         building == {c \in Days : pub[c] = "building"}
         again(d) == attempts[d] = 1
         pubAgain(c) == pubAttempt[c] = 1
     IN
     /\ state' = [d \in Days |->
          IF d \notin closing THEN state[d]
          ELSE IF again(d) /\ ~RetryMissed(progressAt[d]) THEN "retry_due" ELSE "missed"]
     /\ reason' = [d \in Days |->
          IF d \notin closing \/ (again(d) /\ ~RetryMissed(progressAt[d])) THEN reason[d]
          ELSE IF again(d) THEN "retry_not_run" ELSE "retry_failed"]
     /\ retryAt' = [d \in Days |->
          IF d \in closing /\ again(d) THEN StopTime(progressAt[d]) + RetryDelay
          ELSE retryAt[d]]
     /\ jobs' = {j \in jobs : ~(j.kind = "close" /\ j.date \in closing)}
     /\ pub' = [c \in Days |->
          IF c \notin building THEN pub[c]
          ELSE IF pubAgain(c) /\ ~RetryMissed(pubStarted[c]) THEN "retry_due" ELSE "failed"]
     /\ pubRetryAt' = [c \in Days |->
          IF c \in building /\ pubAgain(c) THEN StopTime(pubStarted[c]) + RetryDelay
          ELSE pubRetryAt[c]]
  /\ pc' = "settled"
  /\ UNCHANGED <<now, attempts, lastStage, progressAt, pubAttempt, pubStarted,
                 swapped, cur, claimedAt, runVars>>

\* lifespan: worker_started_at, then the worker.
StartWorker ==
  /\ pc = "settled"
  /\ startedAt' = now
  /\ pc' = "loop"
  /\ UNCHANGED <<now, dayVars, pubVars, jobs, cur, claimedAt, lastLoop, stops>>

-----------------------------------------------------------------------------
(* The environment.                                                        *)

Advance ==
  /\ now < MaxTime
  /\ now' = now + 1
  /\ UNCHANGED <<dayVars, pubVars, jobs, laneVars, runVars>>

\* A site started at its current date, with the process up.
Init ==
  /\ now = 0
  /\ state = [d \in Days |-> IF d <= 2 THEN "open" ELSE "none"]
  /\ attempts = [d \in Days |-> 0]
  /\ retryAt = [d \in Days |-> 0]
  /\ reason = [d \in Days |-> "none"]
  /\ lastStage = [d \in Days |-> 0]
  /\ progressAt = [d \in Days |-> 0]
  /\ pub = [d \in Days |-> "none"]
  /\ pubAttempt = [d \in Days |-> 0]
  /\ pubRetryAt = [d \in Days |-> 0]
  /\ pubStarted = [d \in Days |-> 0]
  /\ swapped = {}
  /\ jobs = {}
  /\ pc = "loop"
  /\ cur = NoJob
  /\ claimedAt = 0
  /\ startedAt = 0
  /\ lastLoop = 0
  /\ stops = 0

StageStep ==
  \/ SkipStage \/ StalledStage \/ BeginFill \/ FinishFill \/ RunStage
  \/ Closure \/ Retention
  \/ BeginPublication \/ Swap \/ FinishPublication

LaneStep  == Heartbeat \/ SchedulerTick \/ IdleTick
             \/ Claim \/ ClaimNothing \/ StageStep \/ Complete \/ FailJob
StartStep == StartReclaim \/ StartSettle \/ StartWorker

Next ==
  \/ LaneStep \/ Raise
  \/ Stop \/ Crash \/ StartStep
  \/ Advance

Spec == Init /\ [][Next]_vars

\* The lane is an endless loop, the supervisor restarts the add-on, the clock
\* runs, the site is not turned off for ever, and no row is passed for ever by
\* rows enqueued after it.  Nothing is assumed of stops and exceptions.
FairSpec ==
  /\ Spec
  /\ WF_vars(LaneStep)
  /\ SF_vars(SchedulerTick)
  /\ SF_vars(Claim /\ cur'.kind = "close")
  /\ SF_vars(Claim /\ cur'.kind = "publish")
  /\ WF_vars(StartStep)
  /\ WF_vars(Advance)

-----------------------------------------------------------------------------
(* Properties.                                                             *)

\* Every variable holds values the code can store.
TypeOK ==
  /\ now \in Nat /\ startedAt \in Nat /\ lastLoop \in Nat /\ stops \in Nat
  /\ state \in [Days -> DayState] /\ reason \in [Days -> Reason]
  /\ attempts \in [Days -> 0..2] /\ lastStage \in [Days -> 0..6]
  /\ retryAt \in [Days -> Nat] /\ progressAt \in [Days -> Nat]
  /\ pub \in [Days -> PubState] /\ pubAttempt \in [Days -> 0..2]
  /\ pubRetryAt \in [Days -> Nat] /\ pubStarted \in [Days -> Nat]
  /\ swapped \subseteq Days
  /\ jobs \subseteq Job
  /\ pc \in Starting \cup Lane \cup Running
  /\ cur \in Job \cup {NoJob}
  /\ claimedAt \in Nat

\* A day is attempted, closed or missed only when every earlier day is done, so
\* scores are always stored over a complete past: no tick, restart or late job
\* starts a second day beside the one in progress.
InOrder ==
  \A d, e \in Days :
    e < d /\ state[d] \in {"closing", "retry_due", "closed", "missed"}
      => IsDone(state[e])

\* A day is closed exactly when its cutoff has a publication record: stage 6
\* opens the record of the day it closes, never of another, and its insert
\* never meets a record already there.
PublicationPerClosure ==
  \A c \in Days : pub[c] # "none" <=> state[c] = "closed"

\* A row is 'running' only while the lane holds it: no stop, crash, start or
\* failure leaves a claimed row that nobody will ever run or end.
NoStrandedJob ==
  /\ pc \in Lane => \A j \in jobs : j.status = "pending"
  /\ pc \in Running => {j \in jobs : j.status = "running"} = {cur}

\* Of the rows the crashes and retries left, the only one that can still do
\* work for a closing day is the stage after its last saved one.
NextStageOnly ==
  \A j \in jobs :
    j.kind = "close" /\ Current(j) /\ lastStage[j.date] < j.stage
      => j.stage = lastStage[j.date] + 1

\* What a reader may see agrees with the records: a published record's cutoff
\* has its rows, and only closed days have any.
PublishedIsSwapped ==
  /\ \A c \in Days : pub[c] = "published" => c \in swapped
  /\ \A c \in swapped : state[c] = "closed"

\* A done day and an ended publication are final: no stale job, late failure,
\* retry or restart changes them.
Finality ==
  [][/\ \A d \in Days : IsDone(state[d])
          => /\ state'[d] = state[d] /\ reason'[d] = reason[d]
             /\ attempts'[d] = attempts[d] /\ lastStage'[d] = lastStage[d]
     /\ \A c \in Days : pub[c] \in {"published", "failed", "superseded"}
          => pub'[c] = pub[c]]_vars

\* A stage's completion is saved once and in order within an attempt, and only
\* while the day is closing; a new attempt starts over.
StagesInOrder ==
  [][\A d \in Days : lastStage'[d] # lastStage[d] \/ attempts'[d] # attempts[d]
       => \/ /\ lastStage'[d] = lastStage[d] + 1
             /\ attempts'[d] = attempts[d] /\ state[d] = "closing"
          \/ lastStage'[d] = 1 /\ attempts'[d] = attempts[d] + 1]_vars

\* The second attempt never starts less than RetryDelay after the first one's
\* last saved progress, a stop between them included.
RetrySpacing ==
  [][\A d \in Days : attempts[d] = 1 /\ attempts'[d] = 2
       => now >= progressAt[d] + RetryDelay]_vars

\* A day that was never attempted is given up only after its round's bound, a
\* changeover day too, however early its round is settled or the add-on starts.
NoEarlyVerdict ==
  [][\A d \in Days : attempts[d] = 0 /\ state[d] # "missed" /\ state'[d] = "missed"
       => now >= DayEnd[d] + RoundBound]_vars

\* The stored reason tells what happened: attempted days and no others are
\* missed as retry_failed or retry_not_run, retry_failed after both attempts;
\* a changeover day is missed as such, unattempted.
ReasonFits ==
  \A d \in Days :
    /\ state[d] = "missed" <=> reason[d] # "none"
    /\ reason[d] \in {"never_attempted", "zone_changeover"} => attempts[d] = 0
    /\ reason[d] = "retry_not_run" => attempts[d] = 1
    /\ reason[d] = "retry_failed" => attempts[d] = 2
    /\ d \in Changeover => attempts[d] = 0 /\ reason[d] \in {"none", "zone_changeover"}

\* An attempt or a build in progress was begun by the running process: none of
\* an earlier process survives a start as if it were still going on.
AttemptsOfThisRun ==
  pc \notin Starting =>
    /\ \A d \in Days : state[d] = "closing" => progressAt[d] >= startedAt
    /\ \A c \in Days : pub[c] = "building" => pubStarted[c] >= startedAt

\* A record is never marked published when a later cutoff's already is.
RecordsPublishInOrder ==
  [][\A c, e \in Days : c < e /\ pub[c] # "published" /\ pub'[c] = "published"
       => pub[e] # "published"]_vars

\* _newer_publication's comment: an older cutoff's retry, or its repaired stage
\* 7, never publishes after a newer cutoff has.
NeverPublishesAfterNewer ==
  [][\A c \in swapped' \ swapped : \A e \in swapped : e < c]_vars

\* The chain implements DayLedger: its verdicts, attempts and publications are
\* the ledger's under this mapping, and every step is the ledger's or a stutter.
Verdict == [d \in Days |-> IF IsDone(state[d]) THEN state[d] ELSE "undone"]
Active  == {d \in Days : state[d] = "closing"}

Ledger == INSTANCE DayLedger
            WITH verdict <- Verdict, tries <- attempts, active <- Active, shown <- swapped

LedgerSpec == Ledger!Spec

\* The clock's bound ends the behaviour before the day's waits do.
BeyondHorizon(d) ==
  \/ DayEnd[d] + RoundBound + LateLimit >= MaxTime
  \/ \E e \in 1..d : state[e] = "retry_due" /\ retryAt[e] > MaxTime

\* Every day that ends is closed or missed in the end, whatever stops, crashes
\* and exceptions happen.
EveryDayDone ==
  \A d \in Days :
    (now >= DayEnd[d] /\ state[d] # "none")
      ~> (IsDone(state[d]) \/ BeyondHorizon(d))

\* Every publication opened is published, failed or superseded in the end,
\* unless stages raise for ever.
PublicationsEnd ==
  <>[][~Raise]_vars =>
    \A c \in Days :
      (pub[c] # "none")
        ~> \/ pub[c] \in {"published", "failed", "superseded"}
           \/ pub[c] = "retry_due" /\ pubRetryAt[c] > MaxTime
=============================================================================
