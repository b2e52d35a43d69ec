----------------------------- MODULE Downloads -----------------------------
(***************************************************************************)
(* The forward forecast downloads of one site: the night's scored round    *)
(* with its quick retries, the daytime slots, an operator's fetches, and   *)
(* what a fetch does from its start to its rows: the reservation of its    *)
(* provider calls, the calls page by page, the refund, the domain backoff, *)
(* the download's row and the scored values.  Two runners fetch: the main  *)
(* lane, one job at a time, and a command-line process beside it.          *)
(*                                                                         *)
(* Sources: wxverify/worker/round.py, worker/feed_fetch.py, the fetch_feed *)
(* part of worker/processor.py, collection/budget.py,                      *)
(* worker/domain_backoff.py, feeds/google.py (the paged provider),         *)
(* collection/forecast_fetcher.py (what a reply stores).                   *)
(*                                                                         *)
(* The feeds share one provider: its budget, its domain.  Days are of one  *)
(* zone and all of one length; the jobs table is cut down to the last row  *)
(* of each key (JobQueue has the rest of it).  One action per transaction, *)
(* read or request.                                                        *)
(***************************************************************************)
EXTENDS Integers, FiniteSets, Sequences

CONSTANTS
  Feeds,
  Packages,    \* the feeds that drop a daytime slot per round retry
  Hours,       \* the hours a reply may give values for
  DayLength,
  RoundAt,     \* the round's start, from the day's
  Offsets,     \* round._TRY_OFFSETS
  RoundBound,  \* round.ROUND_BOUND
  Slots,       \* the daytime slots, from the day's start, in order
  BillAt,      \* the start of the billing day, from the local day's
  Pages,       \* requests one fetch costs, reserved at once
  Limit,       \* the daily call limit
  DaytimeMaxRetries,
  Cooldown,    \* round.DAYTIME_FAILURE_COOLDOWN
  Interval,    \* the feed's cadence: the floor of a later retry's delay
  MaxDelay,    \* bound: the longest backoff, and an early retry's delay
  MaxUpsets,   \* bound: fetches an operator asks for, changes of a subscription,
               \* restarts under a job, failed rows that are not written
  StartAt,     \* the clock's first instant
  MaxTime      \* bound: the clock stops here

ASSUME ConstantsAssumption ==
  /\ Packages \subseteq Feeds
  /\ DayLength \in Nat \ {0} /\ RoundAt \in Nat /\ BillAt \in 0..DayLength
  /\ Offsets \in Seq(Nat) /\ Offsets # <<>> /\ RoundBound \in Nat
  /\ Slots \in Seq(Nat)
  /\ Pages \in Nat \ {0} /\ Limit \in Nat
  /\ DaytimeMaxRetries \in Nat /\ Cooldown \in Nat /\ Interval \in Nat
  /\ MaxDelay \in Nat \ {0} /\ MaxUpsets \in Nat
  /\ MaxTime \in Nat /\ StartAt \in 0..MaxTime

VARIABLES
  clock,
  eligible,  \* feed_fetch_target finds the feed
  jobs,      \* the last row of each key
  run,       \* the fetch each runner has in hand
  rows,      \* forecast_downloads
  scored,    \* forecast_scored: the download each value came from
  calls,     \* api_budget.calls, by billing day
  backoff,   \* the domain's next_attempt_at, or 0
  upsets,
  sent,      \* history: requests sent, by their reservation's billing day
  made,      \* history: reservations for a feed's round
  redone     \* history: times a round's try lost its row or was interrupted

vars == <<clock, eligible, jobs, run, rows, scored, calls, backoff, sent, made,
          redone, upsets>>

Runners == {"lane", "cli"}
Keys    == {"round", "fetch"} \X Feeds
Tries   == Len(Offsets)

Day(t)        == t \div DayLength
Days          == 0..Day(MaxTime)
BillingDay(t) == (t + DayLength - BillAt) \div DayLength
BillingDays   == 0..BillingDay(MaxTime)
NextWindow(t) == BillingDay(t) * DayLength + BillAt

Largest(a, b) == IF a < b THEN b ELSE a
TopOf(S) == CHOOSE n \in S : \A m \in S : m <= n

\* DownloadSlot: a round's try, a daytime slot by its place, or neither.
RoundTry(d, n) == [kind |-> "round", date |-> d, n |-> n]
Daytime(n)     == [kind |-> "daytime", date |-> 0, n |-> n]
Unscheduled    == [kind |-> "unscheduled", date |-> 0, n |-> 0]

Slot == [kind : {"round"}, date : Days, n : 1..Tries]
          \cup {Daytime(n) : n \in 1..Len(Slots)} \cup {Unscheduled}

Outcomes == {"stored", "no_usable", "failed", "budget", "backoff", "ineligible",
             "unavailable"}

Live == {"pending", "running"}

NoJob == [status |-> "none", slot |-> Unscheduled, due |-> 0, tries |-> 0, updated |-> 0]
Job   == [status : Live \cup {"none", "completed", "failed"}, slot : Slot,
          due : Nat, tries : Nat, updated : Nat]

Stages == {"stale", "reserve", "call", "refund", "throttled", "persist", "tell",
           "fail", "complete", "cancel", "defer"}

Idle == [stage |-> "idle"]
Fetch == [stage : Stages, feed : Feeds, slot : Slot, started : Nat,
          billed : Nat, page : Nat, outcome : Outcomes, wake : Nat]

Row == [id : Nat, feed : Feeds, date : Nat, slot : Slot, started : Nat,
        outcome : Outcomes]

-----------------------------------------------------------------------------
(* The schedule.                                                           *)

RoundStart(d) == d * DayLength + RoundAt

RowsOfRound(f, d) ==
  {r \in rows : r.feed = f /\ r.slot.kind = "round" /\ r.slot.date = d}

\* Mutant of LastTry: a failed try does not count.
LastAnswered(f, d) ==
  TopOf({0} \cup {r.slot.n : r \in {q \in RowsOfRound(f, d) : q.outcome # "failed"}})

\* _round_progress: the last recorded try, and whether one ended the round.
LastTry(f, d) == TopOf({0} \cup {r.slot.n : r \in RowsOfRound(f, d)})

RoundEnded(f, d) ==
  \E r \in RowsOfRound(f, d) :
    r.outcome \in {"stored", "budget", "ineligible", "unavailable"}

\* _round_retries
Retries(f, d) == Cardinality({r.slot.n : r \in RowsOfRound(f, d)} \ {1})

IsLive(k) == jobs[k].status \in Live

Put(k, slot) ==
  jobs' = [jobs EXCEPT ![k] = [status |-> "pending", slot |-> slot, due |-> clock,
                               tries |-> 0, updated |-> clock]]

\* The scheduler's tick runs in the main lane between two jobs.
Ticks == run["lane"] = Idle

Asked == UNCHANGED <<clock, eligible, run, rows, scored, calls, backoff, sent, made,
                     redone>>

\* enqueue_due_round_tries, for one feed.
EnqueueRoundTry(f) ==
  LET d == Day(clock)
      n == LastTry(f, d) + 1
  IN  /\ Ticks /\ eligible[f]
      /\ RoundStart(d) <= clock /\ clock < RoundStart(d) + RoundBound
      /\ ~RoundEnded(f, d) /\ n <= Tries
      /\ clock >= RoundStart(d) + Offsets[n]
      /\ ~IsLive(<<"round", f>>)
      /\ Put(<<"round", f>>, RoundTry(d, n))
      /\ Asked /\ UNCHANGED upsets

\* A package loses its latest slots, one per round retry.
SlotsLeft(f, d) ==
  IF f \in Packages THEN Largest(0, Len(Slots) - Retries(f, d)) ELSE Len(Slots)

DueSlots(f, d) == {n \in 1..SlotsLeft(f, d) : d * DayLength + Slots[n] <= clock}

\* _slot_covered
Covered(f, d, n) ==
  \E r \in rows :
    /\ r.feed = f /\ r.date = d
    /\ \/ r.slot = Daytime(n)
       \/ r.slot = Unscheduled /\ r.started >= d * DayLength + Slots[n]

\* enqueue_due_daytime_downloads, for one feed.
EnqueueDaytime(f) ==
  LET d == Day(clock)
      last == jobs[<<"fetch", f>>]
  IN  /\ Ticks /\ eligible[f]
      /\ DueSlots(f, d) # {}
      /\ ~Covered(f, d, TopOf(DueSlots(f, d)))
      /\ ~IsLive(<<"fetch", f>>)
      /\ last.status = "failed" => clock - last.updated >= Cooldown
      /\ Put(<<"fetch", f>>, Daytime(TopOf(DueSlots(f, d))))
      /\ Asked /\ UNCHANGED upsets

\* enqueue_fetch_for_feed: an enabled feed's first fetch, or the command line's.
EnqueueAsked(f) ==
  /\ upsets < MaxUpsets /\ upsets' = upsets + 1
  /\ eligible[f] /\ ~IsLive(<<"fetch", f>>)
  /\ Put(<<"fetch", f>>, Unscheduled)
  /\ Asked

\* A feed, its site or its subscription is switched.
Toggle(f) ==
  /\ upsets < MaxUpsets /\ upsets' = upsets + 1
  /\ eligible' = [eligible EXCEPT ![f] = ~@]
  /\ UNCHANGED <<clock, jobs, run, rows, scored, calls, backoff, sent, made,
                 redone>>

-----------------------------------------------------------------------------
(* A fetch.                                                                *)

Fresh(stage, f, slot) ==
  [stage |-> stage, feed |-> f, slot |-> slot, started |-> clock, billed |-> 0,
   page |-> 0, outcome |-> "failed", wake |-> 0]

Claimable(k) == jobs[k].status = "pending" /\ jobs[k].due <= clock

\* The claim and the try's start: a round's tries come first.
Claim(k) ==
  /\ run["lane"] = Idle /\ Claimable(k)
  /\ k[1] = "fetch" => ~\E f \in Feeds : Claimable(<<"round", f>>)
  /\ jobs' = [jobs EXCEPT ![k].status = "running", ![k].updated = clock]
  /\ run' = [run EXCEPT !["lane"] =
               Fresh(IF k[1] = "round" THEN "stale" ELSE "reserve", k[2], jobs[k].slot)]
  /\ UNCHANGED <<clock, eligible, rows, scored, calls, backoff, sent, made, redone,
                 upsets>>

\* providers run-now: no job, no claim.
CliFetch(f) ==
  /\ run["cli"] = Idle
  /\ upsets < MaxUpsets /\ upsets' = upsets + 1
  /\ run' = [run EXCEPT !["cli"] = Fresh("reserve", f, Unscheduled)]
  /\ UNCHANGED <<clock, eligible, jobs, rows, scored, calls, backoff, sent, made,
                 redone>>

At(r, stage) == run[r] # Idle /\ run[r].stage = stage

\* The fetch's next stage; what only a job does next, the command line skips.
Move(r, fetch) ==
  run' = [run EXCEPT ![r] =
            IF r = "cli" /\ fetch.stage \in {"tell", "fail", "complete"}
            THEN Idle ELSE fetch]

To(r, stage) == Move(r, [run[r] EXCEPT !.stage = stage])

Tell(r, outcome, wake) ==
  Move(r, [run[r] EXCEPT !.stage = "tell", !.outcome = outcome, !.wake = wake])

OnlyRun == UNCHANGED <<clock, eligible, jobs, rows, scored, calls, backoff, sent,
                       made, redone, upsets>>

\* Mutant of TryStale: the bound alone.
TryLate(fetch) == fetch.started >= RoundStart(fetch.slot.date) + RoundBound

\* round_try_stale
TryStale(fetch) ==
  \/ fetch.started >= RoundStart(fetch.slot.date) + RoundBound
  \/ \E r \in RowsOfRound(fetch.feed, fetch.slot.date) : r.outcome = "stored"

CheckStale ==
  /\ At("lane", "stale")
  /\ To("lane", IF TryStale(run["lane"]) THEN "cancel" ELSE "reserve")
  /\ OnlyRun

\* The adapter may not be built.  _reserve_feed_call reads the feed again, so the
\* read before it decides nothing more: still eligible, then the backoff, then
\* reserve_budget.
Reserve(r) ==
  LET fetch == run[r]
      d     == BillingDay(clock)
  IN  /\ At(r, "reserve")
      /\ \/ /\ ~eligible[fetch.feed]
            /\ Tell(r, "ineligible", 0)
            /\ UNCHANGED <<calls, made>>
         \/ /\ eligible[fetch.feed]
            /\ Tell(r, "unavailable", 0)
            /\ UNCHANGED <<calls, made>>
         \/ /\ eligible[fetch.feed] /\ backoff > clock
            /\ Tell(r, "backoff", backoff)
            /\ UNCHANGED <<calls, made>>
         \/ /\ eligible[fetch.feed] /\ backoff <= clock /\ calls[d] + Pages > Limit
            /\ Tell(r, "budget", NextWindow(clock))
            /\ UNCHANGED <<calls, made>>
         \/ /\ eligible[fetch.feed] /\ backoff <= clock /\ calls[d] + Pages <= Limit
            /\ calls' = [calls EXCEPT ![d] = @ + Pages]
            /\ made' = IF fetch.slot.kind = "round"
                       THEN [made EXCEPT ![<<fetch.feed, fetch.slot.date>>] = @ + 1]
                       ELSE made
            /\ Move(r, [fetch EXCEPT !.stage = "call", !.billed = d, !.page = 1])
      /\ UNCHANGED <<clock, eligible, jobs, rows, scored, backoff, sent, redone,
                     upsets>>

\* A connection that failed on a later page is raised as another error: the
\* pages before it did reach the provider.
Refundable(page) == page = 1

\* The request never reached the provider.
NotConnected(r) ==
  /\ At(r, "call")
  /\ To(r, IF Refundable(run[r].page) THEN "refund" ELSE "fail")
  /\ OnlyRun

\* The request went out: an answer with another page to come or none, a
\* refusal for now (429, 5xx), or any other error.
Requested(r) ==
  /\ At(r, "call")
  /\ sent' = [sent EXCEPT ![run[r].billed] = @ + 1]
  /\ \/ /\ run[r].page < Pages
        /\ Move(r, [run[r] EXCEPT !.page = @ + 1])
     \/ run[r].page = Pages /\ To(r, "persist")
     \/ To(r, "throttled")
     \/ To(r, "fail")
  /\ UNCHANGED <<clock, eligible, jobs, rows, scored, calls, backoff, made, redone,
                 upsets>>

\* Mutant of Refunded: the refund goes to the day it lands on.
RefundedNow(billed) ==
  [calls EXCEPT ![BillingDay(clock)] = Largest(0, @ - Pages)]

\* refund_budget: to the reservation's own billing day.
Refunded(billed) == [calls EXCEPT ![billed] = Largest(0, @ - Pages)]

\* _mark_feed_error_and_refund; the error goes on to the job.
Refund(r) ==
  /\ At(r, "refund")
  /\ calls' = Refunded(run[r].billed)
  /\ To(r, "fail")
  /\ UNCHANGED <<clock, eligible, jobs, rows, scored, backoff, sent, made, redone,
                 upsets>>

\* mark_feed_error_and_backoff, with the delay of the ladder or the reply's.
RecordBackoff(r, delay) ==
  /\ At(r, "throttled")
  /\ backoff' = clock + delay
  /\ Tell(r, "backoff", clock + delay)
  /\ UNCHANGED <<clock, eligible, jobs, rows, scored, calls, sent, made, redone,
                 upsets>>

NewRow(fetch, outcome) ==
  [id |-> Cardinality(rows) + 1, feed |-> fetch.feed, date |-> Day(clock),
   slot |-> fetch.slot,
   started |-> IF fetch.slot = Unscheduled THEN fetch.started ELSE 0,
   outcome |-> outcome]

StoredOn(f, d) == {r \in rows : r.feed = f /\ r.date = d /\ r.outcome = "stored"}

\* Mutant of FirstStored: only the round's downloads count.
FirstOfRound(f, d) == ~\E r \in StoredOn(f, d) : r.slot.kind = "round"

\* first_recorded_download finds none.
FirstStored(f, d) == StoredOn(f, d) = {}

Value(f, d, h, id) == [feed |-> f, date |-> d, hour |-> h, download |-> id]

\* write_scored_values: a value that is there stays.
Scored(f, d, hours) ==
  scored \cup {Value(f, d, h, Cardinality(rows) + 1) :
                h \in {g \in hours : ~\E v \in scored :
                                      v.feed = f /\ v.date = d /\ v.hour = g}}

\* _persist_fetch_success: a reply with values for these hours, or none usable.
Persist(r, usable, hours) ==
  LET f == run[r].feed
      d == Day(clock)
  IN  /\ At(r, "persist")
      /\ backoff' = 0
      /\ rows' = rows \cup {NewRow(run[r], IF usable THEN "stored" ELSE "no_usable")}
      /\ scored' = IF usable /\ FirstStored(f, d) THEN Scored(f, d, hours) ELSE scored
      /\ To(r, "complete")
      /\ UNCHANGED <<clock, eligible, jobs, calls, sent, made, redone, upsets>>

\* _record_fetch_try or _mark_feed_unavailable_and_record; then a round's try
\* ends, as does one that cannot be made, and another waits.
RecordTry ==
  LET fetch == run["lane"]
  IN  /\ At("lane", "tell")
      /\ rows' = rows \cup {NewRow(fetch, fetch.outcome)}
      /\ To("lane", IF \/ fetch.slot.kind = "round"
                       \/ fetch.outcome \in {"ineligible", "unavailable"}
                    THEN "cancel" ELSE "defer")
      /\ UNCHANGED <<clock, eligible, jobs, scored, calls, backoff, sent, made,
                     redone, upsets>>

\* A read or a write of the job fails.
Raise(r) ==
  /\ \E s \in {"stale", "reserve", "refund", "throttled", "persist", "tell",
               "complete"} : At(r, s)
  /\ To(r, "fail")
  /\ OnlyRun

-----------------------------------------------------------------------------
(* The job's end, the restarts, the clock.                                 *)

KeyOf(fetch) ==
  <<IF fetch.slot.kind = "round" THEN "round" ELSE "fetch", fetch.feed>>

Mine == KeyOf(run["lane"])

Close(row) ==
  /\ jobs' = [jobs EXCEPT ![Mine] = row]
  /\ run' = [run EXCEPT !["lane"] = Idle]
  /\ UNCHANGED <<clock, eligible, scored, calls, backoff, sent, made>>

Complete ==
  /\ At("lane", "complete") \/ At("lane", "cancel")
  /\ Close([jobs[Mine] EXCEPT !.status = "completed", !.updated = clock])
  /\ UNCHANGED <<rows, upsets, redone>>

Defer ==
  /\ At("lane", "defer")
  /\ Close([jobs[Mine] EXCEPT !.status = "pending", !.due = run["lane"].wake,
                              !.updated = clock])
  /\ UNCHANGED <<rows, upsets, redone>>

\* fetch_feed_retry_floor_seconds: the cadence, from the second retry on.
Delays(tries) == IF tries = 0 THEN 1..MaxDelay ELSE {Largest(Interval, 1)}

MaxRetries(slot) == IF slot.kind = "round" THEN 0 ELSE DaytimeMaxRetries

FailedJob(job, delay) ==
  IF job.tries + 1 > MaxRetries(job.slot)
  THEN [job EXCEPT !.status = "failed", !.tries = @ + 1, !.updated = clock]
  ELSE [job EXCEPT !.status = "pending", !.tries = @ + 1, !.updated = clock,
                   !.due = clock + delay]

Again(fetch) ==
  redone' = IF fetch.slot.kind = "round"
            THEN [redone EXCEPT ![<<fetch.feed, fetch.slot.date>>] = @ + 1] ELSE redone

\* _fail_job: the failed row, or none when it cannot be written, with the job.
Fail(delay) ==
  /\ At("lane", "fail")
  /\ delay \in Delays(jobs[Mine].tries)
  /\ Close(FailedJob(jobs[Mine], delay))
  /\ \/ /\ rows' = rows \cup {NewRow(run["lane"], "failed")}
        /\ UNCHANGED <<upsets, redone>>
     \/ /\ upsets < MaxUpsets /\ upsets' = upsets + 1
        /\ Again(run["lane"])
        /\ UNCHANGED rows

\* The process stops or dies under a job, and the next start reclaims its row.
Restart ==
  /\ upsets < MaxUpsets /\ upsets' = upsets + 1
  /\ run["lane"] # Idle
  /\ Again(run["lane"])
  /\ jobs' = [jobs EXCEPT ![Mine].status = "pending"]
  /\ run' = [run EXCEPT !["lane"] = Idle]
  /\ UNCHANGED <<clock, eligible, rows, scored, calls, backoff, sent, made>>

CliEnds ==
  /\ run["cli"] # Idle
  /\ run' = [run EXCEPT !["cli"] = Idle]
  /\ OnlyRun

Tick ==
  /\ clock < MaxTime /\ clock' = clock + 1
  /\ UNCHANGED <<eligible, jobs, run, rows, scored, calls, backoff, sent, made,
                 redone, upsets>>

-----------------------------------------------------------------------------

Init ==
  /\ clock = StartAt
  /\ eligible \in [Feeds -> {TRUE}]
  /\ jobs \in [Keys -> {NoJob}]
  /\ run \in [Runners -> {Idle}]
  /\ rows = {} /\ scored = {}
  /\ calls \in [BillingDays -> {0}] /\ sent \in [BillingDays -> {0}]
  /\ backoff = 0 /\ upsets = 0
  /\ made \in [Feeds \X Days -> {0}] /\ redone \in [Feeds \X Days -> {0}]

Schedule(f) == EnqueueRoundTry(f) \/ EnqueueDaytime(f) \/ EnqueueAsked(f) \/ Toggle(f)

Step(r) ==
  \/ Reserve(r) \/ NotConnected(r) \/ Requested(r) \/ Refund(r) \/ Raise(r)
  \/ \E delay \in 1..MaxDelay : RecordBackoff(r, delay)
  \/ Persist(r, FALSE, {})
  \/ \E hours \in SUBSET Hours : Persist(r, TRUE, hours)

JobStep ==
  \/ \E k \in Keys : Claim(k)
  \/ CheckStale \/ RecordTry \/ Complete \/ Defer \/ Restart
  \/ \E delay \in 1..Largest(MaxDelay, Interval) : Fail(delay)

Next ==
  \/ \E f \in Feeds : Schedule(f) \/ CliFetch(f)
  \/ \E r \in Runners : Step(r)
  \/ JobStep \/ CliEnds \/ Tick

Spec == Init /\ [][Next]_vars

-----------------------------------------------------------------------------
(* Properties.                                                             *)

\* The type invariant; a row is running exactly while the lane has its fetch,
\* and the row's slot is the fetch's.
TypeOK ==
  /\ clock \in StartAt..MaxTime
  /\ eligible \in [Feeds -> BOOLEAN]
  /\ jobs \in [Keys -> Job]
  /\ run \in [Runners -> Fetch \cup {Idle}]
  /\ \A r \in rows : r \in Row
  /\ \A v \in scored : v \in [feed : Feeds, date : Nat, hour : Hours, download : Nat]
  /\ calls \in [BillingDays -> Nat] /\ sent \in [BillingDays -> Nat]
  /\ backoff \in Nat /\ upsets \in Nat
  /\ made \in [Feeds \X Days -> Nat] /\ redone \in [Feeds \X Days -> Nat]
  /\ \A k \in Keys : jobs[k].status = "running" <=>
       run["lane"] # Idle /\ KeyOf(run["lane"]) = k /\ run["lane"].slot = jobs[k].slot

\* Each billing day counts no fewer calls than were sent on that day's
\* reservations: a refund returns only what was never sent, page by page, to the
\* day it was reserved on, whatever fails, whoever else calls; and a day never
\* passes the limit.  A request that goes out after the roll-over is counted for
\* its reservation's day, not for the day it is sent on.
BudgetCoversCalls ==
  \A d \in BillingDays : sent[d] <= calls[d] /\ calls[d] <= Limit

\* A feed's round makes its four tries at most, plus one for each try that was
\* interrupted by a restart or whose row could not be written: nothing else
\* repeats a try, so a night cannot use up a provider's day.
RoundTriesBounded ==
  \A q \in Feeds \X Days : made[q] <= Tries + redone[q]

\* A round stores one download of a feed, however often its try is put back.
RoundStoredOnce ==
  \A f \in Feeds, d \in Days :
    \A q, r \in RowsOfRound(f, d) : q.outcome = "stored" /\ r.outcome = "stored" => q = r

\* Every scored value of a day comes from that day's first stored download, by
\* whichever runner, though several are in flight at once.
ScoredIsFirst ==
  \A v \in scored :
    \E r \in StoredOn(v.feed, v.date) :
      /\ r.id = v.download
      /\ \A q \in StoredOn(v.feed, v.date) : r.id <= q.id
=============================================================================
