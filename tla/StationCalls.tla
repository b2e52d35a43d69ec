---------------------------- MODULE StationCalls ----------------------------
(***************************************************************************)
(* The calls to weather.com of one site: the wind lane's 5-minute download *)
(* of the day, the close's hourly gap fill, the current-observation poll   *)
(* and the check of a station being added.  They share one call lock, one  *)
(* domain backoff and one daily budget; a refused kind of download is held *)
(* for a time, each kind on its own.                                       *)
(*                                                                         *)
(* Sources: wxverify/worker/wind_days.py, worker/processor.py (the poll),  *)
(* worker/day_values.py (the gap fill), api/routes/stations.py (adding),   *)
(* worker/access_hold.py, worker/domain_backoff.py, collection/budget.py,  *)
(* worker/station_pacing.py, worker/current_obs.py, worker/scheduler.py.    *)
(*                                                                         *)
(* The site stays on.  One action per write transaction; a call's answer   *)
(* and the write of its outcome are one action, since nothing is stored in *)
(* between.  The model follows one local day of the site and what comes    *)
(* after it; the jobs' rows are reduced to the instant a lane may claim    *)
(* the work again (JobQueue has the rows), so a lane may come as late as   *)
(* it likes.                                                               *)
(***************************************************************************)
EXTENDS Integers, FiniteSets

CONSTANTS
  Stations,
  Slots,       \* the evening slots of the day, as instants (EVENING_SLOTS)
  LateFrom,    \* where _LATE_SLOT stands
  DayEnd,      \* day_end_utc
  Interval,    \* obs_interval_minutes
  Defer,       \* _TRANSPORT_DEFER
  Hold,        \* ACCESS_HOLD_SECONDS
  MaxDelay,    \* bound: the longest backoff weather.com asks for
  PollFloor,   \* min_interval_seconds, the least wait between two polls
  PollPark,    \* max_backoff_seconds
  ChunkCalls,  \* _CHUNK_CALLS
  Cooldown,    \* the scheduler's wait after a job that failed for good
  Limit,       \* effective_daily_call_limit("weathercom")
  BillAt,      \* where the first billing day ends
  MaxTime,     \* bound: the clock stops here
  MaxUpsets    \* bound: process deaths and changes of a station's switch

Instants == 0..MaxTime

ASSUME ConstantsAssumption ==
  /\ IsFiniteSet(Stations)
  /\ {LateFrom, DayEnd, Interval, Defer, Hold, MaxDelay, PollFloor, PollPark,
      ChunkCalls, Cooldown, Limit, BillAt, MaxTime, MaxUpsets} \subseteq Nat
  /\ Slots \subseteq 0..(DayEnd - 1)
  /\ Hold > 0

Kinds  == {"five_minute", "hourly", "current_obs"}
Days   == {1, 2}

VARIABLES
  now,
  enabled,  \* stations.enabled
  \* station_wind_days of the day, and the latest close_try_log row of each
  due,      \* next_attempt_at; 0 while it is NULL, or while there is no row
  log,      \* slot (0: daytime, or no try yet) and whether it was answered
  pollAt,   \* next_poll_at, or the claim time of the poll's job if that is later
  wake,     \* the claim time of the wind lane's job
  \* runtime_state, domain_backoffs, api_budget
  hold,     \* until of each kind's refusal, 0 without one
  backoff,  \* next_attempt_at of api.weather.com, 0 without one
  calls,    \* the calls of each billing day
  \* the process
  lock,     \* who holds weathercom_call_lock, "free" if nobody
  main,     \* the main lane: a wind chunk or a gap fill
  poller,   \* the current-observation lane
  adder,    \* the request that adds a station
  \* history and bound
  asked,    \* the end of the pause last recorded for a reply 429 or 5xx
  erased,   \* whether an addition's last write came after that record
  refused,  \* until when each kind's latest recorded refusal holds it
  tried,    \* the evening slot of each station's latest try, 0 in the daytime
  cut,      \* the stations whose latest try was cut short and left the row
  upsets

pauses == <<backoff, asked, erased>>
holds  == <<hold, refused>>
tries  == <<tried, cut>>
vars   == <<now, enabled, due, log, pollAt, wake, holds, pauses, calls,
            lock, main, poller, adder, tries, upsets>>

Idle     == [at |-> "idle"]

-----------------------------------------------------------------------------
(* The day's clock (wind_days.py).                                         *)

Least(S)      == CHOOSE x \in S : \A y \in S : x <= y
Lesser(a, b)  == IF a < b THEN a ELSE b
LateSlots     == {q \in Slots : q >= LateFrom}
\* _DayClock.cap and done.
Cap           == IF Slots = {} THEN DayEnd ELSE Least(Slots)
Done          == DayEnd + 1

\* _slot_label: the slot a row due at d was tried for at t; 0 is "daytime".
SlotLabel(d, t) ==
  LET at   == IF d = 0 THEN t ELSE d
      upTo == {q \in Slots : q <= at}
  IN  IF upTo = {} THEN 0 ELSE CHOOSE q \in upTo : \A p \in upTo : p <= q

\* Mutant of WindowNext: a failed try may take the slot of its own instant again.
WindowNextSame(t, success, notBefore) ==
  LET after == {q \in Slots : q >= t /\ q >= notBefore}
  IN  IF success
      THEN IF \E q \in LateSlots : t < Least(LateSlots) THEN Least(LateSlots) ELSE Done
      ELSE IF after = {} THEN Done ELSE Least(after)

\* Mutant of WindowNext: an answered try ends the evening.
WindowNextEnds(t, success, notBefore) ==
  LET after == {q \in Slots : q > t /\ q >= notBefore}
  IN  IF success \/ after = {} THEN Done ELSE Least(after)

\* _window_next: an answered try before the late slot waits for it; another
\* takes the first slot after it, not before the end of a deferral.
WindowNext(t, success, notBefore) ==
  LET after == {q \in Slots : q > t /\ q >= notBefore}
  IN  IF success
      THEN IF LateSlots # {} /\ t < Least(LateSlots) THEN Least(LateSlots) ELSE Done
      ELSE IF after = {} THEN Done ELSE Least(after)

\* _next_try_at: deferred is the set of the deferral's end, if there is one,
\* notBefore 0 when the evening does not wait for it.
NextTry(t, success, deferred, notBefore) ==
  IF t < Cap
  THEN Lesser(IF deferred = {} THEN t + Interval ELSE Least(deferred), Cap)
  ELSE WindowNext(t, success, notBefore)

InWindow == now >= Cap

-----------------------------------------------------------------------------
(* The gates of a call.                                                    *)

BillingDay    == IF now < BillAt THEN 1 ELSE 2
\* next_billing_window; the second day's end lies outside the model.
NextBilling   == IF now < BillAt THEN BillAt ELSE MaxTime + 1

\* Mutant of LockFree: the lock is forgotten.
NoLock == TRUE

\* weathercom_call_lock.
LockFree      == lock = "free"

BackedOff     == backoff > now
Held(kind)    == now < hold[kind]

\* reserve_budget's refusal.
OverBudget    == calls[BillingDay] >= Limit

\* The reasons a caller of a kind is turned away for and until when, in the
\* order of the checks: the first of them counts.
Refusal(kind) ==
  IF BackedOff       THEN {[why |-> "backoff", end |-> backoff]}
  ELSE IF Held(kind) THEN {[why |-> "held", end |-> hold[kind]]}
  ELSE IF OverBudget THEN {[why |-> "limit", end |-> NextBilling]}
                     ELSE {}

Reserve   == calls' = [calls EXCEPT ![BillingDay] = @ + 1]
\* refund_budget: the reservation's own day.
Refund(d) == calls' = [calls EXCEPT ![d] = IF @ = 0 THEN 0 ELSE @ - 1]

\* access_hold.record_access_refused and clear_access_refused.
Refuse(kind) ==
  /\ hold' = [hold EXCEPT ![kind] = now + Hold]
  /\ refused' = [refused EXCEPT ![kind] = now + Hold]
Grant(kind) == hold' = [hold EXCEPT ![kind] = 0] /\ UNCHANGED refused

\* domain_backoff._next_attempt: what the reply asks for, or the ladder's step.
Delays        == 0..MaxDelay

\* record_http_backoff after a reply 429 or 5xx, and clear_domain_backoff.
Pause(d) == backoff' = now + d /\ asked' = now + d /\ erased' = FALSE
Resume   == backoff' = 0 /\ UNCHANGED <<asked, erased>>

-----------------------------------------------------------------------------
TypeOK ==
  /\ now \in Instants
  /\ enabled \in [Stations -> BOOLEAN]
  /\ due \in [Stations -> 0..(MaxTime + Interval + Defer + MaxDelay + DayEnd + 1)]
  /\ log \in [Stations -> [slot : {0} \cup Slots, ok : BOOLEAN]]
  /\ pollAt \in [Stations -> Nat] /\ wake \in Nat
  /\ hold \in [Kinds -> 0..(MaxTime + Hold)]
  /\ backoff \in 0..(MaxTime + MaxDelay)
  /\ calls \in [Days -> 0..Limit]
  /\ lock \in {"free", "main", "poll", "add"}
  /\ main.at \in {"idle", "rows", "told", "calling", "fill", "filling"}
  /\ poller.at \in {"idle", "calling"}
  /\ adder \in {"idle", "calling", "writing"}
  /\ (lock = "main") = (main.at \in {"told", "calling", "filling"})
  /\ (lock = "poll") = (poller.at = "calling")
  /\ (lock = "add") = (adder = "calling")
  /\ asked \in 0..(MaxTime + MaxDelay) /\ erased \in BOOLEAN
  /\ refused \in [Kinds -> 0..(MaxTime + Hold)]
  /\ tried \in [Stations -> {0} \cup Slots] /\ cut \subseteq Stations
  /\ upsets \in 0..MaxUpsets

Init ==
  /\ now = 0
  /\ enabled = [s \in Stations |-> TRUE]
  /\ due = [s \in Stations |-> 0]
  /\ log = [s \in Stations |-> [slot |-> 0, ok |-> FALSE]]
  /\ pollAt = [s \in Stations |-> 0] /\ wake = 0
  /\ hold = [k \in Kinds |-> 0] /\ backoff = 0 /\ calls = [d \in Days |-> 0]
  /\ lock = "free" /\ main = Idle /\ poller = Idle /\ adder = "idle"
  /\ asked = 0 /\ erased = FALSE /\ refused = [k \in Kinds |-> 0]
  /\ tried = [s \in Stations |-> 0] /\ cut = {} /\ upsets = 0

-----------------------------------------------------------------------------
(* The wind lane: one job runs a chunk of the rows due at its start.  The   *)
(* rows come by station id in the code, in any order here.                  *)

RowsThat(m, s) == [at |-> "rows", todo |-> m.todo \ {s}, calls |-> m.calls]

\* _start_job and the chunk's selection.
WindStart ==
  /\ main = Idle /\ wake <= now /\ now < DayEnd
  /\ LET rows == {s \in Stations : enabled[s] /\ due[s] <= now}
     IN  rows # {} /\ main' = [at |-> "rows", todo |-> rows, calls |-> 0]
  /\ UNCHANGED <<now, enabled, due, log, pollAt, wake, holds, pauses, calls,
                 lock, poller, adder, tries, upsets>>

NextRow(s) == main.at = "rows" /\ s \in main.todo /\ main.calls < ChunkCalls

\* The chunk has run its rows or its calls; the lane's next job comes later.
WindEnd ==
  /\ main.at = "rows" /\ (main.todo = {} \/ main.calls >= ChunkCalls)
  /\ main' = Idle /\ wake' = now
  /\ UNCHANGED <<now, enabled, due, log, pollAt, holds, pauses, calls,
                 lock, poller, adder, tries, upsets>>

\* The station was turned off since: the row is left.
WindSkip(s) ==
  /\ NextRow(s) /\ LockFree /\ ~enabled[s]
  /\ main' = RowsThat(main, s)
  /\ UNCHANGED <<now, enabled, due, log, pollAt, wake, holds, pauses, calls,
                 lock, poller, adder, tries, upsets>>

\* A try of a row begins, of the slot it would be logged under.
TryBegins(s) ==
  tried' = [tried EXCEPT ![s] = SlotLabel(due[s], now)] /\ cut' = cut \ {s}

\* _reserve_wind_day_call.
WindReserve(s) ==
  /\ NextRow(s) /\ LockFree /\ enabled[s] /\ Refusal("five_minute") = {}
  /\ Reserve
  /\ lock' = "main"
  /\ main' = [at |-> "calling", todo |-> main.todo, calls |-> main.calls + 1,
              st |-> s, day |-> BillingDay]
  /\ TryBegins(s)
  /\ UNCHANGED <<now, enabled, due, log, pollAt, wake, holds, pauses,
                 poller, adder, upsets>>

\* Its refusal; the try is recorded by a second write, under the same lock.
WindDecline(s) ==
  /\ NextRow(s) /\ LockFree /\ enabled[s]
  /\ \E r \in Refusal("five_minute") :
       main' = [at |-> "told", todo |-> main.todo, calls |-> main.calls,
                st |-> s, why |-> r.why, end |-> r.end]
  /\ lock' = "main" /\ TryBegins(s)
  /\ UNCHANGED <<now, enabled, due, log, pollAt, wake, holds, pauses, calls,
                 poller, adder, upsets>>

\* The row's move and its try's row in the log.
Moved(s, success, deferred, notBefore) ==
  due' = [due EXCEPT ![s] = NextTry(now, success, deferred, notBefore)]
Logged(s, success) ==
  log' = [log EXCEPT ![s] = [slot |-> SlotLabel(due[s], now), ok |-> success]]

\* _record_held_try and _record_deferred_try.
WindDeclined ==
  /\ main.at = "told"
  /\ IF main.why = "held" THEN Moved(main.st, FALSE, {}, 0)
                          ELSE Moved(main.st, FALSE, {main.end}, main.end)
  /\ Logged(main.st, FALSE)
  /\ lock' = "free" /\ main' = RowsThat(main, main.st)
  /\ UNCHANGED <<now, enabled, pollAt, wake, holds, pauses, calls,
                 poller, adder, tries, upsets>>

Calling == main.at = "calling"

\* _persist_day: any 2xx reply, one without readings too.
WindAnswered ==
  /\ Calling
  /\ Moved(main.st, TRUE, {}, 0) /\ Logged(main.st, TRUE)
  /\ Resume /\ Grant("five_minute")
  /\ lock' = "free" /\ main' = RowsThat(main, main.st)
  /\ UNCHANGED <<now, enabled, pollAt, wake, calls, poller, adder, tries, upsets>>

\* _fetch_failed, a reply 401 or 403 (Refuse), another 4xx, or a bad payload.
WindFailed ==
  /\ Calling
  /\ Moved(main.st, FALSE, {}, 0) /\ Logged(main.st, FALSE)
  /\ Refuse("five_minute") \/ UNCHANGED holds
  /\ lock' = "free" /\ main' = RowsThat(main, main.st)
  /\ UNCHANGED <<now, enabled, pollAt, wake, pauses, calls, poller, adder,
                 tries, upsets>>

\* _capped_wake.
CappedWake(u) == IF InWindow THEN u ELSE Lesser(u, Cap)

\* A reply 429 or 5xx: the row and the job wait for the backoff's end.
WindThrottled ==
  /\ Calling
  /\ \E d \in Delays :
       /\ Pause(d)
       /\ Moved(main.st, FALSE, {now + d}, now + d)
       /\ wake' = CappedWake(now + d)
  /\ Logged(main.st, FALSE)
  /\ lock' = "free" /\ main' = Idle
  /\ UNCHANGED <<now, enabled, pollAt, holds, calls, poller, adder, tries, upsets>>

\* A transport error, refunded when no connection was made: the job waits in
\* the daytime and goes on in the evening.
WindNetwork ==
  /\ Calling
  /\ Refund(main.day) \/ UNCHANGED calls
  /\ Moved(main.st, FALSE, {now + Defer}, 0) /\ Logged(main.st, FALSE)
  /\ IF InWindow THEN main' = RowsThat(main, main.st) /\ UNCHANGED wake
                 ELSE main' = Idle /\ wake' = CappedWake(now + Defer)
  /\ lock' = "free"
  /\ UNCHANGED <<now, enabled, pollAt, holds, pauses, poller, adder, tries, upsets>>

\* Another error, of the call or of the outcome's write: the row moves and no
\* try is logged; a database error leaves the row.  The job is run again, or
\* has failed and waits for the cooldown.
WindBroken ==
  /\ Calling
  /\ \/ Moved(main.st, FALSE, {}, 0) /\ UNCHANGED cut
     \/ cut' = cut \cup {main.st} /\ UNCHANGED due
  /\ wake' \in {now, now + Cooldown}
  /\ lock' = "free" /\ main' = Idle
  /\ UNCHANGED <<now, enabled, log, pollAt, holds, pauses, calls, poller, adder,
                 tried, upsets>>

-----------------------------------------------------------------------------
(* The close's gap fill, by the main lane after the day's end.              *)

FillThat(m, s) == [at |-> "fill", todo |-> m.todo \ {s}]

\* The stations of the day's list with hours to fill.
FillStart ==
  /\ main = Idle /\ now >= DayEnd
  /\ \E gaps \in SUBSET Stations : gaps # {} /\ main' = [at |-> "fill", todo |-> gaps]
  /\ UNCHANGED <<now, enabled, due, log, pollAt, wake, holds, pauses, calls,
                 lock, poller, adder, tries, upsets>>

FillEnd ==
  /\ main.at = "fill" /\ main.todo = {}
  /\ main' = Idle
  /\ UNCHANGED <<now, enabled, due, log, pollAt, wake, holds, pauses, calls,
                 lock, poller, adder, tries, upsets>>

\* _reserve_fill_call and its refusals, which write nothing.
FillDecline(s) ==
  /\ main.at = "fill" /\ s \in main.todo /\ LockFree /\ Refusal("hourly") # {}
  /\ main' = FillThat(main, s)
  /\ UNCHANGED <<now, enabled, due, log, pollAt, wake, holds, pauses, calls,
                 lock, poller, adder, tries, upsets>>

FillReserve(s) ==
  /\ main.at = "fill" /\ s \in main.todo /\ LockFree /\ Refusal("hourly") = {}
  /\ Reserve
  /\ lock' = "main"
  /\ main' = [at |-> "filling", todo |-> main.todo, st |-> s, day |-> BillingDay]
  /\ UNCHANGED <<now, enabled, due, log, pollAt, wake, holds, pauses,
                 poller, adder, tries, upsets>>

\* _Fill.station: readings or none, a refusal, a backoff, another failure.
FillOutcome ==
  /\ main.at = "filling"
  /\ \/ Grant("hourly") /\ UNCHANGED <<pauses, calls>>
     \/ Refuse("hourly") /\ UNCHANGED <<pauses, calls>>
     \/ (\E d \in Delays : Pause(d)) /\ UNCHANGED <<holds, calls>>
     \/ UNCHANGED <<holds, pauses, calls>>
     \/ Refund(main.day) /\ UNCHANGED <<holds, pauses>>
  /\ lock' = "free" /\ main' = FillThat(main, main.st)
  /\ UNCHANGED <<now, enabled, due, log, pollAt, wake, poller, adder, tries, upsets>>

-----------------------------------------------------------------------------
(* The current-observation lane: one station's poll at a time.              *)

\* _reserve_current_obs_call; a refusal defers the job to its end.
PollReserve(s) ==
  /\ poller = Idle /\ enabled[s] /\ pollAt[s] <= now /\ LockFree
  /\ Refusal("current_obs") = {}
  /\ Reserve
  /\ lock' = "poll" /\ poller' = [at |-> "calling", st |-> s, day |-> BillingDay]
  /\ UNCHANGED <<now, enabled, due, log, pollAt, wake, holds, pauses,
                 main, adder, tries, upsets>>

PollDecline(s) ==
  /\ poller = Idle /\ enabled[s] /\ pollAt[s] <= now /\ LockFree
  /\ \E r \in Refusal("current_obs") : pollAt' = [pollAt EXCEPT ![s] = r.end]
  /\ UNCHANGED <<now, enabled, due, log, wake, holds, pauses, calls,
                 lock, main, poller, adder, tries, upsets>>

PollEnds ==
  /\ poller.at = "calling" /\ lock' = "free" /\ poller' = Idle
  /\ UNCHANGED <<now, enabled, due, log, wake, main, adder, tries, upsets>>

\* persist_poll_result saves nothing of a station turned off meanwhile.
NextPoll(t) ==
  pollAt' = IF enabled[poller.st] THEN [pollAt EXCEPT ![poller.st] = t] ELSE pollAt

\* _persist_poll_result_clearing: online at the learned interval, offline, or
\* undated; a reply 2xx ends the hold, a 404 leaves it.
PollAnswered ==
  /\ PollEnds
  /\ \E wait \in {PollFloor, PollPark} : NextPoll(now + wait)
  /\ Grant("current_obs") \/ UNCHANGED holds
  /\ UNCHANGED <<pauses, calls>>

\* A bad payload or a transport error: run again, or failed for good.
PollBroken ==
  /\ PollEnds
  /\ \E wait \in {0, Cooldown} : pollAt' = [pollAt EXCEPT ![poller.st] = now + wait]
  /\ Refund(poller.day) \/ UNCHANGED calls
  /\ UNCHANGED <<holds, pauses>>

PollRefused ==
  /\ PollEnds
  /\ Refuse("current_obs") /\ pollAt' = [pollAt EXCEPT ![poller.st] = now + Hold]
  /\ UNCHANGED <<pauses, calls>>

PollThrottled ==
  /\ PollEnds
  /\ \E d \in Delays :
       Pause(d) /\ pollAt' = [pollAt EXCEPT ![poller.st] = now + d]
  /\ UNCHANGED <<holds, calls>>

-----------------------------------------------------------------------------
(* Adding a station: the lock covers the check and no write after it.       *)

AddReserve ==
  /\ adder = "idle" /\ LockFree /\ ~BackedOff /\ ~OverBudget
  /\ Reserve
  /\ lock' = "add" /\ adder' = "calling"
  /\ UNCHANGED <<now, enabled, due, log, pollAt, wake, holds, pauses,
                 main, poller, tries, upsets>>

AddAnswered ==
  /\ adder = "calling"
  /\ \/ adder' = "writing" /\ UNCHANGED pauses
     \/ adder' = "idle" /\ UNCHANGED pauses
     \/ adder' = "idle" /\ \E d \in Delays : Pause(d)
  /\ lock' = "free"
  /\ UNCHANGED <<now, enabled, due, log, pollAt, wake, holds, calls,
                 main, poller, tries, upsets>>

\* create_station's last write; the new station counts from the next day on.
AddWrite ==
  /\ adder = "writing"
  /\ adder' = "idle" /\ backoff' = 0 /\ erased' = TRUE
  /\ UNCHANGED <<now, enabled, due, log, pollAt, wake, holds, asked, calls,
                 lock, main, poller, tries, upsets>>

-----------------------------------------------------------------------------
(* The world.                                                               *)

Switch(s) ==
  /\ upsets < MaxUpsets /\ upsets' = upsets + 1
  /\ enabled' = [enabled EXCEPT ![s] = ~@]
  /\ UNCHANGED <<now, due, log, pollAt, wake, holds, pauses, calls,
                 lock, main, poller, adder, tries>>

\* The process dies and starts again: the jobs it ran are claimed again.
Stop ==
  /\ upsets < MaxUpsets /\ upsets' = upsets + 1
  /\ lock' = "free" /\ main' = Idle /\ poller' = Idle /\ adder' = "idle"
  /\ cut' = IF main.at \in {"told", "calling"} THEN cut \cup {main.st} ELSE cut
  /\ UNCHANGED <<now, enabled, due, log, pollAt, wake, holds, pauses, calls, tried>>

Tick ==
  /\ now < MaxTime /\ now' = now + 1
  /\ UNCHANGED <<enabled, due, log, pollAt, wake, holds, pauses, calls,
                 lock, main, poller, adder, tries, upsets>>

Wind ==
  \/ WindStart \/ WindEnd \/ WindDeclined \/ WindAnswered \/ WindFailed
  \/ WindThrottled \/ WindNetwork \/ WindBroken
  \/ \E s \in Stations : WindSkip(s) \/ WindReserve(s) \/ WindDecline(s)

Fill ==
  \/ FillStart \/ FillEnd \/ FillOutcome
  \/ \E s \in Stations : FillDecline(s) \/ FillReserve(s)

Poll ==
  \/ PollAnswered \/ PollBroken \/ PollRefused \/ PollThrottled
  \/ \E s \in Stations : PollReserve(s) \/ PollDecline(s)

Add == AddReserve \/ AddAnswered \/ AddWrite

Next ==
  \/ Wind \/ Fill \/ Poll \/ Add \/ Stop \/ Tick
  \/ \E s \in Stations : Switch(s)

Spec == Init /\ [][Next]_vars

-----------------------------------------------------------------------------
(* Properties.                                                              *)

CallUnderWay ==
  main.at \in {"calling", "filling"} \/ poller.at = "calling" \/ adder = "calling"

\* A pause or a refusal, once recorded, outlasts whatever the other callers write:
\* no call runs before the end of the pause last recorded, unless a station's
\* addition ended after that record (its last write deletes the pause, and does
\* not take the lock), and no call of a kind within the hold of the refusal last
\* recorded for it, with no exception.
AnswersHeeded ==
  /\ CallUnderWay /\ asked > now => erased
  /\ main.at = "calling"   => refused["five_minute"] <= now
  /\ main.at = "filling"   => refused["hourly"] <= now
  /\ poller.at = "calling" => refused["current_obs"] <= now

\* The pause alone, without the exception: what follows if every outcome is
\* written under the lock, as station_pacing.py says of the worker's and of the
\* add-station route's.
PauseHeeded == CallUnderWay => asked <= now

\* A try moves its row over an evening slot still ahead only if it was answered
\* and the slot is not the late one, or if the slot comes before the end of the
\* pause the try met; and a try of the daytime never moves it past the evening's
\* first slot.
SlotsKept ==
  [][\A s \in Stations : due'[s] # due[s] =>
       /\ now < Cap => due'[s] <= Cap
       /\ \A q \in Slots : now < q /\ q < due'[s] =>
            \/ /\ main.at = "calling" /\ log'[s].ok
               /\ q \in LateSlots => q # Least(LateSlots)
            \/ main.at = "calling" /\ q < backoff'
            \/ main.at = "told" /\ main.why # "held" /\ q < main.end]_vars

\* A try of a station's row - a call, or a turn away at the gates - is of a later
\* evening slot than every try before it, through failed calls, broken jobs and
\* restarts.  It is of the latest one's slot again only if that try was cut short:
\* the process died during it, or a database error left the row as it was.
SlotTriedOnce ==
  [][\A s \in Stations :
       main.at = "rows" /\ main'.at \in {"told", "calling"} /\ main'.st = s =>
         LET slot == SlotLabel(due[s], now)
         IN  tried[s] < slot \/ (tried[s] = slot /\ (slot = 0 \/ s \in cut))]_vars
=============================================================================
