-------------------------- MODULE Downloads_proofs --------------------------
(* Proofs of Downloads' invariants: the budget, the round's tries, its one   *)
(* stored download and the scored values, for any feeds, schedule, limits    *)
(* and number of interruptions.                                              *)
EXTENDS Downloads, FiniteSetTheorems, WellFoundedInduction, TLAPS

-----------------------------------------------------------------------------
(* Days and largest elements.                                                *)

LEMMA Quotients ==
  ASSUME NEW a \in Nat, NEW b \in Nat, a <= b, NEW n \in Nat \ {0}
  PROVE  /\ a \div n \in Nat /\ a \div n <= b \div n
  OBVIOUS

LEMMA DayTypes ==
  ASSUME NEW t \in Nat, t <= MaxTime
  PROVE  Day(t) \in Days /\ BillingDay(t) \in BillingDays /\ NextWindow(t) \in Nat
  <1>0. /\ DayLength \in Nat \ {0} /\ MaxTime \in Nat /\ BillAt \in 0..DayLength
    BY ConstantsAssumption
  <1>1. Day(t) \in Nat /\ Day(t) <= Day(MaxTime) /\ Day(MaxTime) \in Nat
    BY <1>0, Quotients DEF Day
  <1>2. t + DayLength - BillAt \in Nat /\ t + DayLength - BillAt <= MaxTime + DayLength - BillAt
        /\ MaxTime + DayLength - BillAt \in Nat
    BY <1>0
  <1>3. /\ BillingDay(t) \in Nat /\ BillingDay(t) <= BillingDay(MaxTime)
        /\ BillingDay(MaxTime) \in Nat
    BY <1>0, <1>2, Quotients DEF BillingDay
  <1>4. NextWindow(t) \in Nat
    BY <1>0, <1>3 DEF NextWindow
  <1> QED BY <1>1, <1>3, <1>4 DEF Days, BillingDays

LEMMA TopIs ==
  ASSUME NEW n \in Nat, NEW S \in SUBSET (0..n), S # {}
  PROVE  TopOf(S) \in S /\ \A x \in S : x <= TopOf(S)
  <1> DEFINE T == {n - x : x \in S}
  <1>0. \A x \in S : n - x \in Nat
    OBVIOUS
  <1>1. T \subseteq Nat /\ T # {}
    BY <1>0
  <1>2. PICK t \in T : \A u \in T : ~(<<u, t>> \in OpToRel(<, Nat))
    <2> HIDE DEF T
    <2> QED BY <1>1, NatLessThanWellFounded, WFMin
  <1>3. \A u \in T : ~(u < t)
    BY <1>1, <1>2 DEF OpToRel
  <1>4. PICK m \in S : t = n - m
    OBVIOUS
  <1>5. \A x \in S : n - x \in T /\ x \in Nat /\ m \in Nat
    OBVIOUS
  <1>6. \A x \in S : x <= m
    <2> HIDE DEF T
    <2> QED BY <1>3, <1>4, <1>5
  <1> QED BY <1>4, <1>6 DEF TopOf

LEMMA LastTryIs ==
  ASSUME NEW f, NEW d, NEW top, top = LastTry(f, d),
         \A r \in RowsOfRound(f, d) : r.slot.n \in 1..Tries
  PROVE  /\ top \in 0..Tries
         /\ \A r \in RowsOfRound(f, d) : r.slot.n <= top
         /\ top = 0 \/ \E r \in RowsOfRound(f, d) : r.slot.n = top
  <1> DEFINE S == {0} \cup {r.slot.n : r \in RowsOfRound(f, d)}
  <1>0. Tries \in Nat
    BY ConstantsAssumption DEF Tries
  <1>1. S \in SUBSET (0..Tries) /\ S # {}
    BY <1>0
  <1>2. TopOf(S) \in S /\ \A x \in S : x <= TopOf(S)
    <2> HIDE DEF S
    <2> QED BY <1>0, <1>1, TopIs
  <1>3. top = TopOf(S)
    BY DEF LastTry
  <1> HIDE DEF LastTry
  <1> QED BY <1>0, <1>1, <1>2, <1>3

-----------------------------------------------------------------------------
(* Types.                                                                    *)

LEMMA SlotFacts ==
  /\ Unscheduled \in Slot /\ Unscheduled.kind = "unscheduled"
  /\ \A d \in Days, n \in 1..Tries : /\ RoundTry(d, n) \in Slot
                                     /\ RoundTry(d, n).kind = "round"
                                     /\ RoundTry(d, n).date = d /\ RoundTry(d, n).n = n
  /\ \A n \in 1..Len(Slots) : Daytime(n) \in Slot /\ Daytime(n).kind = "daytime"
  /\ \A s \in Slot : s.kind = "round" => s.date \in Days /\ s.n \in 1..Tries
  <1>1. Unscheduled \in Slot /\ Unscheduled.kind = "unscheduled"
    BY DEF Slot, Unscheduled
  <1>2. ASSUME NEW d \in Days, NEW n \in 1..Tries
        PROVE  /\ RoundTry(d, n) \in Slot /\ RoundTry(d, n).kind = "round"
               /\ RoundTry(d, n).date = d /\ RoundTry(d, n).n = n
    BY <1>2 DEF Slot, RoundTry
  <1>3. ASSUME NEW n \in 1..Len(Slots)
        PROVE  Daytime(n) \in Slot /\ Daytime(n).kind = "daytime"
    BY <1>3 DEF Slot, Daytime
  <1>4. ASSUME NEW s \in Slot, s.kind = "round" PROVE s.date \in Days /\ s.n \in 1..Tries
    BY <1>4 DEF Slot, Daytime, Unscheduled
  <1> QED BY <1>1, <1>2, <1>3, <1>4

\* An idle runner is told by its stage.
LEMMA IdleIs ==
  ASSUME NEW x \in Fetch \cup {Idle}
  PROVE  /\ x = Idle <=> x.stage = "idle"
         /\ x # Idle <=> x \in Fetch
         /\ x # Idle => /\ x.stage \in Stages /\ x.feed \in Feeds /\ x.slot \in Slot
                        /\ x.started \in Nat /\ x.billed \in Nat /\ x.page \in Nat
                        /\ x.outcome \in Outcomes /\ x.wake \in Nat
  <1>1. Idle.stage = "idle" /\ "idle" \notin Stages
    BY DEF Idle, Stages
  <1>2. ASSUME x \in Fetch
        PROVE  /\ x.stage \in Stages /\ x.feed \in Feeds /\ x.slot \in Slot
               /\ x.started \in Nat /\ x.billed \in Nat /\ x.page \in Nat
               /\ x.outcome \in Outcomes /\ x.wake \in Nat
    BY <1>2 DEF Fetch
  <1> QED BY <1>1, <1>2

\* The two runners write their own entry, and a job's writer its own row.
RunWrite(r, x) ==
  /\ run' \in [Runners -> Fetch \cup {Idle}]
  /\ run'[r] = x
  /\ \A q \in Runners \ {r} : run'[q] = run[q]

JobWrite(k, status, slot) ==
  /\ jobs' \in [Keys -> Job]
  /\ jobs'[k].status = status /\ jobs'[k].slot = slot
  /\ \A q \in Keys \ {k} : jobs'[q] = jobs[q]

LEMMA RunSet ==
  ASSUME TypeOK, NEW r \in Runners, NEW x \in Fetch \cup {Idle}, run' = [run EXCEPT ![r] = x]
  PROVE  RunWrite(r, x)
  BY DEF TypeOK, RunWrite

LEMMA JobSet ==
  ASSUME TypeOK, NEW k \in Keys, NEW j \in Job, jobs' = [jobs EXCEPT ![k] = j]
  PROVE  JobWrite(k, j.status, j.slot)
  BY DEF TypeOK, JobWrite

LEMMA MoveShape ==
  ASSUME TypeOK, NEW r \in Runners, NEW g \in Fetch, Move(r, g)
  PROVE  \E x \in {g, Idle} : RunWrite(r, x) /\ (r = "lane" => x = g)
  <1>1. CASE r = "cli" /\ g.stage \in {"tell", "fail", "complete"}
    <2>1. run' = [run EXCEPT ![r] = Idle]
      BY <1>1 DEF Move
    <2> QED BY <1>1, <2>1, RunSet
  <1>2. CASE ~(r = "cli" /\ g.stage \in {"tell", "fail", "complete"})
    <2>1. run' = [run EXCEPT ![r] = g]
      BY <1>2 DEF Move
    <2> QED BY <2>1, RunSet
  <1> QED BY <1>1, <1>2

\* A later stage of the same fetch.
Later(g, h) ==
  /\ g \in Fetch /\ g.feed = h.feed /\ g.slot = h.slot /\ g.started = h.started

LEMMA Restage ==
  ASSUME NEW g \in Fetch, NEW s \in Stages
  PROVE  LET h == [g EXCEPT !.stage = s]
         IN  Later(h, g) /\ h.stage = s /\ h.billed = g.billed /\ h.page = g.page
             /\ h.outcome = g.outcome /\ h.wake = g.wake
  BY DEF Fetch, Later

LEMMA ToShape ==
  ASSUME TypeOK, NEW r \in Runners, NEW s \in Stages, run[r] # Idle, To(r, s)
  PROVE  \E g \in Fetch :
           /\ Later(g, run[r]) /\ g.stage = s /\ g.billed = run[r].billed
           /\ g.page = run[r].page /\ g.wake = run[r].wake
           /\ \E x \in {g, Idle} : RunWrite(r, x) /\ (r = "lane" => x = g)
  <1>1. run[r] \in Fetch
    BY IdleIs DEF TypeOK
  <1> DEFINE g == [run[r] EXCEPT !.stage = s]
  <1>2. /\ Later(g, run[r]) /\ g.stage = s /\ g.billed = run[r].billed
        /\ g.page = run[r].page /\ g.wake = run[r].wake
    BY <1>1, Restage
  <1>3. g \in Fetch
    BY <1>2 DEF Later
  <1>4. Move(r, g)
    BY DEF To
  <1>5. \E x \in {g, Idle} : RunWrite(r, x) /\ (r = "lane" => x = g)
    <2> HIDE DEF g
    <2> QED BY <1>3, <1>4, MoveShape
  <1> HIDE DEF g
  <1> QED BY <1>2, <1>3, <1>5

LEMMA TellShape ==
  ASSUME TypeOK, NEW r \in Runners, NEW o \in Outcomes, NEW w \in Nat, run[r] # Idle,
         Tell(r, o, w)
  PROVE  \E g \in Fetch :
           /\ Later(g, run[r]) /\ g.stage = "tell" /\ g.outcome = o
           /\ \E x \in {g, Idle} : RunWrite(r, x) /\ (r = "lane" => x = g)
  <1>1. run[r] \in Fetch
    BY IdleIs DEF TypeOK
  <1> DEFINE g == [run[r] EXCEPT !.stage = "tell", !.outcome = o, !.wake = w]
  <1>2. "tell" \in Stages
    BY DEF Stages
  <1>3. Later(g, run[r]) /\ g.stage = "tell" /\ g.outcome = o
    BY <1>1, <1>2 DEF Fetch, Later
  <1>4. g \in Fetch
    BY <1>3 DEF Later
  <1>5. Move(r, g)
    BY DEF Tell
  <1>6. \E x \in {g, Idle} : RunWrite(r, x) /\ (r = "lane" => x = g)
    <2> HIDE DEF g
    <2> QED BY <1>4, <1>5, MoveShape
  <1> HIDE DEF g
  <1> QED BY <1>3, <1>4, <1>6

LEMMA FreshIs ==
  ASSUME TypeOK, NEW s \in Stages, NEW f \in Feeds, NEW slot \in Slot
  PROVE  LET g == Fresh(s, f, slot)
         IN  g \in Fetch /\ g.stage = s /\ g.feed = f /\ g.slot = slot
  <1>1. clock \in Nat /\ "failed" \in Outcomes
    BY ConstantsAssumption DEF TypeOK, Outcomes
  <1> QED BY <1>1 DEF Fresh, Fetch

-----------------------------------------------------------------------------
(* What each step leaves: its runner's entry, its job's row.                 *)

\* The live row of a key is of its kind; the lane's row runs; the command line's
\* fetch has no slot.
KeyFit ==
  /\ \A k \in Keys : IsLive(k) => (jobs[k].slot.kind = "round" <=> k[1] = "round")
  /\ run["lane"] # Idle => jobs[Mine].status = "running"
  /\ run["cli"] # Idle => run["cli"].slot = Unscheduled

\* TypeOK's last conjunct.
Held ==
  \A k \in Keys : jobs[k].status = "running" <=>
    run["lane"] # Idle /\ KeyOf(run["lane"]) = k /\ run["lane"].slot = jobs[k].slot

LEMMA MineIs ==
  ASSUME TypeOK, run["lane"] # Idle
  PROVE  /\ Mine \in Keys /\ Mine[2] = run["lane"].feed
         /\ Mine[1] = "round" <=> run["lane"].slot.kind = "round"
         /\ KeyFit => jobs[Mine].status = "running" /\ jobs[Mine].slot = run["lane"].slot
  <1>1. run["lane"].feed \in Feeds
    BY IdleIs DEF TypeOK, Runners
  <1>2. /\ Mine \in Keys /\ Mine[2] = run["lane"].feed
        /\ Mine[1] = "round" <=> run["lane"].slot.kind = "round"
    BY <1>1 DEF Mine, KeyOf, Keys
  <1>3. KeyFit => jobs[Mine].status = "running" /\ jobs[Mine].slot = run["lane"].slot
    BY <1>2 DEF KeyFit, TypeOK
  <1> QED BY <1>2, <1>3

\* The stages a step may lead a fetch to.
Onward(a, b) ==
  \/ a = "stale" /\ b \in {"cancel", "reserve", "fail"}
  \/ a = "reserve" /\ b \in {"tell", "call", "fail"}
  \/ a = "call" /\ b \in {"call", "refund", "persist", "throttled", "fail"}
  \/ a = "throttled" /\ b \in {"tell", "fail"}
  \/ a = "persist" /\ b \in {"complete", "fail"}
  \/ a = "tell" /\ b \in {"cancel", "defer", "fail"}
  \/ a \in {"refund", "complete"} /\ b = "fail"

Refusals == {"budget", "backoff", "ineligible", "unavailable"}

\* Runner r's fetch is at g; one from the command line may have ended.  A round's
\* try goes on only when it is not stale.
FetchStep(r, g) ==
  /\ jobs' = jobs /\ run[r] # Idle
  /\ Later(g, run[r]) /\ Onward(run[r].stage, g.stage)
  /\ g.stage = "tell" => g.outcome \in Refusals
  /\ g.stage = "defer" => g.slot.kind # "round"
  /\ run[r].stage = "stale" /\ g.stage = "reserve" => ~TryStale(run[r])
  /\ \E x \in {g, Idle} : RunWrite(r, x) /\ (r = "lane" => x = g)

EnqueueStep(k, slot) ==
  /\ run' = run /\ ~IsLive(k) /\ slot \in Slot
  /\ slot.kind = "round" <=> k[1] = "round"
  /\ k[1] = "round" => slot.n = LastTry(k[2], slot.date) + 1
  /\ JobWrite(k, "pending", slot)

ClaimStep(k, g) ==
  /\ jobs[k].status = "pending" /\ run["lane"] = Idle
  /\ g \in Fetch /\ g.feed = k[2] /\ g.slot = jobs[k].slot
  /\ g.stage = IF k[1] = "round" THEN "stale" ELSE "reserve"
  /\ JobWrite(k, "running", jobs[k].slot) /\ RunWrite("lane", g)

EndStep(status) ==
  /\ run["lane"] # Idle /\ status \in {"pending", "completed", "failed"}
  /\ JobWrite(Mine, status, jobs[Mine].slot) /\ RunWrite("lane", Idle)

LEMMA PutShape ==
  ASSUME TypeOK, NEW k \in Keys, NEW slot \in Slot, Put(k, slot)
  PROVE  JobWrite(k, "pending", slot)
  <1> DEFINE j == [status |-> "pending", slot |-> slot, due |-> clock, tries |-> 0,
                   updated |-> clock]
  <1>1. clock \in Nat
    BY ConstantsAssumption DEF TypeOK
  <1>2. j \in Job /\ j.status = "pending" /\ j.slot = slot
    BY <1>1 DEF Job, Live
  <1>3. jobs' = [jobs EXCEPT ![k] = j]
    BY DEF Put
  <1> HIDE DEF j
  <1> QED BY <1>2, <1>3, JobSet

LEMMA RoundShape ==
  ASSUME TypeOK, NEW f \in Feeds, EnqueueRoundTry(f)
  PROVE  \E d \in Days, n \in 1..Tries :
           EnqueueStep(<<"round", f>>, RoundTry(d, n))
  <1>0. clock \in Nat /\ clock <= MaxTime /\ Tries \in Nat
    BY ConstantsAssumption DEF TypeOK, Tries
  <1> DEFINE d == Day(clock)
             n == LastTry(f, d) + 1
  <1>1. d \in Days
    BY <1>0, DayTypes
  <1>2. \A r \in RowsOfRound(f, d) : r.slot.n \in 1..Tries
    BY SlotFacts DEF RowsOfRound, TypeOK, Row
  <1>3. LastTry(f, d) \in 0..Tries
    <2> HIDE DEF d
    <2> QED BY <1>2, LastTryIs
  <1>4. n <= Tries /\ Put(<<"round", f>>, RoundTry(d, n)) /\ ~IsLive(<<"round", f>>)
        /\ run' = run
    BY DEF EnqueueRoundTry, Asked
  <1>5. n \in 1..Tries
    <2> HIDE DEF d
    <2> QED BY <1>0, <1>3, <1>4
  <1>6. <<"round", f>> \in Keys /\ <<"round", f>>[1] = "round" /\ <<"round", f>>[2] = f
        /\ n = LastTry(f, d) + 1
    BY DEF Keys
  <1>7. EnqueueStep(<<"round", f>>, RoundTry(d, n))
    <2> HIDE DEF d, n
    <2> QED BY <1>1, <1>4, <1>5, <1>6, SlotFacts, PutShape DEF EnqueueStep
  <1> QED
    <2> HIDE DEF d
    <2> QED BY <1>1, <1>5, <1>7

LEMMA DaytimeShape ==
  ASSUME TypeOK, NEW f \in Feeds, EnqueueDaytime(f) \/ EnqueueAsked(f)
  PROVE  \E slot \in Slot : EnqueueStep(<<"fetch", f>>, slot)
  <1>0. <<"fetch", f>> \in Keys /\ <<"fetch", f>>[1] # "round"
    BY DEF Keys
  <1>1. CASE EnqueueAsked(f)
    <2>1. Put(<<"fetch", f>>, Unscheduled) /\ ~IsLive(<<"fetch", f>>) /\ run' = run
      BY <1>1 DEF EnqueueAsked, Asked
    <2> QED BY <1>0, <2>1, SlotFacts, PutShape DEF EnqueueStep
  <1>2. CASE EnqueueDaytime(f)
    <2> DEFINE S == DueSlots(f, Day(clock))
    <2>1. /\ S # {} /\ Put(<<"fetch", f>>, Daytime(TopOf(S))) /\ ~IsLive(<<"fetch", f>>)
          /\ run' = run
      BY <1>2 DEF EnqueueDaytime, Asked
    <2>2. /\ SlotsLeft(f, Day(clock)) \in Int /\ Len(Slots) \in Nat
          /\ SlotsLeft(f, Day(clock)) <= Len(Slots)
      <3> DEFINE N == {r.slot.n : r \in RowsOfRound(f, Day(clock))} \ {1}
      <3>1. N \subseteq 1..Tries
        BY SlotFacts DEF RowsOfRound, TypeOK, Row
      <3>2. Tries \in Nat /\ Len(Slots) \in Nat
        BY ConstantsAssumption DEF Tries
      <3>3. IsFiniteSet(N) /\ Cardinality(N) \in Nat
        <4> HIDE DEF N
        <4>1. IsFiniteSet(1..Tries)
          BY <3>2, FS_Interval
        <4> QED BY <3>1, <4>1, FS_Subset, FS_CardinalityType
      <3>4. Retries(f, Day(clock)) = Cardinality(N)
        BY DEF Retries
      <3> HIDE DEF N
      <3> QED BY <3>2, <3>3, <3>4 DEF SlotsLeft, Largest
    <2>4. S \subseteq 1..Len(Slots)
      BY <2>2 DEF DueSlots
    <2>3. TopOf(S) \in 1..Len(Slots)
      <3> HIDE DEF S
      <3>1. S \in SUBSET (0..Len(Slots))
        BY <2>2, <2>4
      <3> QED BY <2>1, <2>2, <2>4, <3>1, TopIs
    <2> HIDE DEF S
    <2> QED BY <1>0, <2>1, <2>3, SlotFacts, PutShape DEF EnqueueStep
  <1> QED BY <1>1, <1>2

LEMMA ClaimShape ==
  ASSUME TypeOK, NEW k \in Keys, Claim(k)
  PROVE  \E g \in Fetch : ClaimStep(k, g)
  <1> DEFINE s == IF k[1] = "round" THEN "stale" ELSE "reserve"
             g == Fresh(s, k[2], jobs[k].slot)
  <1>1. s \in Stages /\ k[2] \in Feeds /\ jobs[k].slot \in Slot /\ jobs[k] \in Job
    BY DEF Stages, Keys, TypeOK, Job
  <1>2. g \in Fetch /\ g.stage = s /\ g.feed = k[2] /\ g.slot = jobs[k].slot
    <2> HIDE DEF s
    <2> QED BY <1>1, FreshIs
  <1>3. /\ run["lane"] = Idle /\ jobs[k].status = "pending"
        /\ run' = [run EXCEPT !["lane"] = g]
        /\ jobs' = [jobs EXCEPT ![k].status = "running", ![k].updated = clock]
    BY DEF Claim, Claimable
  <1>4. RunWrite("lane", g)
    <2> HIDE DEF g
    <2> QED BY <1>2, <1>3, RunSet DEF Runners
  <1> DEFINE j == [jobs[k] EXCEPT !.status = "running", !.updated = clock]
  <1>5. j \in Job /\ j.status = "running" /\ j.slot = jobs[k].slot
    <2>1. clock \in Nat
      BY ConstantsAssumption DEF TypeOK
    <2> QED BY <1>1, <2>1 DEF Job, Live
  <1>6. jobs' = [jobs EXCEPT ![k] = j]
    BY <1>3 DEF TypeOK
  <1>7. JobWrite(k, "running", jobs[k].slot)
    <2> HIDE DEF j
    <2> QED BY <1>5, <1>6, JobSet
  <1>8. ClaimStep(k, g)
    <2> HIDE DEF g
    <2> QED BY <1>2, <1>3, <1>4, <1>7 DEF ClaimStep
  <1> QED
    <2> HIDE DEF g
    <2> QED BY <1>2, <1>8

LEMMA FailedJobIs ==
  ASSUME NEW q \in Job, NEW delay \in Nat, clock \in Nat
  PROVE  /\ FailedJob(q, delay) \in Job
         /\ FailedJob(q, delay).status \in {"pending", "failed"}
         /\ FailedJob(q, delay).slot = q.slot
         /\ FailedJob(q, delay).status = "pending" => q.slot.kind # "round"
  <1>0. q.tries + 1 \in Nat /\ clock + delay \in Nat
    BY DEF Job
  <1> DEFINE a == [q EXCEPT !.status = "failed", !.tries = q.tries + 1, !.updated = clock]
             b == [q EXCEPT !.status = "pending", !.tries = q.tries + 1, !.updated = clock,
                            !.due = clock + delay]
  <1>1. a \in Job /\ a.status = "failed" /\ a.slot = q.slot
    BY <1>0 DEF Job, Live
  <1>2. b \in Job /\ b.status = "pending" /\ b.slot = q.slot
    BY <1>0 DEF Job, Live
  <1>3. FailedJob(q, delay) = a \/ (FailedJob(q, delay) = b /\ q.slot.kind # "round")
    <2>1. q.slot.kind = "round" => q.tries + 1 > MaxRetries(q.slot)
      BY <1>0 DEF MaxRetries, Job
    <2> QED BY <2>1 DEF FailedJob
  <1> QED BY <1>1, <1>2, <1>3

LEMMA EndShape ==
  ASSUME TypeOK, KeyFit
  PROVE  /\ Complete => EndStep("completed")
         /\ Defer => EndStep("pending")
         /\ Restart => EndStep("pending")
         /\ \A delay \in Nat : Fail(delay) =>
              \/ EndStep("failed")
              \/ EndStep("pending") /\ jobs[Mine].slot.kind # "round"
  <1>0. clock \in Nat /\ Mine = Mine
    BY ConstantsAssumption DEF TypeOK
  <1>1. ASSUME run["lane"] # Idle
        PROVE  Mine \in Keys /\ jobs[Mine] \in Job /\ run["lane"].wake \in Nat
    BY <1>1, MineIs, IdleIs DEF TypeOK, Runners
  <1>2. ASSUME run["lane"] # Idle, NEW j \in Job, jobs' = [jobs EXCEPT ![Mine] = j],
               j.status \in {"pending", "completed", "failed"}, j.slot = jobs[Mine].slot,
               run' = [run EXCEPT !["lane"] = Idle]
        PROVE  EndStep(j.status)
    <2>1. JobWrite(Mine, j.status, jobs[Mine].slot)
      BY <1>1, <1>2, JobSet
    <2>2. RunWrite("lane", Idle)
      BY <1>2, RunSet DEF Runners
    <2> QED BY <1>2, <2>1, <2>2 DEF EndStep
  <1>3. ASSUME Complete PROVE EndStep("completed")
    <2> DEFINE j == [jobs[Mine] EXCEPT !.status = "completed", !.updated = clock]
    <2>1. run["lane"] # Idle /\ jobs' = [jobs EXCEPT ![Mine] = j]
          /\ run' = [run EXCEPT !["lane"] = Idle]
      BY <1>3 DEF Complete, At, Close
    <2>2. j \in Job /\ j.status = "completed" /\ j.slot = jobs[Mine].slot
      BY <1>0, <1>1, <2>1 DEF Job
    <2> HIDE DEF j
    <2> QED BY <1>2, <2>1, <2>2
  <1>4. ASSUME Defer PROVE EndStep("pending")
    <2> DEFINE j == [jobs[Mine] EXCEPT !.status = "pending", !.due = run["lane"].wake,
                                       !.updated = clock]
    <2>1. run["lane"] # Idle /\ jobs' = [jobs EXCEPT ![Mine] = j]
          /\ run' = [run EXCEPT !["lane"] = Idle]
      BY <1>4 DEF Defer, At, Close
    <2>2. j \in Job /\ j.status = "pending" /\ j.slot = jobs[Mine].slot
      BY <1>0, <1>1, <2>1 DEF Job, Live
    <2> HIDE DEF j
    <2> QED BY <1>2, <2>1, <2>2
  <1>5. ASSUME Restart PROVE EndStep("pending")
    <2> DEFINE j == [jobs[Mine] EXCEPT !.status = "pending"]
    <2>1. run["lane"] # Idle /\ jobs' = [jobs EXCEPT ![Mine].status = "pending"]
          /\ run' = [run EXCEPT !["lane"] = Idle]
      BY <1>5 DEF Restart
    <2>2. j \in Job /\ j.status = "pending" /\ j.slot = jobs[Mine].slot
      BY <1>1, <2>1 DEF Job, Live
    <2>3. jobs' = [jobs EXCEPT ![Mine] = j]
      BY <2>1
    <2> HIDE DEF j
    <2> QED BY <1>2, <2>1, <2>2, <2>3
  <1>6. ASSUME NEW delay \in Nat, Fail(delay)
        PROVE  EndStep("failed") \/ (EndStep("pending") /\ jobs[Mine].slot.kind # "round")
    <2> DEFINE j == FailedJob(jobs[Mine], delay)
    <2>1. run["lane"] # Idle /\ jobs' = [jobs EXCEPT ![Mine] = j]
          /\ run' = [run EXCEPT !["lane"] = Idle]
      BY <1>6 DEF Fail, At, Close
    <2>2. /\ j \in Job /\ j.status \in {"pending", "failed"} /\ j.slot = jobs[Mine].slot
          /\ j.status = "pending" => jobs[Mine].slot.kind # "round"
      <3>1. jobs[Mine] \in Job
        BY <1>1, <2>1
      <3> QED BY <1>0, <1>6, <3>1, FailedJobIs
    <2> HIDE DEF j
    <2> QED BY <1>2, <2>1, <2>2
  <1> QED BY <1>3, <1>4, <1>5, <1>6

LEMMA ToStep ==
  ASSUME TypeOK, NEW r \in Runners, NEW s \in Stages \ {"tell"}, run[r] # Idle, To(r, s),
         jobs' = jobs, Onward(run[r].stage, s), s = "defer" => run[r].slot.kind # "round",
         run[r].stage = "stale" /\ s = "reserve" => ~TryStale(run[r])
  PROVE  \E g \in Fetch : /\ FetchStep(r, g) /\ g.stage = s /\ g.billed = run[r].billed
                          /\ g.page = run[r].page
  <1>1. PICK g \in Fetch :
          /\ Later(g, run[r]) /\ g.stage = s /\ g.billed = run[r].billed
          /\ g.page = run[r].page
          /\ \E x \in {g, Idle} : RunWrite(r, x) /\ (r = "lane" => x = g)
    BY ToShape
  <1>2. FetchStep(r, g)
    BY <1>1 DEF FetchStep, Later
  <1> QED BY <1>1, <1>2

LEMMA TellStep ==
  ASSUME TypeOK, NEW r \in Runners, NEW o \in Refusals, NEW w \in Nat, run[r] # Idle,
         Tell(r, o, w), jobs' = jobs, run[r].stage \in {"reserve", "throttled"}
  PROVE  \E g \in Fetch : FetchStep(r, g) /\ g.stage = "tell"
  <1>1. o \in Outcomes
    BY DEF Refusals, Outcomes
  <1>2. PICK g \in Fetch :
          /\ Later(g, run[r]) /\ g.stage = "tell" /\ g.outcome = o
          /\ \E x \in {g, Idle} : RunWrite(r, x) /\ (r = "lane" => x = g)
    BY <1>1, TellShape
  <1>3. FetchStep(r, g)
    BY <1>2 DEF FetchStep, Onward
  <1> QED BY <1>2, <1>3

\* The reservation: refused, or made on today's billing day.
Refused(g) == g.stage = "tell" /\ UNCHANGED <<calls, made>>

Reserved(r, g) ==
  /\ g.stage = "call" /\ g.billed = BillingDay(clock) /\ g.page = 1
  /\ calls[BillingDay(clock)] + Pages <= Limit
  /\ calls' = [calls EXCEPT ![BillingDay(clock)] = @ + Pages]
  /\ made' = IF run[r].slot.kind = "round"
             THEN [made EXCEPT ![<<run[r].feed, run[r].slot.date>>] = @ + 1] ELSE made

LEMMA ReserveShape ==
  ASSUME TypeOK, NEW r \in Runners, Reserve(r)
  PROVE  \E g \in Fetch : FetchStep(r, g) /\ (Refused(g) \/ Reserved(r, g))
  <1>0. /\ run[r] # Idle /\ run[r].stage = "reserve" /\ jobs' = jobs
        /\ clock \in Nat /\ clock <= MaxTime /\ backoff \in Nat /\ run[r] \in Fetch
    BY ConstantsAssumption, IdleIs DEF Reserve, At, TypeOK
  <1>1. ASSUME NEW o \in Refusals, NEW w \in Nat, Tell(r, o, w), UNCHANGED <<calls, made>>
        PROVE  \E g \in Fetch : FetchStep(r, g) /\ Refused(g)
    BY <1>0, <1>1, TellStep DEF Refused
  <1>2. /\ {"budget", "backoff", "ineligible", "unavailable"} = Refusals
        /\ NextWindow(clock) \in Nat /\ BillingDay(clock) \in Nat
    BY <1>0, DayTypes DEF Refusals, BillingDays
  <1> DEFINE g == [run[r] EXCEPT !.stage = "call", !.billed = BillingDay(clock), !.page = 1]
  <1>3. ASSUME calls[BillingDay(clock)] + Pages <= Limit,
               calls' = [calls EXCEPT ![BillingDay(clock)] = @ + Pages],
               made' = IF run[r].slot.kind = "round"
                       THEN [made EXCEPT ![<<run[r].feed, run[r].slot.date>>] = @ + 1]
                       ELSE made,
               Move(r, g)
        PROVE  \E h \in Fetch : FetchStep(r, h) /\ Reserved(r, h)
    <2>1. /\ Later(g, run[r]) /\ g.stage = "call" /\ g.billed = BillingDay(clock)
          /\ g.page = 1
      BY <1>0, <1>2 DEF Later, Fetch, Stages
    <2>2. g \in Fetch
      BY <2>1 DEF Later
    <2>3. \E x \in {g, Idle} : RunWrite(r, x) /\ (r = "lane" => x = g)
      <3> HIDE DEF g
      <3> QED BY <1>3, <2>2, MoveShape
    <2> HIDE DEF g
    <2>4. FetchStep(r, g) /\ Reserved(r, g)
      BY <1>0, <1>3, <2>1, <2>2, <2>3 DEF FetchStep, Onward, Reserved
    <2> QED BY <2>2, <2>4
  <1> HIDE DEF g
  <1>4. \/ \E o \in Refusals, w \in Nat : Tell(r, o, w) /\ UNCHANGED <<calls, made>>
        \/ /\ calls[BillingDay(clock)] + Pages <= Limit
           /\ calls' = [calls EXCEPT ![BillingDay(clock)] = @ + Pages]
           /\ made' = IF run[r].slot.kind = "round"
                      THEN [made EXCEPT ![<<run[r].feed, run[r].slot.date>>] = @ + 1]
                      ELSE made
           /\ Move(r, g)
    <2>1. CASE Tell(r, "ineligible", 0) /\ UNCHANGED <<calls, made>>
      BY <1>2, <2>1
    <2>2. CASE Tell(r, "unavailable", 0) /\ UNCHANGED <<calls, made>>
      BY <1>2, <2>2
    <2>3. CASE Tell(r, "backoff", backoff) /\ UNCHANGED <<calls, made>>
      BY <1>0, <1>2, <2>3
    <2>4. CASE Tell(r, "budget", NextWindow(clock)) /\ UNCHANGED <<calls, made>>
      BY <1>2, <2>4
    <2> QED BY <2>1, <2>2, <2>3, <2>4 DEF Reserve, g
  <1> QED BY <1>1, <1>3, <1>4

\* The steps of a call, of its end, and of what is told.
Kept(r, g) == g.billed = run[r].billed /\ g.page = run[r].page

LEMMA CallShape ==
  ASSUME TypeOK, NEW r \in Runners
  PROVE  /\ NotConnected(r) => \E g \in Fetch :
              /\ FetchStep(r, g) /\ Kept(r, g)
              /\ (g.stage = "refund" /\ run[r].page = 1) \/ g.stage = "fail"
         /\ Requested(r) => \E g \in Fetch :
              /\ FetchStep(r, g) /\ g.billed = run[r].billed
              /\ \/ g.stage = "call" /\ g.page = run[r].page + 1 /\ run[r].page < Pages
                 \/ g.stage \in {"persist", "throttled", "fail"}
         /\ Refund(r) => \E g \in Fetch : FetchStep(r, g) /\ Kept(r, g) /\ g.stage = "fail"
         /\ Raise(r) => \E g \in Fetch : FetchStep(r, g) /\ Kept(r, g) /\ g.stage = "fail"
         /\ \A delay \in Nat : RecordBackoff(r, delay) =>
              \E g \in Fetch : FetchStep(r, g) /\ g.stage = "tell"
         /\ \A usable, hours : Persist(r, usable, hours) =>
              \E g \in Fetch : FetchStep(r, g) /\ g.stage = "complete"
  <1> USE DEF Kept
  <1>0. clock \in Nat /\ {"refund", "fail", "persist", "throttled", "complete"} \subseteq Stages \ {"tell"}
        /\ "backoff" \in Refusals
    BY ConstantsAssumption DEF TypeOK, Stages, Refusals
  <1>1. ASSUME NotConnected(r)
        PROVE  \E g \in Fetch :
                 /\ FetchStep(r, g) /\ Kept(r, g)
                 /\ (g.stage = "refund" /\ run[r].page = 1) \/ g.stage = "fail"
    <2>1. run[r] # Idle /\ run[r].stage = "call" /\ jobs' = jobs
      BY <1>1 DEF NotConnected, At, OnlyRun
    <2>2. CASE run[r].page = 1
      <3>1. To(r, "refund")
        BY <1>1, <2>2 DEF NotConnected, Refundable
      <3> QED BY <1>0, <2>1, <2>2, <3>1, ToStep DEF Onward
    <2>3. CASE run[r].page # 1
      <3>1. To(r, "fail")
        BY <1>1, <2>3 DEF NotConnected, Refundable
      <3> QED BY <1>0, <2>1, <2>3, <3>1, ToStep DEF Onward
    <2> QED BY <2>2, <2>3
  <1>2. ASSUME Requested(r)
        PROVE  \E g \in Fetch :
                 /\ FetchStep(r, g) /\ g.billed = run[r].billed
                 /\ \/ g.stage = "call" /\ g.page = run[r].page + 1 /\ run[r].page < Pages
                    \/ g.stage \in {"persist", "throttled", "fail"}
    <2>1. run[r] # Idle /\ run[r].stage = "call" /\ jobs' = jobs /\ run[r] \in Fetch
      BY <1>2, IdleIs DEF Requested, At, TypeOK
    <2>2. ASSUME NEW s \in {"persist", "throttled", "fail"}, To(r, s)
          PROVE  \E g \in Fetch : FetchStep(r, g) /\ g.billed = run[r].billed /\ g.stage = s
      BY <1>0, <2>1, <2>2, ToStep DEF Onward
    <2> DEFINE h == [run[r] EXCEPT !.page = @ + 1]
    <2>3. ASSUME run[r].page < Pages, Move(r, h)
          PROVE  \E g \in Fetch :
                   /\ FetchStep(r, g) /\ g.billed = run[r].billed
                   /\ g.stage = "call" /\ g.page = run[r].page + 1
      <3>1. /\ Later(h, run[r]) /\ h.stage = "call" /\ h.billed = run[r].billed
            /\ h.page = run[r].page + 1
        BY <2>1 DEF Later, Fetch
      <3>2. h \in Fetch
        BY <3>1 DEF Later
      <3> HIDE DEF h
      <3>3. \E x \in {h, Idle} : RunWrite(r, x) /\ (r = "lane" => x = h)
        BY <2>3, <3>2, MoveShape
      <3>4. FetchStep(r, h)
        BY <2>1, <3>1, <3>3 DEF FetchStep, Onward
      <3> QED BY <3>1, <3>2, <3>4
    <2> HIDE DEF h
    <2>4. \/ run[r].page < Pages /\ Move(r, h)
          \/ \E s \in {"persist", "throttled", "fail"} : To(r, s)
      BY <1>2 DEF Requested, h
    <2> QED BY <2>2, <2>3, <2>4
  <1>3. ASSUME Refund(r)
        PROVE  \E g \in Fetch : FetchStep(r, g) /\ Kept(r, g) /\ g.stage = "fail"
    BY <1>0, <1>3, ToStep DEF Refund, At, Onward
  <1>4. ASSUME Raise(r)
        PROVE  \E g \in Fetch : FetchStep(r, g) /\ Kept(r, g) /\ g.stage = "fail"
    <2>1. /\ run[r] # Idle /\ To(r, "fail") /\ jobs' = jobs
          /\ Onward(run[r].stage, "fail")
      BY <1>4 DEF Raise, At, OnlyRun, Onward
    <2> QED BY <1>0, <2>1, ToStep
  <1>5. ASSUME NEW delay \in Nat, RecordBackoff(r, delay)
        PROVE  \E g \in Fetch : FetchStep(r, g) /\ g.stage = "tell"
    <2>1. /\ run[r] # Idle /\ run[r].stage = "throttled" /\ jobs' = jobs
          /\ Tell(r, "backoff", clock + delay) /\ clock + delay \in Nat
      BY <1>0, <1>5 DEF RecordBackoff, At
    <2> QED BY <1>0, <2>1, TellStep
  <1>6. ASSUME NEW usable, NEW hours, Persist(r, usable, hours)
        PROVE  \E g \in Fetch : FetchStep(r, g) /\ g.stage = "complete"
    <2>1. run[r] # Idle /\ run[r].stage = "persist" /\ jobs' = jobs /\ To(r, "complete")
      BY <1>6 DEF Persist, At
    <2> QED BY <1>0, <2>1, ToStep DEF Onward
  <1> QED BY <1>1, <1>2, <1>3, <1>4, <1>5, <1>6

LEMMA LaneShape ==
  ASSUME TypeOK
  PROVE  /\ CheckStale => \E g \in Fetch :
              /\ FetchStep("lane", g)
              /\ g.stage = IF TryStale(run["lane"]) THEN "cancel" ELSE "reserve"
         /\ RecordTry => \E g \in Fetch :
              /\ FetchStep("lane", g) /\ g.stage \in {"cancel", "defer"}
  <1>0. "lane" \in Runners /\ {"cancel", "reserve", "defer"} \subseteq Stages \ {"tell"}
    BY DEF Runners, Stages
  <1>1. ASSUME CheckStale
        PROVE  \E g \in Fetch :
                 /\ FetchStep("lane", g)
                 /\ g.stage = IF TryStale(run["lane"]) THEN "cancel" ELSE "reserve"
    <2>1. run["lane"] # Idle /\ run["lane"].stage = "stale" /\ jobs' = jobs
      BY <1>1 DEF CheckStale, At, OnlyRun
    <2>2. CASE TryStale(run["lane"])
      <3>1. To("lane", "cancel")
        BY <1>1, <2>2 DEF CheckStale
      <3> QED BY <1>0, <2>1, <2>2, <3>1, ToStep DEF Onward
    <2>3. CASE ~TryStale(run["lane"])
      <3>1. To("lane", "reserve")
        BY <1>1, <2>3 DEF CheckStale
      <3> QED BY <1>0, <2>1, <2>3, <3>1, ToStep DEF Onward
    <2> QED BY <2>2, <2>3
  <1>2. ASSUME RecordTry
        PROVE  \E g \in Fetch : FetchStep("lane", g) /\ g.stage \in {"cancel", "defer"}
    <2>1. run["lane"] # Idle /\ run["lane"].stage = "tell" /\ jobs' = jobs
      BY <1>2 DEF RecordTry, At
    <2>2. \E s \in {"cancel", "defer"} :
             To("lane", s) /\ (s = "defer" => run["lane"].slot.kind # "round")
      BY <1>2 DEF RecordTry
    <2> QED BY <1>0, <2>1, <2>2, ToStep DEF Onward
  <1> QED BY <1>1, <1>2

-----------------------------------------------------------------------------
(* The last recorded try, after a row is added.                              *)

LEMMA LastType ==
  ASSUME TypeOK, NEW f, NEW d
  PROVE  /\ LastTry(f, d) \in 0..Tries
         /\ \A r \in RowsOfRound(f, d) : r.slot.n <= LastTry(f, d)
         /\ LastTry(f, d) = 0 \/ \E r \in RowsOfRound(f, d) : r.slot.n = LastTry(f, d)
  <1>1. \A r \in RowsOfRound(f, d) : r.slot.n \in 1..Tries
    BY SlotFacts DEF RowsOfRound, TypeOK, Row
  <1> QED BY <1>1, LastTryIs

LEMMA LastSame ==
  ASSUME NEW f, NEW d, RowsOfRound(f, d)' = RowsOfRound(f, d)
  PROVE  LastTry(f, d)' = LastTry(f, d)
  BY DEF LastTry

LEMMA LastAdd ==
  ASSUME TypeOK, TypeOK', NEW f, NEW d, NEW q,
         RowsOfRound(f, d)' = RowsOfRound(f, d) \cup {q}, LastTry(f, d) <= q.slot.n
  PROVE  LastTry(f, d)' = q.slot.n
  <1>1. /\ LastTry(f, d) \in 0..Tries
        /\ \A r \in RowsOfRound(f, d) : r.slot.n <= LastTry(f, d) /\ r.slot.n \in 1..Tries
    BY LastType, SlotFacts DEF RowsOfRound, TypeOK, Row
  <1>2. \A r \in RowsOfRound(f, d)' : r.slot.n \in 1..Tries
    BY SlotFacts DEF RowsOfRound, TypeOK, Row
  <1>3. /\ LastTry(f, d)' \in 0..Tries
        /\ \A r \in RowsOfRound(f, d)' : r.slot.n <= LastTry(f, d)'
        /\ LastTry(f, d)' = 0 \/ \E r \in RowsOfRound(f, d)' : r.slot.n = LastTry(f, d)'
    <2> DEFINE S == {0} \cup {r.slot.n : r \in RowsOfRound(f, d)'}
    <2>1. S \in SUBSET (0..Tries) /\ S # {} /\ Tries \in Nat
      BY <1>2, ConstantsAssumption DEF Tries
    <2>2. TopOf(S) \in S /\ \A x \in S : x <= TopOf(S)
      <3> HIDE DEF S
      <3> QED BY <2>1, TopIs
    <2>3. LastTry(f, d)' = TopOf(S)
      BY DEF LastTry
    <2> HIDE DEF LastTry
    <2> QED BY <2>1, <2>2, <2>3
  <1>4. q \in RowsOfRound(f, d)' /\ q.slot.n \in 1..Tries
    BY <1>2
  <1>5. Tries \in Nat
    BY ConstantsAssumption DEF Tries
  <1> QED BY <1>1, <1>3, <1>4, <1>5

-----------------------------------------------------------------------------
(* The steps.                                                                *)

\* What any step does to the runners and the jobs.
StepShape ==
  \/ \E k \in Keys, slot \in Slot : EnqueueStep(k, slot)
  \/ \E k \in Keys, g \in Fetch : ClaimStep(k, g)
  \/ \E r \in Runners, g \in Fetch : FetchStep(r, g)
  \/ \E status \in {"pending", "completed", "failed"} : EndStep(status)
  \/ /\ jobs' = jobs
     /\ \E x \in Fetch \cup {Idle} :
          /\ RunWrite("cli", x)
          /\ x # Idle => x.slot = Unscheduled /\ x.stage = "reserve"
  \/ run' = run /\ jobs' = jobs

LEMMA Shapes ==
  ASSUME TypeOK, KeyFit, [Next]_vars
  PROVE  StepShape
  <1>0. /\ "lane" \in Runners /\ "cli" \in Runners
        /\ \A delay \in 1..Largest(MaxDelay, Interval) : delay \in Nat
        /\ \A delay \in 1..MaxDelay : delay \in Nat
        /\ \A f \in Feeds : <<"round", f>> \in Keys /\ <<"fetch", f>> \in Keys
    BY ConstantsAssumption DEF Runners, Largest, Keys
  <1> USE DEF StepShape
  <1>1. ASSUME NEW f \in Feeds,
               EnqueueRoundTry(f)
        PROVE  StepShape
    BY <1>0, <1>1, RoundShape, SlotFacts
  <1>2. ASSUME NEW f \in Feeds,
               EnqueueDaytime(f)
        PROVE  StepShape
    BY <1>0, <1>2, DaytimeShape
  <1>3. ASSUME NEW f \in Feeds,
               EnqueueAsked(f)
        PROVE  StepShape
    BY <1>0, <1>3, DaytimeShape
  <1>4. ASSUME NEW f \in Feeds,
               Toggle(f)
        PROVE  StepShape
    BY <1>4 DEF Toggle
  <1>5. ASSUME NEW f \in Feeds,
               CliFetch(f)
        PROVE  StepShape
    <2>1. /\ Fresh("reserve", f, Unscheduled) \in Fetch
          /\ Fresh("reserve", f, Unscheduled).slot = Unscheduled
          /\ Fresh("reserve", f, Unscheduled).stage = "reserve"
      BY <1>5, SlotFacts, FreshIs DEF Stages
    <2>2. run' = [run EXCEPT !["cli"] = Fresh("reserve", f, Unscheduled)] /\ jobs' = jobs
      BY <1>5 DEF CliFetch
    <2> QED BY <1>0, <2>1, <2>2, RunSet
  <1>6. ASSUME NEW r \in Runners,
               Reserve(r)
        PROVE  StepShape
    BY <1>6, ReserveShape
  <1>7. ASSUME NEW r \in Runners,
               NotConnected(r)
        PROVE  StepShape
    BY <1>7, CallShape
  <1>8. ASSUME NEW r \in Runners,
               Requested(r)
        PROVE  StepShape
    BY <1>8, CallShape
  <1>9. ASSUME NEW r \in Runners,
               Refund(r)
        PROVE  StepShape
    BY <1>9, CallShape
  <1>10. ASSUME NEW r \in Runners,
               Raise(r)
        PROVE  StepShape
    BY <1>10, CallShape
  <1>11. ASSUME NEW r \in Runners, NEW delay \in 1..MaxDelay,
               RecordBackoff(r, delay)
        PROVE  StepShape
    BY <1>0, <1>11, CallShape
  <1>12. ASSUME NEW r \in Runners, NEW usable \in BOOLEAN, NEW hours \in SUBSET Hours,
               Persist(r, usable, hours)
        PROVE  StepShape
    BY <1>12, CallShape
  <1>13. ASSUME NEW k \in Keys,
               Claim(k)
        PROVE  StepShape
    BY <1>13, ClaimShape
  <1>14. CASE CheckStale
    BY <1>0, <1>14, LaneShape
  <1>15. CASE RecordTry
    BY <1>0, <1>15, LaneShape
  <1>16. CASE Complete
    BY <1>16, EndShape
  <1>17. CASE Defer
    BY <1>17, EndShape
  <1>18. CASE Restart
    BY <1>18, EndShape
  <1>19. ASSUME NEW delay \in 1..Largest(MaxDelay, Interval),
               Fail(delay)
        PROVE  StepShape
    BY <1>0, <1>19, EndShape
  <1>20. CASE CliEnds
    <2>1. run' = [run EXCEPT !["cli"] = Idle] /\ jobs' = jobs
      BY <1>20 DEF CliEnds, OnlyRun
    <2> QED BY <1>0, <2>1, RunSet
  <1>21. CASE Tick
    BY <1>21 DEF Tick
  <1>22. CASE UNCHANGED vars
    BY <1>22 DEF vars
  <1> QED
    BY <1>1, <1>2, <1>3, <1>4, <1>5, <1>6, <1>7, <1>8, <1>9, <1>10, <1>11,
       <1>12, <1>13, <1>14, <1>15, <1>16, <1>17, <1>18, <1>19, <1>20, <1>21, <1>22
    DEF Next, Schedule, Step, JobStep

LEMMA HeldStep ==
  ASSUME TypeOK, KeyFit, StepShape
  PROVE  /\ jobs' \in [Keys -> Job] /\ run' \in [Runners -> Fetch \cup {Idle}]
         /\ Held' /\ KeyFit'
  <1>0. /\ jobs \in [Keys -> Job] /\ run \in [Runners -> Fetch \cup {Idle}] /\ Held
        /\ "lane" \in Runners /\ "cli" \in Runners /\ "lane" # "cli"
    BY DEF TypeOK, Held, Runners
  <1>1. CASE run' = run /\ jobs' = jobs
    BY <1>0, <1>1 DEF Held, KeyFit, IsLive, Mine
  <1>2. ASSUME NEW x \in Fetch \cup {Idle}, RunWrite("cli", x), jobs' = jobs,
               x # Idle => x.slot = Unscheduled
        PROVE  /\ jobs' \in [Keys -> Job] /\ run' \in [Runners -> Fetch \cup {Idle}]
               /\ Held' /\ KeyFit'
    <2>1. run'["lane"] = run["lane"] /\ run'["cli"] = x
      BY <1>0, <1>2 DEF RunWrite
    <2> QED BY <1>0, <1>2, <2>1 DEF RunWrite, Held, KeyFit, IsLive, Mine
  <1>3. ASSUME NEW r \in Runners, NEW g \in Fetch, FetchStep(r, g)
        PROVE  /\ jobs' \in [Keys -> Job] /\ run' \in [Runners -> Fetch \cup {Idle}]
               /\ Held' /\ KeyFit'
    <2>1. PICK x \in {g, Idle} : RunWrite(r, x) /\ (r = "lane" => x = g)
      BY <1>3 DEF FetchStep
    <2>2. /\ jobs' = jobs /\ run[r] # Idle /\ g.feed = run[r].feed /\ g.slot = run[r].slot
          /\ g # Idle
      BY <1>3, IdleIs DEF FetchStep, Later
    <2>3. KeyOf(g) = KeyOf(run[r])
      BY <2>2 DEF KeyOf
    <2>4. run'["lane"] # Idle <=> run["lane"] # Idle
      BY <1>0, <2>1, <2>2 DEF RunWrite
    <2>5. run["lane"] # Idle => /\ KeyOf(run'["lane"]) = KeyOf(run["lane"])
                                /\ run'["lane"].slot = run["lane"].slot
      BY <1>0, <2>1, <2>2, <2>3 DEF RunWrite
    <2>6. run'["cli"] # Idle => run["cli"] # Idle /\ run'["cli"].slot = run["cli"].slot
      BY <1>0, <2>1, <2>2 DEF RunWrite
    <2>7. run' \in [Runners -> Fetch \cup {Idle}]
      BY <2>1 DEF RunWrite
    <2> QED BY <1>0, <2>2, <2>4, <2>5, <2>6, <2>7 DEF Held, KeyFit, IsLive, Mine
  <1>4. ASSUME NEW k \in Keys, NEW slot \in Slot, EnqueueStep(k, slot)
        PROVE  /\ jobs' \in [Keys -> Job] /\ run' \in [Runners -> Fetch \cup {Idle}]
               /\ Held' /\ KeyFit'
    <2>1. /\ run' = run /\ jobs[k].status # "running"
          /\ jobs' \in [Keys -> Job] /\ jobs'[k].status = "pending" /\ jobs'[k].slot = slot
          /\ \A q \in Keys \ {k} : jobs'[q] = jobs[q]
          /\ slot.kind = "round" <=> k[1] = "round"
      BY <1>4 DEF EnqueueStep, JobWrite, IsLive, Live
    <2>2. ASSUME run["lane"] # Idle PROVE Mine \in Keys /\ Mine # k
      BY <2>1, <2>2, MineIs DEF KeyFit
    <2>3. Held'
      BY <1>0, <2>1, <2>2 DEF Held, Mine
    <2>4. KeyFit'
      BY <1>0, <2>1, <2>2 DEF KeyFit, IsLive, Live, Mine
    <2> QED BY <1>0, <2>1, <2>3, <2>4
  <1>5. ASSUME NEW k \in Keys, NEW g \in Fetch, ClaimStep(k, g)
        PROVE  /\ jobs' \in [Keys -> Job] /\ run' \in [Runners -> Fetch \cup {Idle}]
               /\ Held' /\ KeyFit'
    <2>1. /\ run["lane"] = Idle /\ jobs[k].status = "pending"
          /\ jobs' \in [Keys -> Job] /\ jobs'[k].status = "running"
          /\ jobs'[k].slot = jobs[k].slot
          /\ \A q \in Keys \ {k} : jobs'[q] = jobs[q]
          /\ run' \in [Runners -> Fetch \cup {Idle}] /\ run'["lane"] = g
          /\ run'["cli"] = run["cli"]
          /\ g # Idle /\ g.feed = k[2] /\ g.slot = jobs[k].slot
      BY <1>0, <1>5, IdleIs DEF ClaimStep, JobWrite, RunWrite
    <2>2. \A q \in Keys : jobs[q].status # "running"
      BY <2>1 DEF Held, TypeOK
    <2>3. (jobs[k].slot.kind = "round" <=> k[1] = "round") /\ k[1] \in {"round", "fetch"}
          /\ k = <<k[1], k[2]>>
      BY <2>1 DEF KeyFit, IsLive, Live, Keys
    <2>4. KeyOf(g) = k
      BY <2>1, <2>3 DEF KeyOf
    <2>5. Held'
      BY <1>0, <2>1, <2>2, <2>4 DEF Held
    <2>6. KeyFit'
      BY <1>0, <2>1, <2>3, <2>4 DEF KeyFit, IsLive, Live, Mine
    <2> QED BY <2>1, <2>5, <2>6
  <1>6. ASSUME NEW status \in {"pending", "completed", "failed"}, EndStep(status)
        PROVE  /\ jobs' \in [Keys -> Job] /\ run' \in [Runners -> Fetch \cup {Idle}]
               /\ Held' /\ KeyFit'
    <2>1. /\ run["lane"] # Idle
          /\ jobs' \in [Keys -> Job] /\ jobs'[Mine].status = status
          /\ jobs'[Mine].slot = jobs[Mine].slot
          /\ \A q \in Keys \ {Mine} : jobs'[q] = jobs[q]
          /\ run' \in [Runners -> Fetch \cup {Idle}] /\ run'["lane"] = Idle
          /\ run'["cli"] = run["cli"]
      BY <1>0, <1>6 DEF EndStep, JobWrite, RunWrite
    <2>2. /\ Mine \in Keys /\ jobs[Mine].status = "running"
          /\ \A q \in Keys : jobs[q].status = "running" => q = Mine
      BY <2>1, MineIs DEF TypeOK, Mine
    <2>3. \A q \in Keys : jobs'[q].status # "running"
      BY <2>1, <2>2
    <2>4. Held'
      BY <1>0, <2>1, <2>3 DEF Held
    <2>5. \A q \in Keys : jobs'[q].status \in Live =>
            (jobs'[q].slot.kind = "round" <=> q[1] = "round")
      <3>1. ASSUME NEW q \in Keys, jobs'[q].status \in Live
            PROVE  jobs[q].status \in Live /\ jobs'[q].slot = jobs[q].slot
        BY <2>1, <2>2, <3>1 DEF Live
      <3> QED BY <3>1 DEF KeyFit, IsLive
    <2>6. KeyFit'
      BY <1>0, <2>1, <2>5 DEF KeyFit, IsLive
    <2> QED BY <2>1, <2>4, <2>6
  <1> QED BY <1>1, <1>2, <1>3, <1>4, <1>5, <1>6 DEF StepShape

\* TypeOK's conjuncts on what is neither a job, a fetch nor a row.
CounterTypes ==
  /\ clock \in StartAt..MaxTime /\ eligible \in [Feeds -> BOOLEAN]
  /\ calls \in [BillingDays -> Nat] /\ sent \in [BillingDays -> Nat]
  /\ backoff \in Nat /\ upsets \in Nat
  /\ made \in [Feeds \X Days -> Nat] /\ redone \in [Feeds \X Days -> Nat]

LEMMA CounterStep ==
  ASSUME TypeOK, KeyFit, [Next]_vars
  PROVE  CounterTypes'
  <1> USE DEF CounterTypes
  <1>0. /\ clock \in StartAt..MaxTime /\ clock \in Nat /\ MaxTime \in Nat /\ Pages \in Nat
        /\ StartAt \in Nat
        /\ eligible \in [Feeds -> BOOLEAN]
        /\ calls \in [BillingDays -> Nat] /\ sent \in [BillingDays -> Nat]
        /\ backoff \in Nat /\ upsets \in Nat
        /\ made \in [Feeds \X Days -> Nat] /\ redone \in [Feeds \X Days -> Nat]
    BY ConstantsAssumption DEF TypeOK
  <1>1. ASSUME NEW f \in Feeds,
               EnqueueRoundTry(f)
        PROVE  CounterTypes'
    BY <1>0, <1>1 DEF EnqueueRoundTry, Asked, Put
  <1>2. ASSUME NEW f \in Feeds,
               EnqueueDaytime(f)
        PROVE  CounterTypes'
    BY <1>0, <1>2 DEF EnqueueDaytime, Asked, Put
  <1>3. ASSUME NEW f \in Feeds,
               EnqueueAsked(f)
        PROVE  CounterTypes'
    BY <1>0, <1>3 DEF EnqueueAsked, Asked, Put
  <1>4. ASSUME NEW f \in Feeds,
               Toggle(f)
        PROVE  CounterTypes'
    <2>1. eligible' \in [Feeds -> BOOLEAN]
      <3>1. (~eligible[f]) \in BOOLEAN
        BY <1>0
      <3>2. eligible' = [eligible EXCEPT ![f] = ~eligible[f]]
        BY <1>4 DEF Toggle
      <3> QED BY <1>0, <3>1, <3>2, Zenon
    <2> QED BY <1>0, <1>4, <2>1 DEF Toggle
  <1>5. ASSUME NEW f \in Feeds,
               CliFetch(f)
        PROVE  CounterTypes'
    BY <1>0, <1>5 DEF CliFetch
  <1>6. ASSUME NEW r \in Runners,
               Reserve(r)
        PROVE  CounterTypes'
    <2>1. PICK g \in Fetch : Refused(g) \/ Reserved(r, g)
      BY <1>6, ReserveShape
    <2>2. calls' \in [BillingDays -> Nat] /\ made' \in [Feeds \X Days -> Nat]
      BY <1>0, <2>1 DEF Refused, Reserved
    <2> QED BY <1>0, <1>6, <2>2 DEF Reserve
  <1>7. ASSUME NEW r \in Runners,
               NotConnected(r)
        PROVE  CounterTypes'
    BY <1>0, <1>7 DEF NotConnected, OnlyRun
  <1>8. ASSUME NEW r \in Runners,
               Requested(r)
        PROVE  CounterTypes'
    <2>1. sent' = [sent EXCEPT ![run[r].billed] = sent[run[r].billed] + 1]
      BY <1>8 DEF Requested
    <2>2. sent' \in [BillingDays -> Nat]
      <3>1. run[r].billed \in BillingDays => sent[run[r].billed] + 1 \in Nat
        BY <1>0
      <3> QED BY <1>0, <2>1, <3>1, Zenon
    <2> QED BY <1>0, <1>8, <2>2 DEF Requested
  <1>9. ASSUME NEW r \in Runners,
               Refund(r)
        PROVE  CounterTypes'
    <2>1. calls' = [calls EXCEPT ![run[r].billed] =
                                  Largest(0, calls[run[r].billed] - Pages)]
      BY <1>9 DEF Refund, Refunded
    <2>2. \A n \in Nat : Largest(0, n - Pages) \in Nat
      BY <1>0 DEF Largest
    <2>3. calls' \in [BillingDays -> Nat]
      BY <1>0, <2>1, <2>2
    <2> QED BY <1>0, <1>9, <2>3 DEF Refund
  <1>10. ASSUME NEW r \in Runners,
               Raise(r)
        PROVE  CounterTypes'
    BY <1>0, <1>10 DEF Raise, OnlyRun
  <1>11. ASSUME NEW r \in Runners, NEW delay \in 1..MaxDelay,
               RecordBackoff(r, delay)
        PROVE  CounterTypes'
    BY <1>0, <1>11 DEF RecordBackoff
  <1>12. ASSUME NEW r \in Runners, NEW usable \in BOOLEAN, NEW hours \in SUBSET Hours,
               Persist(r, usable, hours)
        PROVE  CounterTypes'
    BY <1>0, <1>12 DEF Persist
  <1>13. ASSUME NEW k \in Keys,
               Claim(k)
        PROVE  CounterTypes'
    BY <1>0, <1>13 DEF Claim
  <1>14. CASE CheckStale
    BY <1>0, <1>14 DEF CheckStale, OnlyRun
  <1>15. CASE RecordTry
    BY <1>0, <1>15 DEF RecordTry
  <1>16. CASE Complete
    BY <1>0, <1>16 DEF Complete, Close
  <1>17. CASE Defer
    BY <1>0, <1>17 DEF Defer, Close
  <1>18. CASE Restart
    <2>1. redone' \in [Feeds \X Days -> Nat]
      <3>1. \/ redone' = redone
            \/ \E q : redone' = [redone EXCEPT ![q] = redone[q] + 1]
        BY <1>18 DEF Restart, Again
      <3> QED BY <1>0, <3>1
    <2> QED BY <1>0, <1>18, <2>1 DEF Restart
  <1>19. ASSUME NEW delay \in 1..Largest(MaxDelay, Interval),
               Fail(delay)
        PROVE  CounterTypes'
    <2>1. redone' \in [Feeds \X Days -> Nat]
      <3>1. \/ redone' = redone
            \/ \E q : redone' = [redone EXCEPT ![q] = redone[q] + 1]
        BY <1>19 DEF Fail, Again
      <3> QED BY <1>0, <3>1
    <2> QED BY <1>0, <1>19, <2>1 DEF Fail, Close
  <1>20. CASE CliEnds
    BY <1>0, <1>20 DEF CliEnds, OnlyRun
  <1>21. CASE Tick
    BY <1>0, <1>21 DEF Tick
  <1>22. CASE UNCHANGED vars
    BY <1>0, <1>22 DEF vars
  <1> QED
    BY <1>1, <1>2, <1>3, <1>4, <1>5, <1>6, <1>7, <1>8, <1>9, <1>10, <1>11,
       <1>12, <1>13, <1>14, <1>15, <1>16, <1>17, <1>18, <1>19, <1>20, <1>21, <1>22
    DEF Next, Schedule, Step, JobStep

\* Rows are numbered from 1.
Numbered == IsFiniteSet(rows) /\ \A q \in rows : q.id <= Cardinality(rows)

AddRow(r, o) ==
  /\ run[r] # Idle /\ o \in Outcomes
  /\ rows' = rows \cup {NewRow(run[r], o)}
  /\ \/ run[r].stage = "persist" /\ o \in {"stored", "no_usable"}
     \/ r = "lane" /\ run[r].stage = "tell" /\ o = run[r].outcome
     \/ r = "lane" /\ run[r].stage = "fail" /\ o = "failed"

\* Values are written for a stored row, the first of its day.
AddValues(r, hours) ==
  /\ AddRow(r, "stored") /\ hours \in SUBSET Hours
  /\ FirstStored(run[r].feed, Day(clock))
  /\ scored' = Scored(run[r].feed, Day(clock), hours)

\* What any step does to the rows and the values.
RowsShape ==
  /\ rows' = rows \/ \E r \in Runners, o \in Outcomes : AddRow(r, o)
  /\ scored' = scored \/ \E r \in Runners, hours \in SUBSET Hours : AddValues(r, hours)

LEMMA RowsMove ==
  ASSUME TypeOK, [Next]_vars
  PROVE  RowsShape
  <1> USE DEF At, RowsShape
  <1>0. /\ {"stored", "no_usable", "failed"} \subseteq Outcomes /\ "lane" \in Runners
        /\ run["lane"] # Idle => run["lane"].outcome \in Outcomes
    BY IdleIs DEF Outcomes, Runners, TypeOK
  <1>1. ASSUME NEW f \in Feeds,
               EnqueueRoundTry(f)
        PROVE  RowsShape
    BY <1>0, <1>1 DEF EnqueueRoundTry, Asked, Put
  <1>2. ASSUME NEW f \in Feeds,
               EnqueueDaytime(f)
        PROVE  RowsShape
    BY <1>0, <1>2 DEF EnqueueDaytime, Asked, Put
  <1>3. ASSUME NEW f \in Feeds,
               EnqueueAsked(f)
        PROVE  RowsShape
    BY <1>0, <1>3 DEF EnqueueAsked, Asked, Put
  <1>4. ASSUME NEW f \in Feeds,
               Toggle(f)
        PROVE  RowsShape
    BY <1>0, <1>4 DEF Toggle
  <1>5. ASSUME NEW f \in Feeds,
               CliFetch(f)
        PROVE  RowsShape
    BY <1>0, <1>5 DEF CliFetch
  <1>6. ASSUME NEW r \in Runners,
               Reserve(r)
        PROVE  RowsShape
    BY <1>0, <1>6 DEF Reserve
  <1>7. ASSUME NEW r \in Runners,
               NotConnected(r)
        PROVE  RowsShape
    BY <1>0, <1>7 DEF NotConnected, OnlyRun
  <1>8. ASSUME NEW r \in Runners,
               Requested(r)
        PROVE  RowsShape
    BY <1>0, <1>8 DEF Requested
  <1>9. ASSUME NEW r \in Runners,
               Refund(r)
        PROVE  RowsShape
    BY <1>0, <1>9 DEF Refund
  <1>10. ASSUME NEW r \in Runners,
               Raise(r)
        PROVE  RowsShape
    BY <1>0, <1>10 DEF Raise, OnlyRun
  <1>11. ASSUME NEW r \in Runners, NEW delay \in 1..MaxDelay,
               RecordBackoff(r, delay)
        PROVE  RowsShape
    BY <1>0, <1>11 DEF RecordBackoff
  <1>12. ASSUME NEW r \in Runners, NEW usable \in BOOLEAN, NEW hours \in SUBSET Hours,
               Persist(r, usable, hours)
        PROVE  RowsShape
    <2>1. /\ usable => AddRow(r, "stored")
          /\ ~usable => AddRow(r, "no_usable")
      BY <1>0, <1>12 DEF Persist, AddRow
    <2>2. CASE usable /\ FirstStored(run[r].feed, Day(clock))
      BY <1>0, <1>12, <2>1, <2>2 DEF Persist, AddValues
    <2>3. CASE ~(usable /\ FirstStored(run[r].feed, Day(clock)))
      BY <1>0, <1>12, <2>1, <2>3 DEF Persist
    <2> QED BY <2>2, <2>3
  <1>13. ASSUME NEW k \in Keys,
               Claim(k)
        PROVE  RowsShape
    BY <1>0, <1>13 DEF Claim
  <1>14. CASE CheckStale
    BY <1>0, <1>14 DEF CheckStale, OnlyRun
  <1>15. CASE RecordTry
    <2>1. AddRow("lane", run["lane"].outcome) /\ scored' = scored
      BY <1>0, <1>15 DEF RecordTry, AddRow
    <2> QED BY <1>0, <1>15, <2>1 DEF RecordTry
  <1>16. CASE Complete
    BY <1>0, <1>16 DEF Complete, Close
  <1>17. CASE Defer
    BY <1>0, <1>17 DEF Defer, Close
  <1>18. CASE Restart
    BY <1>0, <1>18 DEF Restart
  <1>19. ASSUME NEW delay \in 1..Largest(MaxDelay, Interval),
               Fail(delay)
        PROVE  RowsShape
    <2>1. rows' = rows \/ AddRow("lane", "failed")
      BY <1>0, <1>19 DEF Fail, AddRow
    <2> QED BY <1>0, <1>19, <2>1 DEF Fail, Close
  <1>20. CASE CliEnds
    BY <1>0, <1>20 DEF CliEnds, OnlyRun
  <1>21. CASE Tick
    BY <1>0, <1>21 DEF Tick
  <1>22. CASE UNCHANGED vars
    BY <1>0, <1>22 DEF vars
  <1> QED
    BY <1>1, <1>2, <1>3, <1>4, <1>5, <1>6, <1>7, <1>8, <1>9, <1>10, <1>11,
       <1>12, <1>13, <1>14, <1>15, <1>16, <1>17, <1>18, <1>19, <1>20, <1>21, <1>22
    DEF Next, Schedule, Step, JobStep

LEMMA RowIs ==
  ASSUME TypeOK, Numbered, NEW r \in Runners, run[r] # Idle, NEW o \in Outcomes
  PROVE  LET q == NewRow(run[r], o)
         IN  /\ q \in Row /\ q.id = Cardinality(rows) + 1 /\ q.feed = run[r].feed
             /\ q.date = Day(clock) /\ q.slot = run[r].slot /\ q.outcome = o
             /\ q \notin rows
             /\ IsFiniteSet(rows \cup {q})
             /\ Cardinality(rows \cup {q}) = Cardinality(rows) + 1
  <1>1. clock \in Nat /\ clock <= MaxTime
    BY ConstantsAssumption DEF TypeOK
  <1>2. Day(clock) \in Nat /\ Cardinality(rows) \in Nat
    BY <1>1, DayTypes, FS_CardinalityType DEF Numbered, Days
  <1>3. run[r].feed \in Feeds /\ run[r].slot \in Slot /\ run[r].started \in Nat
    BY IdleIs DEF TypeOK
  <1> DEFINE q == NewRow(run[r], o)
  <1>4. /\ q \in Row /\ q.id = Cardinality(rows) + 1 /\ q.feed = run[r].feed
        /\ q.date = Day(clock) /\ q.slot = run[r].slot /\ q.outcome = o
    BY <1>2, <1>3 DEF NewRow, Row
  <1> HIDE DEF q
  <1>5. q \notin rows
    BY <1>2, <1>4 DEF Numbered
  <1>6. IsFiniteSet(rows \cup {q}) /\ Cardinality(rows \cup {q}) = Cardinality(rows) + 1
    BY <1>5, FS_AddElement DEF Numbered
  <1> QED BY <1>4, <1>5, <1>6 DEF q

LEMMA RowsStep ==
  ASSUME TypeOK, Numbered, [Next]_vars
  PROVE  /\ Numbered' /\ \A q \in rows' : q \in Row
         /\ \A v \in scored' : v \in [feed : Feeds, date : Nat, hour : Hours, download : Nat]
  <1>0. Cardinality(rows) \in Nat
    BY FS_CardinalityType DEF Numbered
  <1>1. Numbered' /\ \A q \in rows' : q \in Row
    <2>1. CASE rows' = rows
      BY <2>1 DEF TypeOK, Numbered
    <2>2. ASSUME NEW r \in Runners, NEW o \in Outcomes, AddRow(r, o)
          PROVE  Numbered' /\ \A q \in rows' : q \in Row
      <3>1. rows' = rows \cup {NewRow(run[r], o)} /\ run[r] # Idle
        BY <2>2 DEF AddRow
      <3>2. /\ NewRow(run[r], o) \in Row /\ NewRow(run[r], o).id = Cardinality(rows) + 1
            /\ IsFiniteSet(rows') /\ Cardinality(rows') = Cardinality(rows) + 1
        BY <3>1, RowIs
      <3>3. \A q \in rows : q \in Row /\ q.id \in Nat
        BY DEF TypeOK, Row
      <3>4. \A q \in rows' : q \in Row
        BY <3>1, <3>2, <3>3
      <3>5. \A q \in rows' : q.id <= Cardinality(rows')
        BY <1>0, <3>1, <3>2, <3>3 DEF Numbered
      <3> QED BY <3>2, <3>4, <3>5 DEF Numbered
    <2> QED BY <2>1, <2>2, RowsMove DEF RowsShape
  <1>2. \A v \in scored' : v \in [feed : Feeds, date : Nat, hour : Hours, download : Nat]
    <2>1. CASE scored' = scored
      BY <2>1 DEF TypeOK
    <2>2. ASSUME NEW r \in Runners, NEW hours \in SUBSET Hours, AddValues(r, hours)
          PROVE  \A v \in scored' :
                   v \in [feed : Feeds, date : Nat, hour : Hours, download : Nat]
      <3>1. run[r].feed \in Feeds
        BY <2>2, IdleIs DEF AddValues, AddRow, TypeOK
      <3>2. Day(clock) \in Nat
        BY ConstantsAssumption, DayTypes DEF TypeOK, Days
      <3> QED BY <1>0, <2>2, <3>1, <3>2 DEF AddValues, Scored, Value, TypeOK
    <2> QED BY <2>1, <2>2, RowsMove DEF RowsShape
  <1> QED BY <1>1, <1>2

LEMMA TypeStep ==
  ASSUME TypeOK, KeyFit, Numbered, [Next]_vars
  PROVE  TypeOK' /\ KeyFit' /\ Numbered'
  <1>1. StepShape
    BY Shapes
  <1> QED BY <1>1, HeldStep, CounterStep, RowsStep DEF TypeOK, Held, CounterTypes

-----------------------------------------------------------------------------
(* The budget.                                                               *)

\* What a fetch may still have counted: the pages to come, or the whole
\* reservation while it waits to be returned.
OwedBy(g, d) ==
  CASE g.stage = "call" /\ g.billed = d   -> Pages - g.page + 1
    [] g.stage = "refund" /\ g.billed = d -> Pages
    [] OTHER -> 0

PageFit == \A r \in Runners : run[r].stage = "call" => run[r].page \in 1..Pages

OwedFit ==
  \A d \in BillingDays :
    /\ sent[d] + OwedBy(run["lane"], d) + OwedBy(run["cli"], d) <= calls[d]
    /\ calls[d] <= Limit

LEMMA OwedIs ==
  ASSUME NEW g, NEW d
  PROVE  /\ g.stage = "call" /\ g.billed = d => OwedBy(g, d) = Pages - g.page + 1
         /\ g.stage = "refund" /\ g.billed = d => OwedBy(g, d) = Pages
         /\ g.stage \notin {"call", "refund"} => OwedBy(g, d) = 0
         /\ g.billed # d => OwedBy(g, d) = 0
  BY DEF OwedBy

LEMMA OwedNat ==
  ASSUME TypeOK, PageFit, NEW r \in Runners, NEW d
  PROVE  OwedBy(run[r], d) \in Nat
  <1>1. Pages \in Nat /\ (run[r].stage = "call" => run[r].page \in 1..Pages)
    BY ConstantsAssumption DEF PageFit
  <1>2. run[r].stage = "call" => Pages - run[r].page + 1 \in Nat
    BY <1>1
  <1> QED BY <1>1, <1>2 DEF OwedBy

\* A step that touches neither count and leads no fetch to a call or a refund.
LEMMA BudgetQuiet ==
  ASSUME TypeOK, PageFit, OwedFit, UNCHANGED <<calls, sent>>,
         \A r \in Runners : run'[r] = run[r] \/ run'[r].stage \notin {"call", "refund"}
  PROVE  PageFit' /\ OwedFit'
  <1>1. PageFit'
    BY DEF PageFit
  <1>2. ASSUME NEW d \in BillingDays, NEW r \in Runners
        PROVE  OwedBy(run[r], d) \in Nat /\ OwedBy(run'[r], d) \in {0, OwedBy(run[r], d)}
    BY OwedNat, OwedIs
  <1>3. ASSUME NEW d \in BillingDays
        PROVE  /\ sent'[d] + OwedBy(run'["lane"], d) + OwedBy(run'["cli"], d) <= calls'[d]
               /\ calls'[d] <= Limit
    <2>1. sent[d] \in Nat /\ calls[d] \in Nat /\ "lane" \in Runners /\ "cli" \in Runners
      BY DEF TypeOK, Runners
    <2>2. /\ sent[d] + OwedBy(run["lane"], d) + OwedBy(run["cli"], d) <= calls[d]
          /\ calls[d] <= Limit
      BY DEF OwedFit
    <2> QED BY <1>2, <2>1, <2>2
  <1>4. OwedFit'
    BY <1>3 DEF OwedFit
  <1> QED BY <1>1, <1>4

\* A step of one fetch: the sum moves with that fetch alone.
LEMMA BudgetOne ==
  ASSUME TypeOK, PageFit, OwedFit, NEW r \in Runners, NEW x, RunWrite(r, x),
         x.stage = "call" => x.page \in 1..Pages,
         \A d \in BillingDays :
           /\ OwedBy(x, d) \in Nat /\ sent'[d] \in Nat /\ calls'[d] \in Nat
           /\ sent'[d] + OwedBy(x, d) + calls[d] <= sent[d] + OwedBy(run[r], d) + calls'[d]
           /\ calls'[d] <= Limit
  PROVE  PageFit' /\ OwedFit'
  <1>0. /\ \A q \in Runners \ {r} : run'[q] = run[q]
        /\ run'[r] = x
        /\ Runners = {"lane", "cli"} /\ "lane" # "cli"
    BY DEF RunWrite, Runners
  <1>1. PageFit'
    BY <1>0 DEF PageFit
  <1>2. ASSUME NEW d \in BillingDays
        PROVE  /\ sent'[d] + OwedBy(run'["lane"], d) + OwedBy(run'["cli"], d) <= calls'[d]
               /\ calls'[d] <= Limit
    <2>1. PICK o \in Runners : o # r /\ Runners = {r, o}
      BY <1>0
    <2>2. /\ sent[d] \in Nat /\ calls[d] \in Nat
          /\ OwedBy(run[r], d) \in Nat /\ OwedBy(run[o], d) \in Nat
      BY OwedNat DEF TypeOK
    <2>3. sent[d] + OwedBy(run[r], d) + OwedBy(run[o], d) <= calls[d]
      <3>1. sent[d] + OwedBy(run["lane"], d) + OwedBy(run["cli"], d) <= calls[d]
        BY DEF OwedFit
      <3>2. CASE r = "lane" /\ o = "cli"
        BY <3>1, <3>2
      <3>3. CASE r = "cli" /\ o = "lane"
        BY <2>2, <3>1, <3>3
      <3> QED BY <1>0, <2>1, <3>2, <3>3
    <2>4. /\ OwedBy(x, d) \in Nat /\ sent'[d] \in Nat /\ calls'[d] \in Nat
          /\ sent'[d] + OwedBy(x, d) + calls[d] <= sent[d] + OwedBy(run[r], d) + calls'[d]
          /\ calls'[d] <= Limit
      OBVIOUS
    <2>5. sent'[d] + OwedBy(x, d) + OwedBy(run[o], d) <= calls'[d]
      BY <2>2, <2>3, <2>4
    <2>6. sent'[d] + OwedBy(run'[r], d) + OwedBy(run'[o], d) <= calls'[d]
      BY <1>0, <2>1, <2>5
    <2>7. CASE r = "lane" /\ o = "cli"
      BY <2>4, <2>6, <2>7
    <2>8. CASE r = "cli" /\ o = "lane"
      <3>1. OwedBy(run'["lane"], d) = OwedBy(run[o], d) /\ OwedBy(run'["cli"], d) = OwedBy(x, d)
        BY <1>0, <2>8
      <3> QED BY <2>2, <2>4, <2>5, <3>1
    <2> QED BY <1>0, <2>1, <2>7, <2>8
  <1>3. OwedFit'
    BY <1>2 DEF OwedFit
  <1> QED BY <1>1, <1>3

\* Either the fetch goes on or its command line has ended.
LEMMA StepTo ==
  ASSUME TypeOK, NEW r \in Runners, NEW g \in Fetch, FetchStep(r, g)
  PROVE  \E x \in {g, Idle} : RunWrite(r, x)
  BY DEF FetchStep

LEMMA IdleStage == Idle.stage = "idle"
  BY DEF Idle

LEMMA BudgetStep ==
  ASSUME TypeOK, KeyFit, PageFit, OwedFit, [Next]_vars
  PROVE  PageFit' /\ OwedFit'
  <1>0. /\ "lane" \in Runners /\ "cli" \in Runners
        /\ \A delay \in 1..Largest(MaxDelay, Interval) : delay \in Nat
        /\ \A delay \in 1..MaxDelay : delay \in Nat
        /\ Pages \in Nat \ {0} /\ Limit \in Nat
        /\ \A d \in BillingDays : calls[d] \in Nat /\ sent[d] \in Nat
        /\ calls \in [BillingDays -> Nat] /\ sent \in [BillingDays -> Nat]
    BY ConstantsAssumption DEF Runners, Largest, TypeOK
  <1>1. ASSUME NEW f \in Feeds,
               EnqueueRoundTry(f)
        PROVE  PageFit' /\ OwedFit'
    <2>1. UNCHANGED <<calls, sent>>
      BY <1>1 DEF EnqueueRoundTry, Asked
    <2>2. \A q \in Runners : run'[q] = run[q] \/ run'[q].stage \notin {"call", "refund"}
      BY <1>1 DEF EnqueueRoundTry, Asked
    <2> QED BY <2>1, <2>2, BudgetQuiet
  <1>2. ASSUME NEW f \in Feeds,
               EnqueueDaytime(f)
        PROVE  PageFit' /\ OwedFit'
    <2>1. UNCHANGED <<calls, sent>>
      BY <1>2 DEF EnqueueDaytime, Asked
    <2>2. \A q \in Runners : run'[q] = run[q] \/ run'[q].stage \notin {"call", "refund"}
      BY <1>2 DEF EnqueueDaytime, Asked
    <2> QED BY <2>1, <2>2, BudgetQuiet
  <1>3. ASSUME NEW f \in Feeds,
               EnqueueAsked(f)
        PROVE  PageFit' /\ OwedFit'
    <2>1. UNCHANGED <<calls, sent>>
      BY <1>3 DEF EnqueueAsked, Asked
    <2>2. \A q \in Runners : run'[q] = run[q] \/ run'[q].stage \notin {"call", "refund"}
      BY <1>3 DEF EnqueueAsked, Asked
    <2> QED BY <2>1, <2>2, BudgetQuiet
  <1>4. ASSUME NEW f \in Feeds,
               Toggle(f)
        PROVE  PageFit' /\ OwedFit'
    <2>1. UNCHANGED <<calls, sent>>
      BY <1>4 DEF Toggle
    <2>2. \A q \in Runners : run'[q] = run[q] \/ run'[q].stage \notin {"call", "refund"}
      BY <1>4 DEF Toggle
    <2> QED BY <2>1, <2>2, BudgetQuiet
  <1>5. ASSUME NEW f \in Feeds,
               CliFetch(f)
        PROVE  PageFit' /\ OwedFit'
    <2>1. UNCHANGED <<calls, sent>>
      BY <1>5 DEF CliFetch
    <2>2. \A q \in Runners : run'[q] = run[q] \/ run'[q].stage \notin {"call", "refund"}
      <3>1. Fresh("reserve", f, Unscheduled) \in Fetch /\ Fresh("reserve", f, Unscheduled).stage = "reserve"
        BY <1>5, SlotFacts, FreshIs DEF Stages
      <3>2. RunWrite("cli", Fresh("reserve", f, Unscheduled))
        BY <1>0, <1>5, <3>1, RunSet DEF CliFetch
      <3> QED BY <3>1, <3>2 DEF RunWrite
    <2> QED BY <2>1, <2>2, BudgetQuiet
  <1>6. ASSUME NEW r \in Runners,
               Reserve(r)
        PROVE  PageFit' /\ OwedFit'
    <2>1. PICK g \in Fetch : FetchStep(r, g) /\ (Refused(g) \/ Reserved(r, g))
      BY <1>6, ReserveShape
    <2>2. PICK x \in {g, Idle} : RunWrite(r, x)
      BY <2>1, StepTo
    <2>3. sent' = sent /\ run[r].stage = "reserve"
      BY <1>6 DEF Reserve, At
    <2>4. CASE Refused(g)
      <3>1. calls' = calls /\ x.stage \notin {"call", "refund"}
        BY <2>2, <2>4, IdleStage DEF Refused
      <3> QED BY <2>2, <2>3, <3>1, BudgetQuiet DEF RunWrite
    <2>5. CASE Reserved(r, g)
      <3> DEFINE b == BillingDay(clock)
      <3>1. /\ g.stage = "call" /\ g.billed = b /\ g.page = 1
            /\ calls[b] + Pages <= Limit
            /\ calls' = [calls EXCEPT ![b] = calls[b] + Pages]
        BY <2>5 DEF Reserved
      <3> HIDE DEF b
      <3>2. x.stage = "call" => x.page \in 1..Pages
        BY <1>0, <2>2, <3>1, IdleStage
      <3>3. ASSUME NEW d \in BillingDays
            PROVE  /\ OwedBy(x, d) \in Nat /\ calls'[d] \in Nat /\ calls'[d] <= Limit
                   /\ OwedBy(x, d) + calls[d] <= calls'[d]
        <4>1. x.stage \notin {"call", "refund"} \/ (x = g)
          BY <2>2, IdleStage
        <4>2. CASE d = b
          <5>1. calls'[d] = calls[d] + Pages /\ OwedBy(x, d) \in {0, Pages}
            <6>1. OwedBy(g, d) = Pages - 1 + 1
              BY <3>1, <4>2, OwedIs
            <6> QED BY <1>0, <3>1, <4>1, <4>2, <6>1, OwedIs
          <5> QED BY <1>0, <3>1, <4>2, <5>1
        <4>3. CASE d # b
          <5>1. calls'[d] = calls[d] /\ OwedBy(x, d) = 0
            BY <1>0, <3>1, <4>1, <4>3, OwedIs
          <5> QED BY <1>0, <5>1 DEF OwedFit
        <4> QED BY <4>2, <4>3
      <3>4. \A d \in BillingDays : OwedBy(run[r], d) = 0
        BY <2>3, OwedIs
      <3>5. \A d \in BillingDays :
              /\ OwedBy(x, d) \in Nat /\ sent'[d] \in Nat /\ calls'[d] \in Nat
              /\ sent'[d] + OwedBy(x, d) + calls[d]
                   <= sent[d] + OwedBy(run[r], d) + calls'[d]
              /\ calls'[d] <= Limit
        BY <1>0, <2>3, <3>3, <3>4
      <3> QED BY <2>2, <3>2, <3>5, BudgetOne
    <2> QED BY <2>1, <2>4, <2>5
  <1>7. ASSUME NEW r \in Runners,
               NotConnected(r)
        PROVE  PageFit' /\ OwedFit'
    <2>1. PICK g \in Fetch :
            /\ FetchStep(r, g) /\ Kept(r, g)
            /\ (g.stage = "refund" /\ run[r].page = 1) \/ g.stage = "fail"
      BY <1>7, CallShape
    <2>2. PICK x \in {g, Idle} : RunWrite(r, x)
      BY <2>1, StepTo
    <2>3. /\ calls' = calls /\ sent' = sent /\ run[r].stage = "call"
          /\ run[r].page \in 1..Pages
      BY <1>7 DEF NotConnected, OnlyRun, At, PageFit
    <2>4. /\ x.stage # "call"
          /\ x.stage = "refund" => x.billed = run[r].billed /\ run[r].page = 1
      BY <2>1, <2>2, IdleStage DEF Kept
    <2>5. ASSUME NEW d \in BillingDays
          PROVE  OwedBy(x, d) \in Nat /\ OwedBy(x, d) <= OwedBy(run[r], d)
      <3>1. OwedBy(run[r], d) \in Nat
        BY OwedNat
      <3>2. CASE x.stage = "refund" /\ x.billed = d
        BY <1>0, <2>3, <2>4, <3>2, OwedIs
      <3>3. CASE ~(x.stage = "refund" /\ x.billed = d)
        BY <2>4, <3>1, <3>3, OwedIs
      <3> QED BY <3>2, <3>3
    <2>6. ASSUME NEW d \in BillingDays
          PROVE  /\ OwedBy(x, d) \in Nat /\ sent'[d] \in Nat /\ calls'[d] \in Nat
                /\ sent'[d] + OwedBy(x, d) + calls[d] <= sent[d] + OwedBy(run[r], d) + calls'[d]
                /\ calls'[d] <= Limit
      <3>1. OwedBy(run[r], d) \in Nat /\ calls[d] <= Limit
        BY OwedNat DEF OwedFit
      <3>2. calls[d] \in Nat /\ sent[d] \in Nat /\ Limit \in Nat
        BY <1>0
      <3> QED BY <2>3, <2>5, <3>1, <3>2
    <2> QED BY <2>2, <2>4, <2>6, BudgetOne
  <1>8. ASSUME NEW r \in Runners,
               Requested(r)
        PROVE  PageFit' /\ OwedFit'
    <2>1. PICK g \in Fetch :
            /\ FetchStep(r, g) /\ g.billed = run[r].billed
            /\ \/ g.stage = "call" /\ g.page = run[r].page + 1 /\ run[r].page < Pages
               \/ g.stage \in {"persist", "throttled", "fail"}
      BY <1>8, CallShape
    <2>2. PICK x \in {g, Idle} : RunWrite(r, x)
      BY <2>1, StepTo
    <2>3. /\ calls' = calls /\ sent' = [sent EXCEPT ![run[r].billed] = sent[run[r].billed] + 1]
          /\ run[r].stage = "call" /\ run[r].page \in 1..Pages
      BY <1>8 DEF Requested, At, PageFit
    <2>4. /\ x.stage # "refund"
          /\ x.stage = "call" => /\ x.billed = run[r].billed /\ x.page = run[r].page + 1
                                 /\ run[r].page < Pages
      BY <2>1, <2>2, IdleStage
    <2>5. x.stage = "call" => x.page \in 1..Pages
      BY <1>0, <2>3, <2>4
    <2>6. ASSUME NEW d \in BillingDays
          PROVE  /\ OwedBy(x, d) \in Nat /\ sent'[d] \in Nat
                 /\ sent'[d] + OwedBy(x, d) <= sent[d] + OwedBy(run[r], d)
      <3>1. OwedBy(run[r], d) \in Nat
        BY OwedNat
      <3>2. CASE run[r].billed = d
        <4>1. sent'[d] = sent[d] + 1 /\ OwedBy(run[r], d) = Pages - run[r].page + 1
          BY <1>0, <2>3, <3>2, OwedIs
        <4>2. CASE x.stage = "call"
          <5>1. OwedBy(x, d) = Pages - (run[r].page + 1) + 1
            BY <2>4, <3>2, <4>2, OwedIs
          <5> QED BY <1>0, <2>3, <2>4, <4>1, <4>2, <5>1
        <4>3. CASE x.stage # "call"
          <5>1. OwedBy(x, d) = 0
            BY <2>4, <4>3, OwedIs
          <5> QED BY <1>0, <2>3, <4>1, <5>1
        <4> QED BY <4>2, <4>3
      <3>3. CASE run[r].billed # d
        <4>1. sent'[d] = sent[d]
          BY <1>0, <2>3, <3>3
        <4>2. OwedBy(x, d) = 0
          BY <2>4, <3>3, OwedIs
        <4> QED BY <1>0, <3>1, <4>1, <4>2
      <3> QED BY <3>2, <3>3
    <2>7. ASSUME NEW d \in BillingDays
          PROVE  /\ OwedBy(x, d) \in Nat /\ sent'[d] \in Nat /\ calls'[d] \in Nat
                /\ sent'[d] + OwedBy(x, d) + calls[d] <= sent[d] + OwedBy(run[r], d) + calls'[d]
                /\ calls'[d] <= Limit
      <3>1. OwedBy(run[r], d) \in Nat /\ calls[d] <= Limit
        BY OwedNat DEF OwedFit
      <3>2. calls[d] \in Nat /\ sent[d] \in Nat /\ Limit \in Nat
        BY <1>0
      <3> QED BY <2>3, <2>6, <3>1, <3>2
    <2> QED BY <2>2, <2>5, <2>7, BudgetOne
  <1>9. ASSUME NEW r \in Runners,
               Refund(r)
        PROVE  PageFit' /\ OwedFit'
    <2>1. PICK g \in Fetch : FetchStep(r, g) /\ Kept(r, g) /\ g.stage = "fail"
      BY <1>9, CallShape
    <2>2. PICK x \in {g, Idle} : RunWrite(r, x)
      BY <2>1, StepTo
    <2>3. /\ sent' = sent /\ run[r].stage = "refund"
          /\ calls' = [calls EXCEPT ![run[r].billed] =
                                Largest(0, calls[run[r].billed] - Pages)]
      BY <1>9 DEF Refund, Refunded, At
    <2>4. x.stage \notin {"call", "refund"}
      BY <2>1, <2>2, IdleStage
    <2>5. ASSUME NEW d \in BillingDays
          PROVE  /\ calls'[d] \in Nat /\ calls'[d] <= calls[d]
                 /\ calls[d] <= OwedBy(run[r], d) + calls'[d]
      <3>1. CASE run[r].billed = d
        <4>1. calls'[d] = Largest(0, calls[d] - Pages) /\ OwedBy(run[r], d) = Pages
          BY <1>0, <2>3, <3>1, OwedIs
        <4> QED BY <1>0, <4>1 DEF Largest
      <3>2. CASE run[r].billed # d
        <4>1. calls'[d] = calls[d]
          BY <1>0, <2>3, <3>2
        <4> QED BY <1>0, <4>1, OwedNat
      <3> QED BY <3>1, <3>2
    <2>6. \A d \in BillingDays : OwedBy(x, d) = 0
      BY <2>4, OwedIs
    <2>7. ASSUME NEW d \in BillingDays
          PROVE  /\ OwedBy(x, d) \in Nat /\ sent'[d] \in Nat /\ calls'[d] \in Nat
                /\ sent'[d] + OwedBy(x, d) + calls[d] <= sent[d] + OwedBy(run[r], d) + calls'[d]
                /\ calls'[d] <= Limit
      <3>1. OwedBy(run[r], d) \in Nat /\ calls[d] <= Limit
        BY OwedNat DEF OwedFit
      <3>2. calls[d] \in Nat /\ sent[d] \in Nat /\ Limit \in Nat
        BY <1>0
      <3> QED BY <2>3, <2>5, <2>6, <3>1, <3>2
    <2> QED BY <2>2, <2>4, <2>7, BudgetOne
  <1>10. ASSUME NEW r \in Runners,
               Raise(r)
        PROVE  PageFit' /\ OwedFit'
    <2>1. UNCHANGED <<calls, sent>>
      BY <1>10 DEF Raise, OnlyRun
    <2>2. \A q \in Runners : run'[q] = run[q] \/ run'[q].stage \notin {"call", "refund"}
      <3>1. PICK g \in Fetch : FetchStep(r, g) /\ g.stage \notin {"call", "refund"}
        BY <1>10, CallShape
      <3>2. PICK x \in {g, Idle} : RunWrite(r, x)
        BY <3>1, StepTo
      <3> QED BY <3>1, <3>2, IdleStage DEF RunWrite
    <2> QED BY <2>1, <2>2, BudgetQuiet
  <1>11. ASSUME NEW r \in Runners, NEW delay \in 1..MaxDelay,
               RecordBackoff(r, delay)
        PROVE  PageFit' /\ OwedFit'
    <2>1. UNCHANGED <<calls, sent>>
      BY <1>11 DEF RecordBackoff
    <2>2. \A q \in Runners : run'[q] = run[q] \/ run'[q].stage \notin {"call", "refund"}
      <3>1. PICK g \in Fetch : FetchStep(r, g) /\ g.stage \notin {"call", "refund"}
        BY <1>0, <1>11, CallShape
      <3>2. PICK x \in {g, Idle} : RunWrite(r, x)
        BY <1>0, <3>1, StepTo
      <3> QED BY <3>1, <3>2, IdleStage DEF RunWrite
    <2> QED BY <2>1, <2>2, BudgetQuiet
  <1>12. ASSUME NEW r \in Runners, NEW usable \in BOOLEAN, NEW hours \in SUBSET Hours,
               Persist(r, usable, hours)
        PROVE  PageFit' /\ OwedFit'
    <2>1. UNCHANGED <<calls, sent>>
      BY <1>12 DEF Persist
    <2>2. \A q \in Runners : run'[q] = run[q] \/ run'[q].stage \notin {"call", "refund"}
      <3>1. PICK g \in Fetch : FetchStep(r, g) /\ g.stage \notin {"call", "refund"}
        BY <1>12, CallShape
      <3>2. PICK x \in {g, Idle} : RunWrite(r, x)
        BY <3>1, StepTo
      <3> QED BY <3>1, <3>2, IdleStage DEF RunWrite
    <2> QED BY <2>1, <2>2, BudgetQuiet
  <1>13. ASSUME NEW k \in Keys,
               Claim(k)
        PROVE  PageFit' /\ OwedFit'
    <2>1. UNCHANGED <<calls, sent>>
      BY <1>13 DEF Claim
    <2>2. \A q \in Runners : run'[q] = run[q] \/ run'[q].stage \notin {"call", "refund"}
      <3>1. PICK g \in Fetch : ClaimStep(k, g)
        BY <1>13, ClaimShape
      <3> QED BY <3>1 DEF ClaimStep, RunWrite
    <2> QED BY <2>1, <2>2, BudgetQuiet
  <1>14. CASE CheckStale
    <2>1. UNCHANGED <<calls, sent>>
      BY <1>14 DEF CheckStale, OnlyRun
    <2>2. \A q \in Runners : run'[q] = run[q] \/ run'[q].stage \notin {"call", "refund"}
      <3>1. PICK g \in Fetch : FetchStep("lane", g) /\ g.stage \notin {"call", "refund"}
        BY <1>0, <1>14, LaneShape
      <3>2. PICK x \in {g, Idle} : RunWrite("lane", x)
        BY <1>0, <3>1, StepTo
      <3> QED BY <3>1, <3>2, IdleStage DEF RunWrite
    <2> QED BY <2>1, <2>2, BudgetQuiet
  <1>15. CASE RecordTry
    <2>1. UNCHANGED <<calls, sent>>
      BY <1>15 DEF RecordTry
    <2>2. \A q \in Runners : run'[q] = run[q] \/ run'[q].stage \notin {"call", "refund"}
      <3>1. PICK g \in Fetch : FetchStep("lane", g) /\ g.stage \notin {"call", "refund"}
        BY <1>0, <1>15, LaneShape
      <3>2. PICK x \in {g, Idle} : RunWrite("lane", x)
        BY <1>0, <3>1, StepTo
      <3> QED BY <3>1, <3>2, IdleStage DEF RunWrite
    <2> QED BY <2>1, <2>2, BudgetQuiet
  <1>16. CASE Complete
    <2>1. UNCHANGED <<calls, sent>>
      BY <1>16 DEF Complete, Close
    <2>2. \A q \in Runners : run'[q] = run[q] \/ run'[q].stage \notin {"call", "refund"}
      <3>1. RunWrite("lane", Idle)
        BY <1>16, EndShape DEF EndStep
      <3> QED BY <3>1, IdleStage DEF RunWrite
    <2> QED BY <2>1, <2>2, BudgetQuiet
  <1>17. CASE Defer
    <2>1. UNCHANGED <<calls, sent>>
      BY <1>17 DEF Defer, Close
    <2>2. \A q \in Runners : run'[q] = run[q] \/ run'[q].stage \notin {"call", "refund"}
      <3>1. RunWrite("lane", Idle)
        BY <1>17, EndShape DEF EndStep
      <3> QED BY <3>1, IdleStage DEF RunWrite
    <2> QED BY <2>1, <2>2, BudgetQuiet
  <1>18. CASE Restart
    <2>1. UNCHANGED <<calls, sent>>
      BY <1>18 DEF Restart
    <2>2. \A q \in Runners : run'[q] = run[q] \/ run'[q].stage \notin {"call", "refund"}
      <3>1. RunWrite("lane", Idle)
        BY <1>18, EndShape DEF EndStep
      <3> QED BY <3>1, IdleStage DEF RunWrite
    <2> QED BY <2>1, <2>2, BudgetQuiet
  <1>19. ASSUME NEW delay \in 1..Largest(MaxDelay, Interval),
               Fail(delay)
        PROVE  PageFit' /\ OwedFit'
    <2>1. UNCHANGED <<calls, sent>>
      BY <1>19 DEF Fail, Close
    <2>2. \A q \in Runners : run'[q] = run[q] \/ run'[q].stage \notin {"call", "refund"}
      <3>1. RunWrite("lane", Idle)
        BY <1>0, <1>19, EndShape DEF EndStep
      <3> QED BY <3>1, IdleStage DEF RunWrite
    <2> QED BY <2>1, <2>2, BudgetQuiet
  <1>20. CASE CliEnds
    <2>1. UNCHANGED <<calls, sent>>
      BY <1>20 DEF CliEnds, OnlyRun
    <2>2. \A q \in Runners : run'[q] = run[q] \/ run'[q].stage \notin {"call", "refund"}
      <3>1. RunWrite("cli", Idle)
        BY <1>0, <1>20, RunSet DEF CliEnds
      <3> QED BY <3>1, IdleStage DEF RunWrite
    <2> QED BY <2>1, <2>2, BudgetQuiet
  <1>21. CASE Tick
    <2>1. UNCHANGED <<calls, sent>>
      BY <1>21 DEF Tick
    <2>2. \A q \in Runners : run'[q] = run[q] \/ run'[q].stage \notin {"call", "refund"}
      BY <1>21 DEF Tick
    <2> QED BY <2>1, <2>2, BudgetQuiet
  <1>22. CASE UNCHANGED vars
    <2>1. UNCHANGED <<calls, sent>>
      BY <1>22 DEF vars
    <2>2. \A q \in Runners : run'[q] = run[q] \/ run'[q].stage \notin {"call", "refund"}
      BY <1>22 DEF vars
    <2> QED BY <2>1, <2>2, BudgetQuiet
  <1> QED
    BY <1>1, <1>2, <1>3, <1>4, <1>5, <1>6, <1>7, <1>8, <1>9, <1>10, <1>11,
       <1>12, <1>13, <1>14, <1>15, <1>16, <1>17, <1>18, <1>19, <1>20, <1>21, <1>22
    DEF Next, Schedule, Step, JobStep

-----------------------------------------------------------------------------
(* The round: one stored download, its tries.                                *)

\* A try that may still store is of a round that has not; what is told is a
\* refusal; a round's try does not wait.
LaneFit ==
  LET lane == run["lane"]
  IN  /\ lane.stage \in {"reserve", "call", "persist"} /\ lane.slot.kind = "round" =>
           \A q \in RowsOfRound(lane.feed, lane.slot.date) : q.outcome # "stored"
      /\ \A r \in Runners : run[r].stage = "tell" => run[r].outcome \in Refusals
      /\ lane.stage = "defer" => lane.slot.kind # "round"

Unstored(f, d) == \A q \in RowsOfRound(f, d) : q.outcome # "stored"

\* The steps that add a row: the runner's fetch moves on or, failed, ends.
LEMMA AddRowMoves ==
  ASSUME TypeOK, KeyFit, [Next]_vars
  PROVE  \/ rows' = rows
         \/ \E r \in Runners, o \in Outcomes, g \in Fetch : AddRow(r, o) /\ FetchStep(r, g)
         \/ AddRow("lane", "failed") /\ \E s \in {"pending", "failed"} : EndStep(s)
  <1>0. /\ {"stored", "no_usable", "failed"} \subseteq Outcomes /\ "lane" \in Runners
        /\ run["lane"] # Idle => run["lane"].outcome \in Outcomes
        /\ \A delay \in 1..Largest(MaxDelay, Interval) : delay \in Nat
    BY ConstantsAssumption, IdleIs DEF Outcomes, Runners, TypeOK, Largest
  <1>1. ASSUME NEW r \in Runners, NEW usable \in BOOLEAN, NEW hours \in SUBSET Hours,
               Persist(r, usable, hours)
        PROVE  \E o \in Outcomes, g \in Fetch : AddRow(r, o) /\ FetchStep(r, g)
    <2>1. \E o \in Outcomes : AddRow(r, o)
      BY <1>0, <1>1 DEF Persist, AddRow, At
    <2> QED BY <1>1, <2>1, CallShape
  <1>2. ASSUME RecordTry
        PROVE  \E o \in Outcomes, g \in Fetch : AddRow("lane", o) /\ FetchStep("lane", g)
    <2>1. \E o \in Outcomes : AddRow("lane", o)
      BY <1>0, <1>2 DEF RecordTry, AddRow, At
    <2> QED BY <1>2, <2>1, LaneShape
  <1>3. ASSUME NEW delay \in 1..Largest(MaxDelay, Interval), Fail(delay)
        PROVE  \/ rows' = rows
               \/ AddRow("lane", "failed") /\ \E s \in {"pending", "failed"} : EndStep(s)
    <2>1. rows' = rows \/ AddRow("lane", "failed")
      BY <1>0, <1>3 DEF Fail, AddRow, At
    <2> QED BY <1>0, <1>3, <2>1, EndShape
  <1>4. CASE UNCHANGED vars
    BY <1>4 DEF vars
  <1>5. CASE \E f \in Feeds : Schedule(f) \/ CliFetch(f)
    BY <1>5 DEF Schedule, EnqueueRoundTry, EnqueueDaytime, EnqueueAsked, Asked, Toggle, CliFetch
  <1>6. CASE \E r \in Runners : Step(r)
    <2>1. PICK r \in Runners : Step(r)
      BY <1>6
    <2>2. \/ \E usable \in BOOLEAN, hours \in SUBSET Hours : Persist(r, usable, hours)
          \/ rows' = rows
      BY <2>1 DEF Step, Reserve, NotConnected, OnlyRun, Requested, Refund, Raise, RecordBackoff
    <2> QED BY <1>1, <2>2
  <1>7. CASE JobStep
    <2>1. \/ RecordTry \/ \E delay \in 1..Largest(MaxDelay, Interval) : Fail(delay)
          \/ rows' = rows
      BY <1>7 DEF JobStep, Claim, CheckStale, OnlyRun, Complete, Defer, Restart
    <2> QED BY <1>0, <1>2, <1>3, <2>1
  <1>8. CASE CliEnds \/ Tick
    BY <1>8 DEF CliEnds, OnlyRun, Tick
  <1> QED BY <1>4, <1>5, <1>6, <1>7, <1>8 DEF Next

\* The rows of a round after a row of runner r's fetch.
LEMMA RoundAfter ==
  ASSUME TypeOK, KeyFit, Numbered, NEW r \in Runners, NEW o \in Outcomes, AddRow(r, o),
         NEW f \in Feeds, NEW d \in Days
  PROVE  LET mine == r = "lane" /\ run[r].feed = f /\ run[r].slot.kind = "round"
                     /\ run[r].slot.date = d
         IN  /\ ~mine => RowsOfRound(f, d)' = RowsOfRound(f, d)
             /\ mine => \E q \in Row :
                  /\ RowsOfRound(f, d)' = RowsOfRound(f, d) \cup {q}
                  /\ q.slot.n = run[r].slot.n /\ q.outcome = o
  <1> DEFINE q == NewRow(run[r], o)
  <1>1. rows' = rows \cup {q} /\ run[r] # Idle
    BY DEF AddRow
  <1>2. q \in Row /\ q.feed = run[r].feed /\ q.slot = run[r].slot /\ q.outcome = o
    BY <1>1, RowIs
  <1> HIDE DEF q
  <1>3. r # "lane" => run[r].slot.kind # "round"
    BY <1>1, SlotFacts DEF KeyFit, Runners
  <1> QED BY <1>1, <1>2, <1>3 DEF RowsOfRound

LEMMA LaneFitStep ==
  ASSUME TypeOK, KeyFit, Numbered, LaneFit, [Next]_vars
  PROVE  LaneFit'
  <1>0. /\ StepShape /\ "lane" \in Runners /\ "cli" \in Runners /\ Idle.stage = "idle"
        /\ Runners = {"lane", "cli"}
        /\ run["lane"] # Idle /\ run["lane"].slot.kind = "round" =>
             run["lane"].feed \in Feeds /\ run["lane"].slot.date \in Days
    BY Shapes, IdleIs, SlotFacts DEF Runners, Idle, TypeOK
  <1>1. ASSUME NEW r \in Runners, run'[r].stage = "tell" PROVE run'[r].outcome \in Refusals
    <2>1. CASE run'[r] = run[r]
      BY <1>1, <2>1 DEF LaneFit
    <2>2. ASSUME NEW g \in Fetch, FetchStep(r, g), run'[r] # run[r]
          PROVE  run'[r].outcome \in Refusals
      BY <1>0, <1>1, <2>2 DEF FetchStep, RunWrite
    <2>3. CASE \E q \in Runners, g \in Fetch : q # r /\ FetchStep(q, g)
      BY <2>1, <2>3 DEF FetchStep, RunWrite
    <2>4. CASE \E k \in Keys, g \in Fetch : ClaimStep(k, g)
      BY <1>0, <1>1, <2>1, <2>4 DEF ClaimStep, RunWrite
    <2>5. CASE \E s \in {"pending", "completed", "failed"} : EndStep(s)
      BY <1>0, <1>1, <2>1, <2>5 DEF EndStep, RunWrite
    <2>6. CASE run' = run
      BY <2>1, <2>6
    <2>7. CASE \E x \in Fetch \cup {Idle} : RunWrite("cli", x) /\ (x # Idle => x.stage = "reserve")
      BY <1>0, <1>1, <2>1, <2>7 DEF RunWrite
    <2>8. CASE \E k \in Keys, slot \in Slot : EnqueueStep(k, slot)
      BY <2>6, <2>8 DEF EnqueueStep
    <2> QED BY <1>0, <2>1, <2>2, <2>3, <2>4, <2>5, <2>6, <2>7, <2>8 DEF StepShape
  <1> DEFINE Storing == run'["lane"].stage \in {"reserve", "call", "persist"}
                        /\ run'["lane"].slot.kind = "round"
  <1>2. ASSUME Storing, run'["lane"] = run["lane"], NEW f, NEW d,
               f = run["lane"].feed, d = run["lane"].slot.date
        PROVE  Unstored(f, d)'
    <2>1. f \in Feeds /\ d \in Days /\ run["lane"] # Idle
      BY <1>0, <1>2
    <2>2. Unstored(f, d)
      BY <1>2 DEF LaneFit, Unstored
    <2>3. RowsOfRound(f, d)' = RowsOfRound(f, d)
      <3>1. CASE rows' = rows
        BY <3>1 DEF RowsOfRound
      <3>2. ASSUME NEW r \in Runners, NEW o \in Outcomes, NEW g \in Fetch, AddRow(r, o),
                   FetchStep(r, g), r # "lane"
            PROVE  RowsOfRound(f, d)' = RowsOfRound(f, d)
        BY <2>1, <3>2, RoundAfter
      <3>3. ASSUME NEW o \in Outcomes, NEW g \in Fetch, AddRow("lane", o),
                   FetchStep("lane", g)
            PROVE  FALSE
        <4>1. run'["lane"] = g /\ Onward(run["lane"].stage, g.stage)
          BY <3>3 DEF FetchStep, RunWrite
        <4>2. run["lane"].stage \in {"persist", "tell", "fail"}
          BY <3>3 DEF AddRow
        <4> QED BY <1>2, <4>1, <4>2 DEF Onward
      <3>4. ASSUME NEW s, EndStep(s) PROVE FALSE
        BY <1>0, <1>2, <3>4 DEF EndStep, RunWrite
      <3> QED BY <3>1, <3>2, <3>3, <3>4, AddRowMoves
    <2> QED BY <2>2, <2>3 DEF Unstored
  <1>3. ASSUME Storing, run'["lane"] # run["lane"], NEW f, NEW d,
               f = run'["lane"].feed, d = run'["lane"].slot.date, NEW g \in Fetch, FetchStep("lane", g)
        PROVE  Unstored(f, d)'
    <2>1. /\ run'["lane"] = g /\ Onward(run["lane"].stage, g.stage)
          /\ g.feed = run["lane"].feed /\ g.slot = run["lane"].slot
          /\ run["lane"].stage = "stale" /\ g.stage = "reserve" => ~TryStale(run["lane"])
      BY <1>3 DEF FetchStep, RunWrite, Later
    <2>2. run["lane"].stage \in {"stale", "reserve", "call"}
      BY <1>3, <2>1 DEF Onward
    <2>3. rows' = rows
      <3>1. ASSUME NEW r \in Runners, NEW h \in Fetch, FetchStep(r, h), r # "lane"
            PROVE  FALSE
        BY <1>0, <1>3, <3>1 DEF FetchStep, RunWrite
      <3> QED BY <2>2, <3>1, AddRowMoves DEF AddRow
    <2>4. RowsOfRound(f, d)' = RowsOfRound(f, d)
      BY <2>3 DEF RowsOfRound
    <2>5. Unstored(f, d)
      <3>1. CASE run["lane"].stage = "stale"
        <4>1. ~TryStale(run["lane"])
          BY <1>3, <2>1, <3>1 DEF Onward
        <4> QED BY <1>3, <2>1, <4>1 DEF TryStale, Unstored
      <3>2. CASE run["lane"].stage \in {"reserve", "call"}
        BY <1>3, <2>1, <3>2 DEF LaneFit, Unstored
      <3> QED BY <2>2, <3>1, <3>2
    <2> QED BY <2>4, <2>5 DEF Unstored
  <1>4. ASSUME Storing, run'["lane"] # run["lane"]
        PROVE  \E g \in Fetch : FetchStep("lane", g)
    <2>1. ASSUME NEW k \in Keys, NEW g \in Fetch, ClaimStep(k, g) PROVE FALSE
      <3>1. run'["lane"] = g /\ g.slot = jobs[k].slot
            /\ (g.stage = IF k[1] = "round" THEN "stale" ELSE "reserve")
        BY <2>1 DEF ClaimStep, RunWrite
      <3>2. jobs[k].slot.kind = "round" <=> k[1] = "round"
        BY <2>1 DEF ClaimStep, KeyFit, IsLive, Live
      <3> QED BY <1>4, <3>1, <3>2
    <2>2. ASSUME NEW s, EndStep(s) PROVE FALSE
      BY <1>0, <1>4, <2>2 DEF EndStep, RunWrite
    <2>3. ASSUME NEW r \in Runners, NEW g \in Fetch, FetchStep(r, g), r # "lane" PROVE FALSE
      BY <1>0, <1>4, <2>3 DEF FetchStep, RunWrite
    <2>4. ASSUME NEW x, RunWrite("cli", x) PROVE FALSE
      BY <1>0, <1>4, <2>4 DEF RunWrite
    <2>5. ~\E k \in Keys, slot \in Slot : EnqueueStep(k, slot)
      BY <1>4 DEF EnqueueStep
    <2> QED BY <1>0, <1>4, <2>1, <2>2, <2>3, <2>4, <2>5 DEF StepShape
  <1>5. run'["lane"].stage = "defer" => run'["lane"].slot.kind # "round"
    <2>1. CASE run'["lane"] = run["lane"]
      BY <2>1 DEF LaneFit
    <2>2. ASSUME NEW g \in Fetch, FetchStep("lane", g)
          PROVE  run'["lane"].stage = "defer" => run'["lane"].slot.kind # "round"
      BY <2>2 DEF FetchStep, RunWrite
    <2>3. ASSUME NEW k \in Keys, NEW g \in Fetch, ClaimStep(k, g)
          PROVE  run'["lane"].stage # "defer"
      BY <2>3 DEF ClaimStep, RunWrite
    <2>4. ASSUME NEW s, EndStep(s) PROVE run'["lane"].stage # "defer"
      BY <1>0, <2>4 DEF EndStep, RunWrite
    <2>5. ASSUME NEW r \in Runners, NEW g \in Fetch, FetchStep(r, g), r # "lane"
          PROVE  run'["lane"] = run["lane"]
      BY <1>0, <2>5 DEF FetchStep, RunWrite
    <2>6. ASSUME NEW x, RunWrite("cli", x) PROVE run'["lane"] = run["lane"]
      BY <1>0, <2>6 DEF RunWrite
    <2>7. ASSUME NEW k, NEW slot, EnqueueStep(k, slot) PROVE run'["lane"] = run["lane"]
      BY <2>7 DEF EnqueueStep
    <2> QED BY <1>0, <2>1, <2>2, <2>3, <2>4, <2>5, <2>6, <2>7 DEF StepShape
  <1>6. \A f, d : Storing /\ f = run'["lane"].feed /\ d = run'["lane"].slot.date =>
                  Unstored(f, d)'
    <2> HIDE DEF Storing
    <2> QED BY <1>2, <1>3, <1>4
  <1> QED BY <1>1, <1>5, <1>6 DEF LaneFit, Unstored, RowsOfRound

LEMMA StoredOnceStep ==
  ASSUME TypeOK, KeyFit, Numbered, LaneFit, RoundStoredOnce, [Next]_vars
  PROVE  RoundStoredOnce'
  <1> SUFFICES ASSUME NEW f \in Feeds, NEW d \in Days,
                      NEW p \in RowsOfRound(f, d)', NEW q \in RowsOfRound(f, d)',
                      p.outcome = "stored", q.outcome = "stored"
               PROVE  p = q
    BY DEF RoundStoredOnce
  <1>1. CASE rows' = rows
    BY <1>1 DEF RoundStoredOnce, RowsOfRound
  <1>2. ASSUME NEW r \in Runners, NEW o \in Outcomes, AddRow(r, o)
        PROVE  p = q
    <2> DEFINE mine == r = "lane" /\ run[r].feed = f /\ run[r].slot.kind = "round"
                       /\ run[r].slot.date = d
    <2>1. CASE ~mine
      <3>1. RowsOfRound(f, d)' = RowsOfRound(f, d)
        BY <1>2, <2>1, RoundAfter
      <3> QED BY <3>1 DEF RoundStoredOnce
    <2>2. CASE mine
      <3>1. PICK z \in Row : /\ RowsOfRound(f, d)' = RowsOfRound(f, d) \cup {z}
                             /\ z.outcome = o
        BY <1>2, <2>2, RoundAfter
      <3>2. CASE o = "stored"
        <4>1. run["lane"].stage = "persist"
          BY <1>2, <2>2, <3>2 DEF AddRow, LaneFit, Refusals
        <4>2. \A x \in RowsOfRound(f, d) : x.outcome # "stored"
          BY <2>2, <4>1 DEF LaneFit
        <4> QED BY <3>1, <4>2
      <3>3. CASE o # "stored"
        BY <3>1, <3>3 DEF RoundStoredOnce
      <3> QED BY <3>2, <3>3
    <2> QED BY <2>1, <2>2
  <1> QED BY <1>1, <1>2, RowsMove DEF RowsShape

LEMMA ScoredStep ==
  ASSUME TypeOK, Numbered, ScoredIsFirst, [Next]_vars
  PROVE  ScoredIsFirst'
  <1>0. Cardinality(rows) \in Nat /\ \A q \in rows : q.id \in Nat /\ q.id <= Cardinality(rows)
    BY FS_CardinalityType DEF Numbered, TypeOK, Row
  <1>1. \/ rows' = rows
        \/ \E z \in Row : z.id = Cardinality(rows) + 1 /\ rows' = rows \cup {z}
    BY RowsMove, RowIs DEF RowsShape, AddRow
  <1>2. ASSUME NEW v \in scored
        PROVE  \E r \in StoredOn(v.feed, v.date)' :
                 /\ r.id = v.download
                 /\ \A q \in StoredOn(v.feed, v.date)' : r.id <= q.id
    <2>1. PICK r \in StoredOn(v.feed, v.date) :
            r.id = v.download /\ \A q \in StoredOn(v.feed, v.date) : r.id <= q.id
      BY DEF ScoredIsFirst
    <2>2. r \in StoredOn(v.feed, v.date)'
      BY <1>1, <2>1 DEF StoredOn
    <2>3. \A q \in StoredOn(v.feed, v.date)' : r.id <= q.id
      <3>1. r \in rows
        BY <2>1 DEF StoredOn
      <3>2. ASSUME NEW q \in StoredOn(v.feed, v.date)', q \notin rows PROVE r.id <= q.id
        BY <1>0, <1>1, <3>1, <3>2 DEF StoredOn
      <3>3. ASSUME NEW q \in StoredOn(v.feed, v.date)', q \in rows PROVE r.id <= q.id
        BY <2>1, <3>3 DEF StoredOn
      <3> QED BY <3>2, <3>3
    <2> QED BY <2>1, <2>2, <2>3
  <1>3. ASSUME NEW r \in Runners, NEW hours \in SUBSET Hours, AddValues(r, hours),
               NEW v \in scored', v \notin scored
        PROVE  \E p \in StoredOn(v.feed, v.date)' :
                 /\ p.id = v.download
                 /\ \A q \in StoredOn(v.feed, v.date)' : p.id <= q.id
    <2> DEFINE f == run[r].feed
               z == NewRow(run[r], "stored")
    <2>1. /\ rows' = rows \cup {z} /\ run[r] # Idle
          /\ FirstStored(f, Day(clock)) /\ scored' = Scored(f, Day(clock), hours)
      BY <1>3 DEF AddValues, AddRow
    <2>2. "stored" \in Outcomes
      BY DEF Outcomes
    <2>3. /\ z.id = Cardinality(rows) + 1 /\ z.feed = f /\ z.date = Day(clock)
          /\ z.outcome = "stored"
      BY <2>1, <2>2, RowIs
    <2> HIDE DEF z
    <2>4. v.feed = f /\ v.date = Day(clock) /\ v.download = Cardinality(rows) + 1
      BY <1>3, <2>1 DEF Scored, Value
    <2>5. StoredOn(v.feed, v.date) = {}
      BY <2>1, <2>4 DEF FirstStored
    <2>6. \A q \in rows' : q.feed = v.feed /\ q.date = v.date /\ q.outcome = "stored" => q = z
      BY <2>1, <2>5 DEF StoredOn
    <2>7. z \in rows' /\ z.feed = v.feed /\ z.date = v.date
      BY <2>1, <2>3, <2>4
    <2> QED BY <1>0, <2>3, <2>4, <2>6, <2>7 DEF StoredOn
  <1>4. \A v \in scored' : \E r \in StoredOn(v.feed, v.date)' :
          /\ r.id = v.download
          /\ \A q \in StoredOn(v.feed, v.date)' : r.id <= q.id
    BY <1>2, <1>3, RowsMove DEF RowsShape
  <1> QED BY <1>4 DEF ScoredIsFirst, StoredOn

-----------------------------------------------------------------------------
(* A round's tries.                                                          *)

OnRound(f, d) == IsLive(<<"round", f>>) /\ jobs[<<"round", f>>].slot.date = d

\* The reservations a round may have made, interruptions apart: the tries before
\* the one in hand; with it, from its reservation on; those with a row, when none
\* is in hand or it is over.
Allowed(f, d) ==
  LET j == jobs[<<"round", f>>]
      stage == run["lane"].stage
  IN  CASE ~OnRound(f, d) -> LastTry(f, d)
        [] OnRound(f, d) /\ (j.status = "pending" \/ stage \in {"stale", "reserve"}) ->
             j.slot.n - 1
        [] OnRound(f, d) /\ j.status = "running" /\ stage \in {"complete", "cancel"} ->
             LastTry(f, d)
        [] OTHER -> j.slot.n

\* The try in hand is the next one, or has its row; the reservations fit.
Due(f, d) ==
  OnRound(f, d) => /\ jobs[<<"round", f>>].slot.n - 1 <= LastTry(f, d)
                   /\ LastTry(f, d) <= jobs[<<"round", f>>].slot.n
TriesFit ==
  \A f \in Feeds, d \in Days :
    Due(f, d) /\ made[<<f, d>>] <= redone[<<f, d>>] + Allowed(f, d)

\* The round's job of feed f, the try in hand n, when there is one.
LEMMA RoundJob ==
  ASSUME TypeOK, KeyFit, NEW f \in Feeds, NEW d \in Days
  PROVE  /\ OnRound(f, d) => jobs[<<"round", f>>].slot.n \in 1..Tries
         /\ jobs[<<"round", f>>].status \in {"none", "pending", "running", "completed", "failed"}
         /\ jobs[<<"round", f>>].status = "running" =>
              /\ run["lane"] # Idle /\ Mine = <<"round", f>> /\ run["lane"].feed = f
              /\ run["lane"].slot = jobs[<<"round", f>>].slot
              /\ run["lane"].slot.kind = "round"
         /\ LastTry(f, d) \in 0..Tries /\ Tries \in Nat
         /\ made[<<f, d>>] \in Nat /\ redone[<<f, d>>] \in Nat
  <1> DEFINE k == <<"round", f>>
  <1>1. k \in Keys /\ k[1] = "round" /\ k[2] = f
    BY DEF Keys
  <1>2. jobs[k] \in Job
    BY <1>1 DEF TypeOK
  <1>3. jobs[k].slot \in Slot /\ jobs[k].status \in {"none", "pending", "running", "completed", "failed"}
    BY <1>2 DEF Job, Live
  <1>4. OnRound(f, d) => jobs[k].slot.n \in 1..Tries
    BY <1>1, <1>3, SlotFacts DEF OnRound, KeyFit
  <1>5. ASSUME jobs[k].status = "running"
        PROVE  /\ run["lane"] # Idle /\ Mine = k /\ run["lane"].feed = f
               /\ run["lane"].slot = jobs[k].slot /\ run["lane"].slot.kind = "round"
    <2>1. run["lane"] # Idle /\ Mine = k /\ run["lane"].slot = jobs[k].slot
      BY <1>1, <1>5 DEF TypeOK, Mine
    <2>2. run["lane"].slot.kind = "round"
      BY <1>1, <1>5, <2>1 DEF KeyFit, IsLive, Live
    <2> QED BY <1>1, <2>1, <2>2, MineIs
  <1>6. /\ LastTry(f, d) \in 0..Tries /\ Tries \in Nat
        /\ made[<<f, d>>] \in Nat /\ redone[<<f, d>>] \in Nat
    BY LastType, ConstantsAssumption DEF Tries, TypeOK
  <1> QED BY <1>3, <1>4, <1>5, <1>6

LEMMA AllowedIs ==
  ASSUME NEW f, NEW d, NEW j, j = jobs[<<"round", f>>]
  PROVE  /\ ~OnRound(f, d) => Allowed(f, d) = LastTry(f, d)
         /\ OnRound(f, d) /\ j.status = "pending" => Allowed(f, d) = j.slot.n - 1
         /\ OnRound(f, d) /\ run["lane"].stage \in {"stale", "reserve"} =>
              Allowed(f, d) = j.slot.n - 1
         /\ OnRound(f, d) /\ j.status = "running" /\ run["lane"].stage \in {"complete", "cancel"} =>
              Allowed(f, d) = LastTry(f, d)
         /\ OnRound(f, d) /\ j.status = "running"
              /\ run["lane"].stage \notin {"stale", "reserve", "complete", "cancel"} =>
              Allowed(f, d) = j.slot.n
  BY DEF Allowed

LEMMA AllowedNext ==
  ASSUME NEW f, NEW d, NEW j, j = jobs'[<<"round", f>>]
  PROVE  /\ OnRound(f, d)' <=> j.status \in Live /\ j.slot.date = d
         /\ ~OnRound(f, d)' => Allowed(f, d)' = LastTry(f, d)'
         /\ OnRound(f, d)' /\ j.status = "pending" => Allowed(f, d)' = j.slot.n - 1
         /\ OnRound(f, d)' /\ run'["lane"].stage \in {"stale", "reserve"} =>
              Allowed(f, d)' = j.slot.n - 1
         /\ OnRound(f, d)' /\ j.status = "running" /\ run'["lane"].stage \in {"complete", "cancel"} =>
              Allowed(f, d)' = LastTry(f, d)'
         /\ OnRound(f, d)' /\ j.status = "running"
              /\ run'["lane"].stage \notin {"stale", "reserve", "complete", "cancel"} =>
              Allowed(f, d)' = j.slot.n
  BY DEF Allowed, OnRound, IsLive

TryFit(f, d) == Due(f, d) /\ made[<<f, d>>] <= redone[<<f, d>>] + Allowed(f, d)

\* A step that leaves the round's counts, rows and job alone.
LEMMA TriesSame ==
  ASSUME NEW f, NEW d, TryFit(f, d), made'[<<f, d>>] = made[<<f, d>>],
         redone'[<<f, d>>] = redone[<<f, d>>],
         RowsOfRound(f, d)' = RowsOfRound(f, d),
         \/ /\ jobs'[<<"round", f>>] = jobs[<<"round", f>>]
            /\ OnRound(f, d) /\ jobs[<<"round", f>>].status = "running" =>
                 run'["lane"].stage = run["lane"].stage
         \/ ~OnRound(f, d) /\ ~OnRound(f, d)'
  PROVE  TryFit(f, d)'
  <1>0. LastTry(f, d)' = LastTry(f, d)
    BY LastSame
  <1>1. CASE ~OnRound(f, d) /\ ~OnRound(f, d)'
    BY <1>0, <1>1, AllowedIs, AllowedNext DEF TryFit, Due
  <1>2. CASE jobs'[<<"round", f>>] = jobs[<<"round", f>>] /\ OnRound(f, d)
    <2> DEFINE j == jobs[<<"round", f>>]
    <2>1. OnRound(f, d)' /\ j.status \in {"pending", "running"}
      BY <1>2 DEF OnRound, IsLive, Live
    <2>2. Allowed(f, d)' = Allowed(f, d)
      <3>1. CASE j.status = "pending"
        BY <1>2, <2>1, <3>1, AllowedIs, AllowedNext
      <3>2. CASE j.status = "running"
        <4>1. run'["lane"].stage = run["lane"].stage
          BY <1>2, <3>2 DEF OnRound
        <4> QED BY <1>0, <1>2, <2>1, <3>2, <4>1, AllowedIs, AllowedNext
      <3> QED BY <2>1, <3>1, <3>2
    <2> QED BY <1>0, <1>2, <2>1, <2>2 DEF TryFit, Due
  <1>3. CASE jobs'[<<"round", f>>] = jobs[<<"round", f>>] /\ ~OnRound(f, d)
    <2>1. ~OnRound(f, d)'
      BY <1>3 DEF OnRound, IsLive
    <2> QED BY <1>1, <1>3, <2>1
  <1> QED BY <1>1, <1>2, <1>3

\* The lane has a try of this round.
OnLane(f, d) ==
  /\ run["lane"] # Idle /\ run["lane"].feed = f
  /\ run["lane"].slot.kind = "round" /\ run["lane"].slot.date = d

\* A step elsewhere leaves the round's counts and rows alone.
LEMMA CountsElse ==
  ASSUME TypeOK, KeyFit, Numbered, NEW f \in Feeds, NEW d \in Days, ~OnLane(f, d),
         [Next]_vars
  PROVE  /\ made'[<<f, d>>] = made[<<f, d>>] /\ redone'[<<f, d>>] = redone[<<f, d>>]
         /\ RowsOfRound(f, d)' = RowsOfRound(f, d)
  <1>0. /\ made \in [Feeds \X Days -> Nat] /\ redone \in [Feeds \X Days -> Nat]
        /\ "lane" \in Runners /\ Runners = {"lane", "cli"} /\ <<f, d>> \in Feeds \X Days
        /\ run["cli"] # Idle => run["cli"].slot.kind # "round"
    BY SlotFacts DEF TypeOK, Runners, KeyFit
  <1>1. RowsOfRound(f, d)' = RowsOfRound(f, d)
    <2>1. CASE rows' = rows
      BY <2>1 DEF RowsOfRound
    <2>2. ASSUME NEW r \in Runners, NEW o \in Outcomes, AddRow(r, o)
          PROVE  RowsOfRound(f, d)' = RowsOfRound(f, d)
      <3>1. run[r] # Idle
        BY <2>2 DEF AddRow
      <3> QED BY <2>2, <3>1, RoundAfter DEF OnLane
    <2> QED BY <2>1, <2>2, RowsMove DEF RowsShape
  <1>2. made'[<<f, d>>] = made[<<f, d>>]
    <2>1. ASSUME NEW r \in Runners, Reserve(r) PROVE made'[<<f, d>>] = made[<<f, d>>]
      <3>1. run[r] # Idle
        BY <2>1 DEF Reserve, At
      <3>2. \/ made' = made
            \/ /\ run[r].slot.kind = "round"
               /\ made' = [made EXCEPT ![<<run[r].feed, run[r].slot.date>>] =
                                   made[<<run[r].feed, run[r].slot.date>>] + 1]
        BY <2>1, ReserveShape DEF Refused, Reserved
      <3> QED BY <1>0, <3>1, <3>2 DEF OnLane
    <2>2. ASSUME ~\E r \in Runners : Reserve(r) PROVE made' = made
      <3>1. CASE \E g \in Feeds : Schedule(g) \/ CliFetch(g)
        BY <3>1 DEF Schedule, EnqueueRoundTry, EnqueueDaytime, EnqueueAsked, Asked, Toggle,
                    CliFetch
      <3>2. CASE \E r \in Runners : Step(r)
        BY <2>2, <3>2 DEF Step, NotConnected, OnlyRun, Requested, Refund, Raise, RecordBackoff,
                          Persist
      <3>3. CASE JobStep
        BY <3>3 DEF JobStep, Claim, CheckStale, OnlyRun, RecordTry, Complete, Defer, Close,
                    Restart, Fail
      <3>4. CASE CliEnds \/ Tick \/ UNCHANGED vars
        BY <3>4 DEF CliEnds, OnlyRun, Tick, vars
      <3> QED BY <3>1, <3>2, <3>3, <3>4 DEF Next
    <2> QED BY <2>1, <2>2
  <1>3. redone'[<<f, d>>] = redone[<<f, d>>]
    <2>1. \/ redone' = redone
          \/ run["lane"] # Idle /\ Again(run["lane"])
      <3>1. CASE \E g \in Feeds : Schedule(g) \/ CliFetch(g)
        BY <3>1 DEF Schedule, EnqueueRoundTry, EnqueueDaytime, EnqueueAsked, Asked, Toggle,
                    CliFetch
      <3>2. CASE \E r \in Runners : Step(r)
        BY <3>2 DEF Step, Reserve, NotConnected, OnlyRun, Requested, Refund, Raise,
                    RecordBackoff, Persist
      <3>3. CASE JobStep
        BY <3>3 DEF JobStep, Claim, CheckStale, OnlyRun, RecordTry, Complete, Defer,
                    Restart, Fail, At
      <3>4. CASE CliEnds \/ Tick \/ UNCHANGED vars
        BY <3>4 DEF CliEnds, OnlyRun, Tick, vars
      <3> QED BY <3>1, <3>2, <3>3, <3>4 DEF Next
    <2>2. \/ redone' = redone
          \/ /\ run["lane"] # Idle /\ run["lane"].slot.kind = "round"
             /\ redone' = [redone EXCEPT ![<<run["lane"].feed, run["lane"].slot.date>>] =
                                redone[<<run["lane"].feed, run["lane"].slot.date>>] + 1]
      BY <2>1 DEF Again
    <2> QED BY <1>0, <2>2 DEF OnLane
  <1> QED BY <1>1, <1>2, <1>3

LEMMA TriesElse ==
  ASSUME TypeOK, KeyFit, Numbered, NEW f \in Feeds, NEW d \in Days, ~OnLane(f, d),
         TryFit(f, d), [Next]_vars
  PROVE  TryFit(f, d)'
  <1> DEFINE k == <<"round", f>>
  <1>0. /\ made'[<<f, d>>] = made[<<f, d>>] /\ redone'[<<f, d>>] = redone[<<f, d>>]
        /\ RowsOfRound(f, d)' = RowsOfRound(f, d) /\ LastTry(f, d)' = LastTry(f, d)
        /\ k \in Keys /\ StepShape
    BY CountsElse, LastSame, Shapes DEF Keys
  <1>1. OnRound(f, d) => jobs[k].status = "pending"
    BY RoundJob DEF OnLane, OnRound, IsLive, Live
  <1>2. CASE jobs'[k] = jobs[k]
    <2>1. jobs[k].status = "pending" => jobs[k].status # "running"
      OBVIOUS
    <2> QED BY <1>0, <1>1, <1>2, <2>1, TriesSame
  <1>3. ASSUME NEW slot \in Slot, EnqueueStep(k, slot)
        PROVE  TryFit(f, d)'
    <2>1. /\ ~OnRound(f, d) /\ jobs'[k].slot = slot /\ jobs'[k].status = "pending"
          /\ slot.n = LastTry(f, slot.date) + 1
      BY <1>3 DEF EnqueueStep, OnRound, JobWrite
    <2>2. CASE slot.date = d
      <3>1. OnRound(f, d)'
        BY <2>1, <2>2 DEF OnRound, IsLive, Live
      <3>2. Allowed(f, d)' = slot.n - 1 /\ Allowed(f, d) = LastTry(f, d)
        BY <2>1, <3>1, AllowedIs, AllowedNext
      <3>3. LastTry(f, d) \in 0..Tries /\ Tries \in Nat
        BY RoundJob, Zenon
      <3> QED BY <1>0, <2>1, <2>2, <3>2, <3>3 DEF TryFit, Due
    <2>3. CASE slot.date # d
      <3>1. ~OnRound(f, d)'
        BY <2>1, <2>3 DEF OnRound
      <3> QED BY <1>0, <2>1, <3>1, TriesSame
    <2> QED BY <2>2, <2>3
  <1>4. ASSUME NEW g \in Fetch, ClaimStep(k, g)
        PROVE  TryFit(f, d)'
    <2>1. /\ jobs[k].status = "pending" /\ jobs'[k].status = "running"
          /\ jobs'[k].slot = jobs[k].slot /\ run'["lane"].stage = "stale"
      BY <1>4 DEF ClaimStep, JobWrite, RunWrite
    <2>2. CASE OnRound(f, d)
      <3>1. OnRound(f, d)'
        BY <2>1, <2>2 DEF OnRound, IsLive, Live
      <3>2. Allowed(f, d)' = jobs[k].slot.n - 1 /\ Allowed(f, d) = jobs[k].slot.n - 1
        BY <2>1, <2>2, <3>1, AllowedIs, AllowedNext
      <3> QED BY <1>0, <2>1, <2>2, <3>2 DEF TryFit, Due
    <2>3. CASE ~OnRound(f, d)
      <3>1. ~OnRound(f, d)'
        BY <2>1, <2>3 DEF OnRound, IsLive, Live
      <3> QED BY <1>0, <2>3, <3>1, TriesSame
    <2> QED BY <2>2, <2>3
  <1>5. ASSUME NEW s, EndStep(s), Mine = k
        PROVE  TryFit(f, d)'
    <2>1. jobs[k].status = "running" /\ jobs'[k].slot = jobs[k].slot
      BY <1>5, MineIs DEF EndStep, JobWrite
    <2>2. ~OnRound(f, d) /\ ~OnRound(f, d)'
      BY <1>1, <2>1 DEF OnRound, IsLive, Live
    <2> QED BY <1>0, <2>2, TriesSame
  <1>6. CASE jobs'[k] # jobs[k]
    <2>1. \/ \E slot \in Slot : EnqueueStep(k, slot)
          \/ \E g \in Fetch : ClaimStep(k, g)
          \/ \E s : EndStep(s) /\ Mine = k
      BY <1>0, <1>6 DEF StepShape, EnqueueStep, ClaimStep, EndStep, FetchStep, JobWrite
    <2> QED BY <1>3, <1>4, <1>5, <2>1
  <1> QED BY <1>2, <1>6

\* What is left to a try by its stage.
Quota(stage, n, last) ==
  CASE stage \in {"stale", "reserve"} -> n - 1
    [] stage \in {"complete", "cancel"} -> last
    [] OTHER -> n

LEMMA QuotaIs ==
  ASSUME NEW stage, NEW n, NEW last
  PROVE  /\ stage \in {"stale", "reserve"} => Quota(stage, n, last) = n - 1
         /\ stage \in {"complete", "cancel"} => Quota(stage, n, last) = last
         /\ stage \notin {"stale", "reserve", "complete", "cancel"} => Quota(stage, n, last) = n
  BY DEF Quota

LEMMA LaneQuota ==
  ASSUME TypeOK, KeyFit, NEW f \in Feeds, NEW d \in Days, OnLane(f, d), TryFit(f, d),
         NEW n, n = run["lane"].slot.n
  PROVE  /\ n \in 1..Tries /\ Tries \in Nat /\ LastTry(f, d) \in 0..Tries
         /\ n - 1 <= LastTry(f, d) /\ LastTry(f, d) <= n
         /\ made[<<f, d>>] \in Nat /\ redone[<<f, d>>] \in Nat
         /\ made[<<f, d>>] <= redone[<<f, d>>] + Quota(run["lane"].stage, n, LastTry(f, d))
         /\ Mine = <<"round", f>> /\ jobs[Mine].status = "running"
         /\ jobs[Mine].slot = run["lane"].slot
  <1> DEFINE k == <<"round", f>>
  <1>1. Mine = k
    BY DEF OnLane, Mine, KeyOf
  <1>2. jobs[k].status = "running" /\ jobs[k].slot = run["lane"].slot /\ k \in Keys
    BY <1>1, MineIs DEF OnLane
  <1>3. OnRound(f, d)
    BY <1>2 DEF OnLane, OnRound, IsLive, Live
  <1>4. Allowed(f, d) = Quota(run["lane"].stage, n, LastTry(f, d))
    <2>1. CASE run["lane"].stage \in {"stale", "reserve"}
      BY <1>2, <1>3, <2>1, AllowedIs, QuotaIs
    <2>2. CASE run["lane"].stage \in {"complete", "cancel"}
      BY <1>2, <1>3, <2>2, AllowedIs, QuotaIs
    <2>3. CASE run["lane"].stage \notin {"stale", "reserve", "complete", "cancel"}
      BY <1>2, <1>3, <2>3, AllowedIs, QuotaIs
    <2> QED BY <2>1, <2>2, <2>3
  <1>5. /\ n \in 1..Tries /\ Tries \in Nat /\ LastTry(f, d) \in 0..Tries
        /\ made[<<f, d>>] \in Nat /\ redone[<<f, d>>] \in Nat
    BY <1>2, <1>3, RoundJob
  <1> QED BY <1>1, <1>2, <1>3, <1>4, <1>5 DEF TryFit, Due

\* The lane's try moves on within its quota.
LEMMA LaneGoes ==
  ASSUME TypeOK, KeyFit, NEW f \in Feeds, NEW d \in Days, OnLane(f, d), TryFit(f, d),
         NEW g \in Fetch, FetchStep("lane", g), NEW n, n = run["lane"].slot.n,
         n - 1 <= LastTry(f, d)', LastTry(f, d)' <= n,
         made'[<<f, d>>] <= redone'[<<f, d>>] + Quota(g.stage, n, LastTry(f, d)')
  PROVE  TryFit(f, d)'
  <1> DEFINE k == <<"round", f>>
  <1>1. /\ Mine = k /\ jobs[k].status = "running" /\ jobs[k].slot = run["lane"].slot
    BY LaneQuota
  <1>2. run'["lane"].stage = g.stage /\ jobs'[k] = jobs[k]
    BY DEF FetchStep, RunWrite
  <1>3. OnRound(f, d)'
    BY <1>1, <1>2 DEF OnLane, OnRound, IsLive, Live
  <1>4. Allowed(f, d)' = Quota(g.stage, n, LastTry(f, d)')
    <2>1. CASE g.stage \in {"stale", "reserve"}
      BY <1>1, <1>2, <1>3, <2>1, AllowedNext, QuotaIs
    <2>2. CASE g.stage \in {"complete", "cancel"}
      BY <1>1, <1>2, <1>3, <2>2, AllowedNext, QuotaIs
    <2>3. CASE g.stage \notin {"stale", "reserve", "complete", "cancel"}
      BY <1>1, <1>2, <1>3, <2>3, AllowedNext, QuotaIs
    <2> QED BY <2>1, <2>2, <2>3
  <1> QED BY <1>1, <1>2, <1>4 DEF TryFit, Due

\* The lane's try ends: its job waits again, or is over.
LEMMA LaneEnds ==
  ASSUME TypeOK, KeyFit, NEW f \in Feeds, NEW d \in Days, OnLane(f, d), TryFit(f, d),
         NEW s, EndStep(s), NEW n, n = run["lane"].slot.n,
         n - 1 <= LastTry(f, d)', LastTry(f, d)' <= n,
         made'[<<f, d>>] <=
           redone'[<<f, d>>] + (IF s = "pending" THEN n - 1 ELSE LastTry(f, d)')
  PROVE  TryFit(f, d)'
  <1> DEFINE k == <<"round", f>>
  <1>1. /\ Mine = k /\ jobs[k].status = "running" /\ jobs[k].slot = run["lane"].slot
    BY LaneQuota
  <1>2. jobs'[k].status = s /\ jobs'[k].slot = jobs[k].slot
        /\ s \in {"pending", "completed", "failed"}
    BY <1>1 DEF EndStep, JobWrite
  <1>3. CASE s = "pending"
    <2>1. OnRound(f, d)'
      BY <1>1, <1>2, <1>3 DEF OnLane, OnRound, IsLive, Live
    <2>2. Allowed(f, d)' = n - 1
      BY <1>1, <1>2, <1>3, <2>1, AllowedNext
    <2> QED BY <1>1, <1>2, <1>3, <2>2 DEF TryFit, Due
  <1>4. CASE s # "pending"
    <2>1. ~OnRound(f, d)'
      BY <1>2, <1>4 DEF OnRound, IsLive, Live
    <2>2. Allowed(f, d)' = LastTry(f, d)'
      BY <2>1, AllowedNext
    <2> QED BY <1>4, <2>1, <2>2 DEF TryFit, Due
  <1> QED BY <1>3, <1>4

\* The round's last try after the lane's row, or without one.
LEMMA LaneLast ==
  ASSUME TypeOK, TypeOK', KeyFit, Numbered, NEW f \in Feeds, NEW d \in Days, OnLane(f, d),
         TryFit(f, d), NEW n, n = run["lane"].slot.n
  PROVE  /\ rows' = rows => LastTry(f, d)' = LastTry(f, d)
         /\ \A o \in Outcomes : AddRow("lane", o) => LastTry(f, d)' = n
  <1>1. rows' = rows => LastTry(f, d)' = LastTry(f, d)
    BY LastSame DEF RowsOfRound
  <1>2. ASSUME NEW o \in Outcomes, AddRow("lane", o)
        PROVE  LastTry(f, d)' = n
    <2>1. "lane" \in Runners
      BY DEF Runners
    <2>2. PICK q \in Row : /\ RowsOfRound(f, d)' = RowsOfRound(f, d) \cup {q}
                           /\ q.slot.n = n
      BY <1>2, <2>1, RoundAfter DEF OnLane
    <2>3. LastTry(f, d) <= q.slot.n
      BY <2>2, LaneQuota
    <2> QED BY <2>2, <2>3, LastAdd
  <1> QED BY <1>1, <1>2

LEMMA TriesCli ==
  ASSUME TypeOK, KeyFit, Numbered, NEW f \in Feeds, NEW d \in Days, TryFit(f, d),
         NEW g \in Fetch, FetchStep("cli", g),
         made'[<<f, d>>] = made[<<f, d>>], redone'[<<f, d>>] = redone[<<f, d>>],
         rows' = rows \/ \E o \in Outcomes : AddRow("cli", o)
  PROVE  TryFit(f, d)'
  <1>1. RowsOfRound(f, d)' = RowsOfRound(f, d)
    <2>1. CASE rows' = rows
      BY <2>1 DEF RowsOfRound
    <2>2. CASE \E o \in Outcomes : AddRow("cli", o)
      BY <2>2, RoundAfter DEF Runners
    <2> QED BY <2>1, <2>2
  <1>2. jobs' = jobs /\ run'["lane"] = run["lane"]
    BY DEF FetchStep, RunWrite, Runners
  <1> QED BY <1>1, <1>2, TriesSame

LEMMA TriesLane ==
  ASSUME TypeOK, TypeOK', KeyFit, Numbered, LaneFit, NEW f \in Feeds, NEW d \in Days,
         OnLane(f, d), TryFit(f, d), [Next]_vars
  PROVE  TryFit(f, d)'
  <1> DEFINE n == run["lane"].slot.n
             stage == run["lane"].stage
  <1>0. /\ "lane" \in Runners /\ Runners = {"lane", "cli"} /\ run["lane"] # Idle
        /\ \A delay \in 1..Largest(MaxDelay, Interval) : delay \in Nat
        /\ \A delay \in 1..MaxDelay : delay \in Nat
        /\ run["cli"] # Idle => run["cli"].slot.kind # "round"
        /\ OnLane(f, d) /\ TryFit(f, d)
        /\ made \in [Feeds \X Days -> Nat] /\ redone \in [Feeds \X Days -> Nat]
        /\ <<f, d>> \in Feeds \X Days
        /\ rows' = rows => LastTry(f, d)' = LastTry(f, d)
        /\ \A o \in Outcomes : AddRow("lane", o) => LastTry(f, d)' = n
        /\ <<run["lane"].feed, run["lane"].slot.date>> = <<f, d>>
        /\ jobs \in [Keys -> Job] /\ run \in [Runners -> Fetch \cup {Idle}]
    <2>1. /\ rows' = rows => LastTry(f, d)' = LastTry(f, d)
          /\ \A o \in Outcomes : AddRow("lane", o) => LastTry(f, d)' = n
      BY LaneLast
    <2>2. run["cli"] # Idle => run["cli"].slot.kind # "round"
      BY SlotFacts DEF KeyFit
    <2> QED BY <2>1, <2>2, ConstantsAssumption DEF Runners, Largest, OnLane, TypeOK
  <1>q. /\ n \in 1..Tries /\ Tries \in Nat /\ LastTry(f, d) \in 0..Tries
        /\ n - 1 <= LastTry(f, d) /\ LastTry(f, d) <= n
        /\ made[<<f, d>>] \in Nat /\ redone[<<f, d>>] \in Nat
        /\ made[<<f, d>>] <= redone[<<f, d>>] + Quota(stage, n, LastTry(f, d))
        /\ Mine = <<"round", f>> /\ run["lane"].slot.kind = "round"
        /\ jobs[Mine].slot = run["lane"].slot
    BY LaneQuota DEF OnLane
  <1> HIDE DEF n
  <1>1. ASSUME NEW h \in Feeds,
               EnqueueRoundTry(h)
        PROVE  TryFit(f, d)'
    BY <1>0, <1>1 DEF EnqueueRoundTry, Ticks
  <1>2. ASSUME NEW h \in Feeds,
               EnqueueDaytime(h)
        PROVE  TryFit(f, d)'
    BY <1>0, <1>2 DEF EnqueueDaytime, Ticks
  <1>3. ASSUME NEW h \in Feeds,
               EnqueueAsked(h)
        PROVE  TryFit(f, d)'
    <2>1. /\ jobs'[<<"round", f>>] = jobs[<<"round", f>>] /\ run' = run
          /\ made' = made /\ redone' = redone /\ rows' = rows
      BY <1>0, <1>3 DEF EnqueueAsked, Asked, Put
    <2> QED BY <1>0, <2>1, TriesSame DEF RowsOfRound
  <1>4. ASSUME NEW h \in Feeds,
               Toggle(h)
        PROVE  TryFit(f, d)'
    <2>1. /\ jobs'[<<"round", f>>] = jobs[<<"round", f>>] /\ run'["lane"] = run["lane"]
          /\ made' = made /\ redone' = redone /\ rows' = rows
      BY <1>0, <1>4 DEF Toggle
    <2> QED BY <2>1, TriesSame DEF RowsOfRound
  <1>5. ASSUME NEW h \in Feeds,
               CliFetch(h)
        PROVE  TryFit(f, d)'
    <2>1. /\ jobs'[<<"round", f>>] = jobs[<<"round", f>>] /\ run'["lane"] = run["lane"]
          /\ made' = made /\ redone' = redone /\ rows' = rows
      BY <1>0, <1>5 DEF CliFetch
    <2> QED BY <2>1, TriesSame DEF RowsOfRound
  <1>6. ASSUME NEW r \in Runners,
               Reserve(r)
        PROVE  TryFit(f, d)'
    <2>1. PICK g \in Fetch : FetchStep(r, g) /\ (Refused(g) \/ Reserved(r, g))
      BY <1>6, ReserveShape
    <2>2. run[r] # Idle /\ run[r].stage = "reserve" /\ redone' = redone /\ rows' = rows
      BY <1>6 DEF Reserve, At
    <2>3. CASE r = "lane"
      <3>1. /\ LastTry(f, d)' = LastTry(f, d) /\ redone'[<<f, d>>] = redone[<<f, d>>]
            /\ made[<<f, d>>] <= redone[<<f, d>>] + (n - 1)
        BY <1>0, <1>q, <2>2, <2>3, QuotaIs
      <3>2. g.stage \in {"tell", "call"} /\ made'[<<f, d>>] <= made[<<f, d>>] + 1
            /\ made'[<<f, d>>] \in Nat
        <4>1. CASE Refused(g)
          BY <1>q, <4>1 DEF Refused
        <4>2. CASE Reserved(r, g)
          <5>1. made' = [made EXCEPT ![<<f, d>>] = made[<<f, d>>] + 1] /\ g.stage = "call"
            BY <1>0, <1>q, <2>3, <4>2 DEF Reserved
          <5> QED BY <1>0, <1>q, <5>1
        <4> QED BY <2>1, <4>1, <4>2
      <3>3. made'[<<f, d>>] <= redone'[<<f, d>>] + Quota(g.stage, n, LastTry(f, d)')
        <4>1. Quota(g.stage, n, LastTry(f, d)') = n
          BY <3>2, QuotaIs
        <4> QED BY <1>q, <3>1, <3>2, <4>1
      <3>4. FetchStep("lane", g) /\ n = run["lane"].slot.n
        BY <2>1, <2>3 DEF n
      <3> QED BY <1>0, <1>q, <3>1, <3>3, <3>4, LaneGoes
    <2>4. CASE r = "cli"
      <3>1. made' = made
        BY <1>0, <2>1, <2>2, <2>4 DEF Refused, Reserved
      <3> QED BY <1>0, <2>1, <2>2, <2>4, <3>1, TriesCli
    <2> QED BY <1>0, <2>3, <2>4
  <1>7. ASSUME NEW r \in Runners,
               NotConnected(r)
        PROVE  TryFit(f, d)'
    <2>1. CASE r = "lane"
      <3>1. PICK g \in Fetch : FetchStep("lane", g) /\ g.stage \in {"refund", "fail"}
        BY <1>0, <1>7, <2>1, CallShape
      <3>2. /\ made' = made /\ redone' = redone /\ LastTry(f, d)' = LastTry(f, d)
            /\ stage = "call"
        BY <1>0, <1>7, <2>1, LaneLast DEF NotConnected, OnlyRun, At
      <3>3. made[<<f, d>>] <= redone[<<f, d>>] + Quota(g.stage, n, LastTry(f, d))
        BY <1>0, <1>q, <3>1, <3>2, QuotaIs
      <3>4. n = run["lane"].slot.n
        BY DEF n
      <3> QED BY <1>0, <1>q, <3>1, <3>2, <3>3, <3>4, LaneGoes
    <2>2. CASE r = "cli"
      <3>1. PICK g \in Fetch : FetchStep("cli", g)
        BY <1>0, <1>7, <2>2, CallShape
      <3>2. redone' = redone /\ made'[<<f, d>>] = made[<<f, d>>]
        BY <1>0, <1>7, <2>2 DEF NotConnected, OnlyRun
      <3>3. rows' = rows
        BY <1>7 DEF NotConnected, OnlyRun
      <3> QED BY <3>1, <3>2, <3>3, TriesCli
    <2> QED BY <1>0, <2>1, <2>2
  <1>8. ASSUME NEW r \in Runners,
               Requested(r)
        PROVE  TryFit(f, d)'
    <2>1. CASE r = "lane"
      <3>1. PICK g \in Fetch : FetchStep("lane", g) /\ g.stage \in {"call", "persist", "throttled", "fail"}
        BY <1>0, <1>8, <2>1, CallShape
      <3>2. /\ made' = made /\ redone' = redone /\ LastTry(f, d)' = LastTry(f, d)
            /\ stage = "call"
        BY <1>0, <1>8, <2>1, LaneLast DEF Requested, At
      <3>3. made[<<f, d>>] <= redone[<<f, d>>] + Quota(g.stage, n, LastTry(f, d))
        BY <1>0, <1>q, <3>1, <3>2, QuotaIs
      <3>4. n = run["lane"].slot.n
        BY DEF n
      <3> QED BY <1>0, <1>q, <3>1, <3>2, <3>3, <3>4, LaneGoes
    <2>2. CASE r = "cli"
      <3>1. PICK g \in Fetch : FetchStep("cli", g)
        BY <1>0, <1>8, <2>2, CallShape
      <3>2. redone' = redone /\ made'[<<f, d>>] = made[<<f, d>>]
        BY <1>0, <1>8, <2>2 DEF Requested
      <3>3. rows' = rows
        BY <1>8 DEF Requested
      <3> QED BY <3>1, <3>2, <3>3, TriesCli
    <2> QED BY <1>0, <2>1, <2>2
  <1>9. ASSUME NEW r \in Runners,
               Refund(r)
        PROVE  TryFit(f, d)'
    <2>1. CASE r = "lane"
      <3>1. PICK g \in Fetch : FetchStep("lane", g) /\ g.stage = "fail"
        BY <1>0, <1>9, <2>1, CallShape
      <3>2. /\ made' = made /\ redone' = redone /\ LastTry(f, d)' = LastTry(f, d)
            /\ stage = "refund"
        BY <1>0, <1>9, <2>1, LaneLast DEF Refund, At
      <3>3. made[<<f, d>>] <= redone[<<f, d>>] + Quota(g.stage, n, LastTry(f, d))
        BY <1>0, <1>q, <3>1, <3>2, QuotaIs
      <3>4. n = run["lane"].slot.n
        BY DEF n
      <3> QED BY <1>0, <1>q, <3>1, <3>2, <3>3, <3>4, LaneGoes
    <2>2. CASE r = "cli"
      <3>1. PICK g \in Fetch : FetchStep("cli", g)
        BY <1>0, <1>9, <2>2, CallShape
      <3>2. redone' = redone /\ made'[<<f, d>>] = made[<<f, d>>]
        BY <1>0, <1>9, <2>2 DEF Refund
      <3>3. rows' = rows
        BY <1>9 DEF Refund
      <3> QED BY <3>1, <3>2, <3>3, TriesCli
    <2> QED BY <1>0, <2>1, <2>2
  <1>10. ASSUME NEW r \in Runners,
               Raise(r)
        PROVE  TryFit(f, d)'
    <2>1. CASE r = "lane"
      <3>1. PICK g \in Fetch : FetchStep("lane", g) /\ g.stage = "fail"
        BY <1>0, <1>10, <2>1, CallShape
      <3>2. /\ made' = made /\ redone' = redone /\ LastTry(f, d)' = LastTry(f, d)
            /\ stage \in {"stale", "reserve", "refund", "throttled", "persist", "tell",
                         "complete"}
        BY <1>0, <1>10, <2>1, LaneLast DEF Raise, OnlyRun, At
      <3>3. made[<<f, d>>] <= redone[<<f, d>>] + Quota(g.stage, n, LastTry(f, d))
        BY <1>0, <1>q, <3>1, <3>2, QuotaIs
      <3>4. n = run["lane"].slot.n
        BY DEF n
      <3> QED BY <1>0, <1>q, <3>1, <3>2, <3>3, <3>4, LaneGoes
    <2>2. CASE r = "cli"
      <3>1. PICK g \in Fetch : FetchStep("cli", g)
        BY <1>0, <1>10, <2>2, CallShape
      <3>2. redone' = redone /\ made'[<<f, d>>] = made[<<f, d>>]
        BY <1>0, <1>10, <2>2 DEF Raise, OnlyRun
      <3>3. rows' = rows
        BY <1>10 DEF Raise, OnlyRun
      <3> QED BY <3>1, <3>2, <3>3, TriesCli
    <2> QED BY <1>0, <2>1, <2>2
  <1>11. ASSUME NEW r \in Runners, NEW delay \in 1..MaxDelay,
               RecordBackoff(r, delay)
        PROVE  TryFit(f, d)'
    <2>1. CASE r = "lane"
      <3>1. PICK g \in Fetch : FetchStep("lane", g) /\ g.stage = "tell"
        BY <1>0, <1>11, <2>1, CallShape
      <3>2. /\ made' = made /\ redone' = redone /\ LastTry(f, d)' = LastTry(f, d)
            /\ stage = "throttled"
        BY <1>0, <1>11, <2>1, LaneLast DEF RecordBackoff, At
      <3>3. made[<<f, d>>] <= redone[<<f, d>>] + Quota(g.stage, n, LastTry(f, d))
        BY <1>0, <1>q, <3>1, <3>2, QuotaIs
      <3>4. n = run["lane"].slot.n
        BY DEF n
      <3> QED BY <1>0, <1>q, <3>1, <3>2, <3>3, <3>4, LaneGoes
    <2>2. CASE r = "cli"
      <3>1. PICK g \in Fetch : FetchStep("cli", g)
        BY <1>0, <1>11, <2>2, CallShape
      <3>2. redone' = redone /\ made'[<<f, d>>] = made[<<f, d>>]
        BY <1>0, <1>11, <2>2 DEF RecordBackoff
      <3>3. rows' = rows
        BY <1>11 DEF RecordBackoff
      <3> QED BY <3>1, <3>2, <3>3, TriesCli
    <2> QED BY <1>0, <2>1, <2>2
  <1>12. ASSUME NEW r \in Runners, NEW usable \in BOOLEAN, NEW hours \in SUBSET Hours,
               Persist(r, usable, hours)
        PROVE  TryFit(f, d)'
    <2>1. PICK g \in Fetch : FetchStep(r, g) /\ g.stage = "complete"
      BY <1>12, CallShape
    <2>2. PICK o \in Outcomes : AddRow(r, o)
      BY <1>12 DEF Persist, AddRow, At, Outcomes
    <2>3. made' = made /\ redone' = redone /\ run[r].stage = "persist"
      BY <1>12 DEF Persist, At
    <2>4. CASE r = "lane"
      <3>1. LastTry(f, d)' = n /\ Quota(g.stage, n, n) = n /\ Quota(stage, n, LastTry(f, d)) = n
        BY <1>0, <2>1, <2>2, <2>3, <2>4, QuotaIs
      <3>2. FetchStep("lane", g) /\ n = run["lane"].slot.n
        BY <2>1, <2>4 DEF n
      <3> QED BY <1>0, <1>q, <2>3, <3>1, <3>2, LaneGoes
    <2>5. CASE r = "cli"
      BY <1>0, <2>1, <2>2, <2>3, <2>5, TriesCli
    <2> QED BY <1>0, <2>4, <2>5
  <1>13. ASSUME NEW k \in Keys,
               Claim(k)
        PROVE  TryFit(f, d)'
    BY <1>0, <1>13 DEF Claim
  <1>14. CASE CheckStale
    <2>1. PICK g \in Fetch : FetchStep("lane", g) /\ g.stage \in {"cancel", "reserve"}
      BY <1>14, LaneShape
    <2>2. made' = made /\ redone' = redone /\ stage = "stale" /\ rows' = rows
      BY <1>14 DEF CheckStale, OnlyRun, At
    <2>3. /\ LastTry(f, d)' = LastTry(f, d) /\ n = run["lane"].slot.n
          /\ made[<<f, d>>] <= redone[<<f, d>>] + (n - 1)
      BY <1>0, <1>q, <2>2, QuotaIs DEF n
    <2>4. made[<<f, d>>] <= redone[<<f, d>>] + Quota(g.stage, n, LastTry(f, d))
      BY <1>q, <2>1, <2>3, QuotaIs
    <2> QED BY <1>0, <1>q, <2>1, <2>2, <2>3, <2>4, LaneGoes
  <1>15. CASE RecordTry
    <2>1. PICK g \in Fetch : FetchStep("lane", g) /\ g.stage \in {"cancel", "defer"}
      BY <1>15, LaneShape
    <2>2. /\ made' = made /\ redone' = redone /\ stage = "tell"
          /\ rows' = rows \cup {NewRow(run["lane"], run["lane"].outcome)}
      BY <1>15 DEF RecordTry, At
    <2>3. run["lane"].outcome \in Outcomes
      BY <1>0, IdleIs
    <2>4. LastTry(f, d)' = n /\ n = run["lane"].slot.n
      BY <1>0, <2>2, <2>3 DEF AddRow, n
    <2>5. Quota(stage, n, LastTry(f, d)) = n /\ Quota(g.stage, n, n) = n
      BY <2>1, <2>2, QuotaIs
    <2> QED BY <1>0, <1>q, <2>1, <2>2, <2>4, <2>5, LaneGoes
  <1>16. CASE Complete
    <2>1. EndStep("completed") /\ n = run["lane"].slot.n
      BY <1>16, EndShape DEF n
    <2>2. /\ made' = made /\ redone' = redone /\ rows' = rows
          /\ stage \in {"complete", "cancel"}
      BY <1>16 DEF Complete, Close, At
    <2>3. LastTry(f, d)' = LastTry(f, d) /\ Quota(stage, n, LastTry(f, d)) = LastTry(f, d)
      BY <1>0, <2>2, QuotaIs
    <2> QED BY <1>0, <1>q, <2>1, <2>2, <2>3, LaneEnds
  <1>17. CASE Defer
    BY <1>q, <1>17 DEF Defer, At, LaneFit
  <1>18. CASE Restart
    <2>1. EndStep("pending") /\ n = run["lane"].slot.n
      BY <1>18, EndShape DEF n
    <2>2. /\ made' = made /\ redone' = [redone EXCEPT ![<<f, d>>] = redone[<<f, d>>] + 1]
          /\ rows' = rows
      BY <1>0, <1>q, <1>18 DEF Restart, Again
    <2>3. redone'[<<f, d>>] = redone[<<f, d>>] + 1 /\ LastTry(f, d)' = LastTry(f, d)
      BY <1>0, <2>2
    <2>4. Quota(stage, n, LastTry(f, d)) \in {n - 1, n, LastTry(f, d)}
      BY QuotaIs
    <2>5. made'[<<f, d>>] <= redone'[<<f, d>>] + (n - 1)
      BY <1>q, <2>2, <2>3, <2>4
    <2> QED BY <1>0, <1>q, <2>1, <2>3, <2>5, LaneEnds
  <1>19. ASSUME NEW delay \in 1..Largest(MaxDelay, Interval),
               Fail(delay)
        PROVE  TryFit(f, d)'
    <2>1. EndStep("failed") /\ n = run["lane"].slot.n
      BY <1>0, <1>q, <1>19, EndShape DEF n
    <2>2. made' = made /\ stage = "fail"
      BY <1>19 DEF Fail, Close, At
    <2>3. Quota(stage, n, LastTry(f, d)) = n
      BY <2>2, QuotaIs
    <2>4. CASE rows' = rows \cup {NewRow(run["lane"], "failed")} /\ redone' = redone
      <3>1. LastTry(f, d)' = n
        BY <1>0, <2>2, <2>4 DEF AddRow, Outcomes
      <3> QED BY <1>0, <1>q, <2>1, <2>2, <2>3, <2>4, <3>1, LaneEnds
    <2>5. CASE rows' = rows /\ Again(run["lane"])
      <3>1. redone' = [redone EXCEPT ![<<f, d>>] = redone[<<f, d>>] + 1]
        BY <1>0, <1>q, <2>5 DEF Again
      <3>2. redone'[<<f, d>>] = redone[<<f, d>>] + 1 /\ LastTry(f, d)' = LastTry(f, d)
        BY <1>0, <2>5, <3>1
      <3>3. made'[<<f, d>>] <= redone'[<<f, d>>] + LastTry(f, d)'
        BY <1>q, <2>2, <2>3, <3>2
      <3> QED BY <1>0, <1>q, <2>1, <3>2, <3>3, LaneEnds
    <2> QED BY <1>19, <2>4, <2>5 DEF Fail
  <1>20. CASE CliEnds
    <2>1. /\ jobs'[<<"round", f>>] = jobs[<<"round", f>>] /\ run'["lane"] = run["lane"]
          /\ made' = made /\ redone' = redone /\ rows' = rows
      BY <1>0, <1>20 DEF CliEnds, OnlyRun
    <2> QED BY <2>1, TriesSame DEF RowsOfRound
  <1>21. CASE Tick
    <2>1. /\ jobs'[<<"round", f>>] = jobs[<<"round", f>>] /\ run'["lane"] = run["lane"]
          /\ made' = made /\ redone' = redone /\ rows' = rows
      BY <1>0, <1>21 DEF Tick
    <2> QED BY <2>1, TriesSame DEF RowsOfRound
  <1>22. CASE UNCHANGED vars
    <2>1. /\ jobs'[<<"round", f>>] = jobs[<<"round", f>>] /\ run'["lane"] = run["lane"]
          /\ made' = made /\ redone' = redone /\ rows' = rows
      BY <1>0, <1>22 DEF vars
    <2> QED BY <2>1, TriesSame DEF RowsOfRound
  <1> QED
    BY <1>1, <1>2, <1>3, <1>4, <1>5, <1>6, <1>7, <1>8, <1>9, <1>10, <1>11,
       <1>12, <1>13, <1>14, <1>15, <1>16, <1>17, <1>18, <1>19, <1>20, <1>21, <1>22
    DEF Next, Schedule, Step, JobStep

LEMMA TriesStep ==
  ASSUME TypeOK, TypeOK', KeyFit, Numbered, LaneFit, TriesFit, [Next]_vars
  PROVE  TriesFit'
  <1>1. ASSUME NEW f \in Feeds, NEW d \in Days PROVE TryFit(f, d)'
    <2>1. TryFit(f, d)
      BY DEF TriesFit, TryFit
    <2> QED BY <2>1, TriesElse, TriesLane
  <1>2. Days' = Days
    BY DEF Days, Day
  <1> QED BY <1>1, <1>2 DEF TriesFit, TryFit

-----------------------------------------------------------------------------
(* The theorems.                                                             *)

\* The inductive invariant: what each property needs of the runners, the jobs
\* and the counts.
Inv ==
  /\ TypeOK /\ KeyFit /\ Numbered
  /\ PageFit /\ OwedFit
  /\ LaneFit /\ RoundStoredOnce
  /\ ScoredIsFirst
  /\ TriesFit

LEMMA InitInv == Init => Inv
  <1> SUFFICES ASSUME Init PROVE Inv
    OBVIOUS
  <1>0. /\ StartAt \in 0..MaxTime /\ MaxTime \in Nat /\ Tries \in Nat /\ Limit \in Nat
        /\ Idle.stage = "idle" /\ Idle \in Fetch \cup {Idle}
        /\ TRUE \in BOOLEAN
    BY ConstantsAssumption DEF Tries, Idle
  <1>1. run = [r \in Runners |-> Idle] /\ run["lane"] = Idle /\ run["cli"] = Idle
    BY DEF Init, Runners
  <1>2. NoJob \in Job /\ NoJob.status = "none"
    BY SlotFacts DEF NoJob, Job, Live
  <1>3. \A k \in Keys : jobs[k] = NoJob
    BY DEF Init
  <1>4. TypeOK
    <2>1. eligible \in [Feeds -> BOOLEAN]
      BY <1>0 DEF Init
    <2>2. jobs \in [Keys -> Job]
      BY <1>2 DEF Init
    <2>3. \A k \in Keys : jobs[k].status = "running" <=>
            run["lane"] # Idle /\ KeyOf(run["lane"]) = k /\ run["lane"].slot = jobs[k].slot
      BY <1>1, <1>2, <1>3
    <2>4. clock \in StartAt..MaxTime /\ backoff \in Nat /\ upsets \in Nat
      BY <1>0 DEF Init
    <2>5. /\ calls \in [BillingDays -> Nat] /\ sent \in [BillingDays -> Nat]
          /\ made \in [Feeds \X Days -> Nat] /\ redone \in [Feeds \X Days -> Nat]
      BY DEF Init
    <2>6. run \in [Runners -> Fetch \cup {Idle}]
      BY <1>0, <1>1
    <2>7. rows = {} /\ scored = {}
      BY DEF Init
    <2> QED BY <2>1, <2>2, <2>3, <2>4, <2>5, <2>6, <2>7 DEF TypeOK
  <1>5. KeyFit
    BY <1>1, <1>2, <1>3 DEF KeyFit, IsLive, Live
  <1>6. Numbered
    BY FS_EmptySet DEF Init, Numbered
  <1>7. PageFit /\ OwedFit
    <2>1. \A d \in BillingDays : sent[d] = 0 /\ calls[d] = 0
      BY DEF Init
    <2>2. \A d : OwedBy(run["lane"], d) = 0 /\ OwedBy(run["cli"], d) = 0
      BY <1>0, <1>1, OwedIs
    <2> QED BY <1>0, <1>1, <2>1, <2>2 DEF PageFit, OwedFit
  <1>8. LaneFit
    BY <1>0, <1>1 DEF LaneFit
  <1>9. RoundStoredOnce /\ ScoredIsFirst
    BY DEF Init, RoundStoredOnce, ScoredIsFirst, RowsOfRound
  <1>10. TriesFit
    <2>1. ASSUME NEW f \in Feeds, NEW d \in Days
          PROVE  Due(f, d) /\ made[<<f, d>>] <= redone[<<f, d>>] + Allowed(f, d)
      <3>1. ~OnRound(f, d)
        BY <1>2, <1>3 DEF OnRound, IsLive, Live, Keys
      <3>2. LastTry(f, d) \in 0..Tries
        BY <1>4, LastType
      <3>3. made[<<f, d>>] = 0 /\ redone[<<f, d>>] = 0
        BY DEF Init
      <3>4. Allowed(f, d) = LastTry(f, d)
        BY <3>1, AllowedIs
      <3> QED BY <1>0, <3>1, <3>2, <3>3, <3>4 DEF Due
    <2> QED BY <2>1 DEF TriesFit
  <1> QED BY <1>4, <1>5, <1>6, <1>7, <1>8, <1>9, <1>10 DEF Inv

LEMMA NextInv == Inv /\ [Next]_vars => Inv'
  <1> SUFFICES ASSUME Inv, [Next]_vars PROVE Inv'
    OBVIOUS
  <1>1. TypeOK' /\ KeyFit' /\ Numbered'
    BY TypeStep DEF Inv
  <1>2. PageFit' /\ OwedFit'
    BY BudgetStep DEF Inv
  <1>3. LaneFit' /\ RoundStoredOnce'
    BY LaneFitStep, StoredOnceStep DEF Inv
  <1>4. ScoredIsFirst'
    BY ScoredStep DEF Inv
  <1>5. TriesFit'
    BY <1>1, TriesStep DEF Inv
  <1> QED BY <1>1, <1>2, <1>3, <1>4, <1>5 DEF Inv

\* The invariant holds of every behaviour of the downloads.
THEOREM InvAlways == Spec => []Inv
  BY InitInv, NextInv, PTL DEF Spec

\* Every variable keeps its type, and the lane's fetch is the running row's.
THEOREM TypeCorrect == Spec => []TypeOK
  <1>1. Inv => TypeOK
    BY DEF Inv
  <1> QED BY <1>1, InvAlways, PTL

\* The calls a billing day counts cover those sent on its reservations and stay
\* within the limit: reserve_budget and refund_budget, page by page, with two
\* processes.
THEOREM BudgetCovered == Spec => []BudgetCoversCalls
  <1>1. Inv => BudgetCoversCalls
    <2> SUFFICES ASSUME Inv, NEW d \in BillingDays
                 PROVE  sent[d] <= calls[d] /\ calls[d] <= Limit
      BY DEF BudgetCoversCalls
    <2>1. /\ sent[d] + OwedBy(run["lane"], d) + OwedBy(run["cli"], d) <= calls[d]
          /\ calls[d] <= Limit
      BY DEF Inv, OwedFit
    <2>2. OwedBy(run["lane"], d) \in Nat /\ OwedBy(run["cli"], d) \in Nat
      BY OwedNat DEF Inv, Runners
    <2>3. sent[d] \in Nat /\ calls[d] \in Nat
      BY DEF Inv, TypeOK
    <2> QED BY <2>1, <2>2, <2>3
  <1> QED BY <1>1, InvAlways, PTL

\* A round's tries are bounded, interruptions apart: enqueue_due_round_tries with
\* the recorded rows and the closing jobs.
THEOREM RoundTries == Spec => []RoundTriesBounded
  <1>1. Inv => RoundTriesBounded
    <2> SUFFICES ASSUME Inv, NEW q \in Feeds \X Days
                 PROVE  made[q] <= Tries + redone[q]
      BY DEF RoundTriesBounded
    <2>1. PICK f \in Feeds, d \in Days : q = <<f, d>>
      OBVIOUS
    <2>2. made[q] <= redone[q] + Allowed(f, d)
      BY <2>1 DEF Inv, TriesFit
    <2>3. /\ OnRound(f, d) => jobs[<<"round", f>>].slot.n \in 1..Tries
          /\ LastTry(f, d) \in 0..Tries /\ Tries \in Nat
          /\ made[q] \in Nat /\ redone[q] \in Nat
      BY <2>1, RoundJob DEF Inv
    <2>4. Allowed(f, d) \in 0..Tries
      BY <2>3 DEF Allowed
    <2> QED BY <2>2, <2>3, <2>4
  <1> QED BY <1>1, InvAlways, PTL

\* A round stores a feed's download once: round_try_stale before each try.
THEOREM RoundStored == Spec => []RoundStoredOnce
  <1>1. Inv => RoundStoredOnce
    BY DEF Inv
  <1> QED BY <1>1, InvAlways, PTL

\* Scored values come from the day's first stored download: write_scored_values
\* and first_recorded_download in one transaction.
THEOREM ScoredFirst == Spec => []ScoredIsFirst
  <1>1. Inv => ScoredIsFirst
    BY DEF Inv
  <1> QED BY <1>1, InvAlways, PTL

=============================================================================
