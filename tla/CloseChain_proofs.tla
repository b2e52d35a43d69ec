-------------------------- MODULE CloseChain_proofs --------------------------
(* Proofs of CloseChain's safety properties, for any number of days, any     *)
(* delays and any number of stops.                                          *)
EXTENDS CloseMonitor, FiniteSetTheorems, WellFoundedInduction, TLAPS

-----------------------------------------------------------------------------
(* The inductive invariant.                                                *)

\* What a day's state says of its attempts.
DayFit ==
  \A d \in Days :
    /\ state[d] \in {"none", "open"} => attempts[d] = 0
    /\ state[d] = "retry_due" => attempts[d] = 1
    /\ state[d] = "closing" => attempts[d] \in 1..2 /\ lastStage[d] \in 1..5

\* What a record's state says of its attempts.
PubFit ==
  \A c \in Days :
    /\ pub[c] \in Open => pubAttempt[c] \in 1..2
    /\ pub[c] = "retry_due" => pubAttempt[c] = 1

\* What the lane's place says of its job.
LaneFit ==
  /\ pc \in Running => cur \in Job
  /\ pc = "filling" => cur.kind = "close" /\ cur.stage = 2
  /\ pc \in {"publishing", "announce"} => cur.kind = "publish"

TypeInv == TypeOK /\ DayFit /\ PubFit /\ LaneFit

LEMMA InitTypeInv == Init => TypeInv
  <1> SUFFICES ASSUME Init PROVE TypeInv
    OBVIOUS
  <1>1. state \in [Days -> DayState]
    BY ConstantsAssumption DEF Init, Days, DayState
  <1>2. TypeOK
    BY <1>1 DEF Init, TypeOK, PubState, Reason, Lane
  <1>3. DayFit
    BY ConstantsAssumption DEF Init, DayFit, Days
  <1>4. PubFit /\ LaneFit
    BY DEF Init, PubFit, LaneFit, Open, Running
  <1> QED BY <1>2, <1>3, <1>4 DEF TypeInv

LEMMA CloseJobType ==
  ASSUME NEW d \in Days, NEW s \in 2..6, NEW a \in 1..2, now \in Nat
  PROVE  CloseJob(d, s, a) \in Job
  BY DEF CloseJob, Job, Status

LEMMA PublishJobType ==
  ASSUME NEW c \in Days, NEW a \in 1..2, now \in Nat
  PROVE  PublishJob(c, a) \in Job
  BY DEF PublishJob, Job, Status

LEMMA EnqueueType ==
  ASSUME NEW js, NEW new, js \subseteq Job, new \subseteq Job
  PROVE  Enqueue(js, new) \subseteq Job
  BY DEF Enqueue

LEMMA JobParts ==
  ASSUME NEW j \in Job
  PROVE  /\ j.date \in Days /\ j.attempt \in 1..2 /\ j.enq \in Nat
         /\ j.kind \in {"close", "publish"} /\ j.stage \in 2..7
         /\ j.kind = "close" => j.stage \in 2..6
  BY DEF Job

LEMMA JobStatus ==
  ASSUME NEW j \in Job
  PROVE  /\ [j EXCEPT !.status = "running"] \in Job
         /\ [j EXCEPT !.status = "pending"] \in Job
  BY DEF Job, Status

LEMMA ReclaimedType ==
  ASSUME NEW js, js \subseteq Job
  PROVE  Reclaimed(js) \subseteq Job
  BY JobStatus DEF Reclaimed

-----------------------------------------------------------------------------
(* The scheduler tick, day by day.                                         *)

\* The days a tick moves to missed and the day it starts, as the walk picks them.
TickMoves(missed, start) ==
  /\ missed \subseteq Days /\ start \subseteq Days
  /\ \A d \in missed :
       /\ Ensured(state)[d] \in {"open", "retry_due"}
       /\ Ensured(state)[d] = "retry_due" => now >= retryAt[d]
       /\ Ensured(state)[d] = "open" => now >= DayEnd[d] + RoundBound
       /\ \A e \in Days : e < d /\ IsUndone(Ensured(state)[e]) => e \in missed
  /\ \A d \in start :
       /\ d \notin missed
       /\ Ensured(state)[d] \in {"open", "retry_due"}
       /\ Ensured(state)[d] = "retry_due" => now >= retryAt[d]
       /\ Ensured(state)[d] = "open" => d \notin Changeover
       /\ \A e \in Days : e < d /\ IsUndone(Ensured(state)[e]) => e \in missed
  /\ CloseDueDays(Ensured(state), missed, start)

\* The tick's walk over the undone days does what TickMoves says.
LEMMA TickWalk ==
  ASSUME TypeOK, startedAt <= now, SchedulerTick
  PROVE  \E missed, start :
           /\ TickMoves(missed, start)
           /\ RetryPublications
           /\ jobs' = TickJobs(start)
  <1>1. PICK settled \in SUBSET Days, windDue \in BOOLEAN :
          /\ CloseDueDays(Ensured(state), MissedNow(Ensured(state), settled),
                          StartNow(Ensured(state), settled, windDue))
          /\ RetryPublications
          /\ jobs' = TickJobs(StartNow(Ensured(state), settled, windDue))
    BY DEF SchedulerTick
  <1> DEFINE st     == Ensured(state)
             missed == MissedNow(st, settled)
             start  == StartNow(st, settled, windDue)
  <1>2. /\ now \in Nat /\ startedAt \in Nat /\ RoundBound \in Nat /\ LateLimit \in Nat
        /\ DayEnd \in [Days -> Nat] /\ retryAt \in [Days -> Nat]
        /\ Days \subseteq Nat /\ \A d \in Days : 1 <= d
    BY ConstantsAssumption DEF TypeOK, Days
  <1>3. ASSUME NEW d \in Days, ToMiss(st, d, settled)
        PROVE  /\ st[d] \in {"open", "retry_due"}
               /\ st[d] = "retry_due" => now >= retryAt[d]
               /\ st[d] = "open" => now >= DayEnd[d] + RoundBound
    <2> HIDE DEF st
    <2>1. CASE st[d] = "retry_due"
      BY <1>3, <2>1 DEF ToMiss, PastWaits
    <2>2. CASE st[d] = "open" /\ d \in Changeover
      BY <1>2, <1>3, <2>2 DEF ToMiss, PastWaits, DueAt
    <2>3. CASE st[d] = "open" /\ d \notin Changeover
      <3>1. ~RunningAt(DayEnd[d] + RoundBound)
        BY <1>3, <2>3 DEF ToMiss, DueAt
      <3> QED BY <1>2, <2>3, <3>1 DEF RunningAt
    <2> QED BY <1>3, <2>1, <2>2, <2>3 DEF ToMiss, PastWaits
  <1>4. ASSUME NEW d \in missed
        PROVE  /\ d \in Days /\ ToMiss(st, d, settled)
               /\ \A e \in Days : e < d /\ IsUndone(st[e]) => e \in missed
    BY <1>2, <1>4 DEF MissedNow
  <1>5. ASSUME NEW d \in start
        PROVE  /\ d \in Days /\ d \notin missed
               /\ st[d] \in {"open", "retry_due"}
               /\ st[d] = "retry_due" => now >= retryAt[d]
               /\ st[d] = "open" => d \notin Changeover
               /\ \A e \in Days : e < d /\ IsUndone(st[e]) => e \in missed
    <2>1. /\ d \in Days /\ PastWaits(st, d, settled) /\ ~ToMiss(st, d, settled)
          /\ \A e \in 1..(d - 1) : IsUndone(st[e]) => ToMiss(st, e, settled)
      BY <1>5 DEF StartNow
    <2>2. d \notin missed
      BY <1>4, <2>1
    <2>3. st[d] = "open" => d \notin Changeover
      BY <2>1 DEF ToMiss
    <2>4. \A e \in Days : e < d /\ IsUndone(st[e]) => e \in missed
      BY <1>2, <2>1 DEF MissedNow, Days
    <2> QED BY <2>1, <2>2, <2>3, <2>4 DEF PastWaits
  <1>6. TickMoves(missed, start)
    BY <1>1, <1>3, <1>4, <1>5 DEF TickMoves
  <1> QED BY <1>1, <1>6

\* The records after a tick, one by one.
LEMMA TickDays ==
  ASSUME TypeOK, DayFit, NEW missed, NEW start, TickMoves(missed, start)
  PROVE  /\ state' \in [Days -> DayState] /\ reason' \in [Days -> Reason]
         /\ attempts' \in [Days -> 0..2] /\ lastStage' \in [Days -> 0..6]
         /\ retryAt' = retryAt /\ progressAt' \in [Days -> Nat]
         /\ DayFit'
  <1> DEFINE st == Ensured(state)
  <1>1. st \in [Days -> DayState]
    BY DEF Ensured, TypeOK, DayState
  <1>2. \A d \in Days : st[d] = state[d] \/ (state[d] = "none" /\ st[d] = "open")
    BY DEF Ensured, TypeOK
  <1> HIDE DEF st
  <1>3. CloseDueDays(st, missed, start) /\ missed \subseteq Days /\ start \subseteq Days
    BY DEF TickMoves, st
  <1>4. \A d \in start : st[d] \in {"open", "retry_due"}
    BY DEF TickMoves, st
  <1>5. \A d \in Days : MissReason(st, d) \in Reason
    BY DEF MissReason, Reason
  <1>6. state' \in [Days -> DayState] /\ reason' \in [Days -> Reason]
    BY <1>1, <1>3, <1>5 DEF CloseDueDays, DayState, TypeOK
  <1>7. /\ attempts' \in [Days -> 0..2] /\ lastStage' \in [Days -> 0..6]
        /\ retryAt' = retryAt /\ progressAt' \in [Days -> Nat]
    BY <1>3 DEF CloseDueDays, TypeOK
  <1>8. DayFit'
    <2> SUFFICES ASSUME NEW d \in Days
                 PROVE  /\ state'[d] \in {"none", "open"} => attempts'[d] = 0
                        /\ state'[d] = "retry_due" => attempts'[d] = 1
                        /\ state'[d] = "closing" => attempts'[d] \in 1..2 /\ lastStage'[d] \in 1..5
      BY DEF DayFit
    <2>1. CASE d \in missed
      BY <1>3, <2>1 DEF CloseDueDays
    <2>2. CASE d \in start /\ d \notin missed
      BY <1>3, <2>2 DEF CloseDueDays
    <2>3. CASE d \notin start /\ d \notin missed
      BY <1>2, <1>3, <2>3 DEF CloseDueDays, DayFit
    <2> QED BY <2>1, <2>2, <2>3
  <1> QED BY <1>6, <1>7, <1>8

\* The publication records after a tick.
LEMMA TickPubs ==
  ASSUME TypeOK, PubFit, RetryPublications
  PROVE  /\ pub' \in [Days -> PubState] /\ pubAttempt' \in [Days -> 0..2]
         /\ pubRetryAt' \in [Days -> Nat] /\ pubStarted' = pubStarted
         /\ swapped' = swapped
         /\ PubFit'
  <1>1. /\ pub' \in [Days -> PubState] /\ pubAttempt' \in [Days -> 0..2]
        /\ pubRetryAt' \in [Days -> Nat]
    BY DEF RetryPublications, TypeOK, PubState
  <1>2. PubFit'
    BY DEF RetryPublications, PubFit, DueRetries, Revived, TypeOK, Open
  <1> QED BY <1>1, <1>2 DEF RetryPublications

\* The rows after a tick.
LEMMA TickJobsType ==
  ASSUME TypeOK, PubFit, NEW start, start \subseteq Days,
         \A d \in Days : state'[d] = "closing" => attempts'[d] \in 1..2 /\ lastStage'[d] \in 1..5,
         \A d \in start : state'[d] = "closing"
  PROVE  TickJobs(start) \subseteq Job
  <1> DEFINE closing  == {d \in Days : state'[d] = "closing"}
             open     == {c \in Days : pub[c] \in Open}
             started  == Enqueue(jobs, {CloseJob(d, 2, attempts'[d]) : d \in start})
             closeRep == IF Live(started, "close") = {}
                         THEN started \cup {CloseJob(d, lastStage'[d] + 1, attempts'[d]) : d \in closing}
                         ELSE started
             pubRep   == IF Live(closeRep, "publish") = {}
                         THEN closeRep \cup {PublishJob(c, pubAttempt[c]) : c \in Earliest(open)}
                         ELSE closeRep
  <1>1. now \in Nat /\ jobs \subseteq Job
    BY DEF TypeOK
  <1>2. started \subseteq Job
    <2>1. {CloseJob(d, 2, attempts'[d]) : d \in start} \subseteq Job
      BY <1>1, CloseJobType
    <2> QED BY <1>1, <2>1, EnqueueType
  <1>3. closeRep \subseteq Job
    <2>1. \A d \in closing : lastStage'[d] + 1 \in 2..6
      OBVIOUS
    <2>2. {CloseJob(d, lastStage'[d] + 1, attempts'[d]) : d \in closing} \subseteq Job
      BY <1>1, <2>1, CloseJobType
    <2> QED BY <1>2, <2>2
  <1>4. pubRep \subseteq Job
    <2>1. Earliest(open) \subseteq open
      BY DEF Earliest
    <2>2. {PublishJob(c, pubAttempt[c]) : c \in Earliest(open)} \subseteq Job
      BY <1>1, <2>1, PublishJobType DEF PubFit
    <2> QED BY <1>3, <2>2
  <1>5. {PublishJob(c, 2) : c \in Earliest(Revived)} \subseteq Job
    BY <1>1, PublishJobType DEF Earliest, Revived, DueRetries
  <1>6. TickJobs(start) = Enqueue(pubRep, {PublishJob(c, 2) : c \in Earliest(Revived)})
    BY DEF TickJobs
  <1> QED BY <1>4, <1>5, <1>6, EnqueueType

-----------------------------------------------------------------------------
(* The other ways a day or a record changes.                               *)

LEMMA FailCloseDays ==
  ASSUME TypeOK, DayFit, NEW d \in Days, NEW at \in Nat, state[d] = "closing",
         FailClose(d, at), UNCHANGED <<attempts, lastStage, progressAt>>
  PROVE  /\ state' \in [Days -> DayState] /\ reason' \in [Days -> Reason]
         /\ retryAt' \in [Days -> Nat] /\ DayFit'
  <1>1. at + RetryDelay \in Nat
    BY ConstantsAssumption
  <1> QED BY <1>1 DEF TypeOK, DayFit, FailClose, DayState, Reason

LEMMA CompleteStageDays ==
  ASSUME TypeOK, DayFit, NEW j \in Job, j.kind = "close", j.stage \in 2..5,
         Current(j), CompleteStage(j)
  PROVE  /\ lastStage' \in [Days -> 0..6] /\ progressAt' \in [Days -> Nat]
         /\ jobs' \subseteq Job /\ DayFit'
  <1>1. j.date \in Days /\ j.attempt \in 1..2 /\ j.stage + 1 \in 2..6
    BY JobParts
  <1>2. now \in Nat /\ jobs \subseteq Job
    BY DEF TypeOK
  <1>3. jobs' \subseteq Job
    <2>1. {CloseJob(j.date, j.stage + 1, j.attempt)} \subseteq Job
      BY <1>1, <1>2, CloseJobType
    <2> QED BY <1>2, <2>1, EnqueueType DEF CompleteStage
  <1>4. lastStage' \in [Days -> 0..6] /\ progressAt' \in [Days -> Nat]
    <2>1. j.stage \in 0..6
      OBVIOUS
    <2> QED BY <1>2, <2>1 DEF TypeOK, CompleteStage
  <1>5. DayFit'
    <2>1. j.stage \in 1..5
      OBVIOUS
    <2> QED BY <2>1 DEF TypeOK, DayFit, CompleteStage
  <1> QED BY <1>3, <1>4, <1>5

LEMMA FailPublicationPubs ==
  ASSUME TypeOK, PubFit, NEW c \in Days, FailPublication(c)
  PROVE  /\ pub' \in [Days -> PubState] /\ pubRetryAt' \in [Days -> Nat]
         /\ PubFit'
  <1>1. now + RetryDelay \in Nat
    BY ConstantsAssumption DEF TypeOK
  <1> QED BY <1>1 DEF TypeOK, PubFit, FailPublication, PubState, Open

LEMMA SettleDays ==
  ASSUME TypeOK, DayFit, PubFit, StartSettle
  PROVE  /\ state' \in [Days -> DayState] /\ reason' \in [Days -> Reason]
         /\ retryAt' \in [Days -> Nat]
         /\ pub' \in [Days -> PubState] /\ pubRetryAt' \in [Days -> Nat]
         /\ jobs' \subseteq Job
         /\ DayFit' /\ PubFit'
  <1>1. /\ \A d \in Days : StopTime(progressAt[d]) + RetryDelay \in Nat
        /\ \A c \in Days : StopTime(pubStarted[c]) + RetryDelay \in Nat
    BY ConstantsAssumption DEF TypeOK, StopTime, Larger
  <1>2. /\ state' \in [Days -> DayState] /\ reason' \in [Days -> Reason]
    BY DEF TypeOK, StartSettle, DayState, Reason
  <1>3. retryAt' \in [Days -> Nat] /\ pubRetryAt' \in [Days -> Nat]
    BY <1>1 DEF TypeOK, StartSettle
  <1>4. pub' \in [Days -> PubState] /\ jobs' \subseteq Job
    BY DEF TypeOK, StartSettle, PubState
  <1>5. DayFit'
    BY DEF TypeOK, DayFit, StartSettle
  <1>6. PubFit'
    BY DEF TypeOK, PubFit, StartSettle, Open
  <1> QED BY <1>2, <1>3, <1>4, <1>5, <1>6

-----------------------------------------------------------------------------
(* The type invariant.                                                     *)

LEMMA NextTypeInv ==
  ASSUME TypeInv, startedAt <= now, [Next]_vars
  PROVE  TypeInv'
  <1> USE DEF TypeInv, dayVars, pubVars, laneVars, runVars
  <1>1. ASSUME Heartbeat PROVE TypeInv'
    BY <1>1 DEF Heartbeat, TypeOK, DayFit, PubFit, LaneFit, Lane, Running
  <1>2. ASSUME SchedulerTick PROVE TypeInv'
    <2>1. PICK missed, start :
            /\ TickMoves(missed, start)
            /\ RetryPublications
            /\ jobs' = TickJobs(start)
      BY <1>2, TickWalk
    <2>2. jobs' \subseteq Job
      <3>1. start \subseteq Days /\ \A d \in start : state'[d] = "closing"
        BY <2>1 DEF TickMoves, CloseDueDays
      <3>2. \A d \in Days : state'[d] = "closing" => attempts'[d] \in 1..2 /\ lastStage'[d] \in 1..5
        BY <2>1, TickDays DEF DayFit
      <3> QED BY <2>1, <3>1, <3>2, TickJobsType
    <2> QED
      BY <1>2, <2>1, <2>2, TickDays, TickPubs
      DEF SchedulerTick, TypeOK, LaneFit, Lane, Running
  <1>3. ASSUME IdleTick PROVE TypeInv'
    BY <1>3 DEF IdleTick, TypeOK, DayFit, PubFit, LaneFit, Lane, Running
  <1>4. ASSUME Claim PROVE TypeInv'
    <2>1. PICK j \in Pending(jobs) :
            /\ cur' = [j EXCEPT !.status = "running"]
            /\ jobs' = (jobs \ {j}) \cup {cur'}
      BY <1>4 DEF Claim
    <2>2. j \in Job /\ cur' \in Job
      BY <2>1, JobStatus DEF Pending, TypeOK
    <2> QED BY <1>4, <2>1, <2>2 DEF Claim, TypeOK, DayFit, PubFit, LaneFit, Running
  <1>5. ASSUME ClaimNothing PROVE TypeInv'
    BY <1>5 DEF ClaimNothing, TypeOK, DayFit, PubFit, LaneFit, Lane, Running
  <1>6. ASSUME Complete PROVE TypeInv'
    BY <1>6 DEF Complete, EndJob, TypeOK, DayFit, PubFit, LaneFit, Lane, Running
  <1>7. ASSUME SkipStage PROVE TypeInv'
    BY <1>7 DEF SkipStage, TypeOK, DayFit, PubFit, LaneFit, Running
  <1>8. ASSUME StalledStage PROVE TypeInv'
    <2>1. cur \in Job /\ cur.date \in Days /\ state[cur.date] = "closing"
      BY <1>8, JobParts DEF StalledStage, LaneFit, Running, Current
    <2> QED BY <1>8, <2>1, FailCloseDays DEF StalledStage, FailAttempt, TypeOK, PubFit, LaneFit, Running
  <1>9. ASSUME BeginFill PROVE TypeInv'
    BY <1>9 DEF BeginFill, TypeOK, DayFit, PubFit, LaneFit, Running
  <1>10. ASSUME FinishFill PROVE TypeInv'
    <2>1. cur \in Job /\ cur.date \in Days /\ cur.kind = "close" /\ cur.stage = 2
      BY <1>10, JobParts DEF FinishFill, LaneFit, Running
    <2>2. CASE Current(cur) /\ FailAttempt(cur.date)
      BY <1>10, <2>1, <2>2, FailCloseDays
      DEF FinishFill, FailAttempt, Current, TypeOK, PubFit, LaneFit, Running
    <2>3. CASE Current(cur) /\ CompleteStage(cur)
      <3>1. cur.stage \in 2..5
        BY <2>1
      <3> QED
        BY <1>10, <2>1, <2>3, <3>1, CompleteStageDays
        DEF FinishFill, CompleteStage, TypeOK, PubFit, LaneFit, Running
    <2>4. CASE UNCHANGED <<dayVars, pubVars, jobs>>
      BY <1>10, <2>4 DEF FinishFill, TypeOK, DayFit, PubFit, LaneFit, Running
    <2> QED BY <1>10, <2>2, <2>3, <2>4 DEF FinishFill
  <1>11. ASSUME RunStage PROVE TypeInv'
    <2>1. cur \in Job /\ cur.date \in Days /\ cur.kind = "close" /\ Current(cur)
      BY <1>11, JobParts DEF RunStage, LaneFit, Running, Opens
    <2>2. cur.stage \in 2..5
      BY <1>11 DEF RunStage
    <2>3. CASE FailAttempt(cur.date)
      BY <1>11, <2>1, <2>3, FailCloseDays
      DEF RunStage, FailAttempt, Current, TypeOK, PubFit, LaneFit, Running
    <2>4. CASE CompleteStage(cur)
      BY <1>11, <2>1, <2>2, <2>4, CompleteStageDays
      DEF RunStage, CompleteStage, TypeOK, PubFit, LaneFit, Running
    <2> QED BY <1>11, <2>3, <2>4 DEF RunStage
  <1>12. ASSUME Closure PROVE TypeInv'
    <2>1. cur \in Job /\ cur.date \in Days
      BY <1>12, JobParts DEF Closure, LaneFit, Running
    <2>2. PICK c \in Days :
            /\ pub' = [pub EXCEPT ![c] = "pending"]
            /\ pubAttempt' = [pubAttempt EXCEPT ![c] = 1]
            /\ pubStarted' = [pubStarted EXCEPT ![c] = now]
            /\ jobs' = Enqueue(jobs, {PublishJob(c, 1)})
      BY <1>12 DEF Closure, ClosedThrough
    <2>3. jobs' \subseteq Job
      BY <2>2, PublishJobType, EnqueueType DEF TypeOK
    <2>4. DayFit' /\ state' \in [Days -> DayState] /\ lastStage' \in [Days -> 0..6]
      BY <1>12, <2>1 DEF Closure, TypeOK, DayFit, DayState
    <2>5. PubFit' /\ pub' \in [Days -> PubState]
      BY <2>2 DEF TypeOK, PubFit, PubState, Open, Closure
    <2>6. pubAttempt' \in [Days -> 0..2] /\ pubStarted' \in [Days -> Nat]
      BY <2>2 DEF TypeOK
    <2>7. progressAt' \in [Days -> Nat]
      BY <1>12 DEF Closure, TypeOK
    <2> QED BY <1>12, <2>3, <2>4, <2>5, <2>6, <2>7 DEF Closure, TypeOK, LaneFit, Running
  <1>13. ASSUME Retention PROVE TypeInv'
    BY <1>13 DEF Retention, TypeOK, DayFit, PubFit, LaneFit, Running
  <1>14. ASSUME BeginPublication PROVE TypeInv'
    <2>1. cur \in Job /\ cur.date \in Days /\ cur.kind = "publish"
      BY <1>14, JobParts DEF BeginPublication, LaneFit, Running
    <2>2. CASE UNCHANGED pubVars
      BY <1>14, <2>2 DEF BeginPublication, TypeOK, DayFit, PubFit, LaneFit, Running
    <2>3. CASE /\ pub' = [pub EXCEPT ![cur.date] = "superseded"]
               /\ UNCHANGED <<pubAttempt, pubRetryAt, pubStarted, swapped>>
      BY <1>14, <2>1, <2>3
      DEF BeginPublication, TypeOK, DayFit, PubFit, LaneFit, Running, PubState, Open
    <2>4. CASE /\ FailPublication(cur.date)
               /\ pubStarted' = [pubStarted EXCEPT ![cur.date] = now]
      <3>1. pubStarted' \in [Days -> Nat]
        BY <2>4 DEF TypeOK
      <3> QED
        BY <1>14, <2>1, <2>4, <3>1, FailPublicationPubs
        DEF BeginPublication, FailPublication, TypeOK, DayFit, LaneFit, Running
    <2>5. CASE /\ RecordOpen(cur)
               /\ pub' = [pub EXCEPT ![cur.date] = "building"]
               /\ pubStarted' = [pubStarted EXCEPT ![cur.date] = now]
               /\ UNCHANGED <<pubAttempt, pubRetryAt, swapped>>
      <3>1. PubFit'
        BY <2>1, <2>5 DEF PubFit, TypeOK, RecordOpen, Open
      <3> QED
        BY <1>14, <2>1, <2>5, <3>1
        DEF BeginPublication, TypeOK, DayFit, LaneFit, Running, PubState
    <2> QED BY <1>14, <2>2, <2>3, <2>4, <2>5 DEF BeginPublication
  <1>15. ASSUME Swap PROVE TypeInv'
    <2>1. cur.date \in Days
      BY <1>15, JobParts DEF Swap, LaneFit, Running
    <2> QED BY <1>15, <2>1 DEF Swap, TypeOK, DayFit, PubFit, LaneFit, Running
  <1>16. ASSUME FinishPublication PROVE TypeInv'
    BY <1>16 DEF FinishPublication, TypeOK, DayFit, PubFit, LaneFit, Running, PubState, Open
  <1>17. ASSUME Raise PROVE TypeInv'
    BY <1>17 DEF Raise, TypeOK, DayFit, PubFit, LaneFit, Running
  <1>18. ASSUME FailJob PROVE TypeInv'
    <2>1. cur \in Job /\ cur.date \in Days
      BY <1>18, JobParts DEF FailJob, LaneFit, Running
    <2>2. CASE /\ Current(cur) /\ FailClose(cur.date, now)
               /\ UNCHANGED <<attempts, lastStage, progressAt, pubVars>>
      <3>1. jobs' \subseteq jobs
        BY <1>18 DEF FailJob
      <3> QED
        BY <1>18, <2>1, <2>2, <3>1, FailCloseDays
        DEF FailJob, Current, TypeOK, PubFit, LaneFit, Running, Lane
    <2>3. CASE FailPublication(cur.date) /\ UNCHANGED <<dayVars, pubStarted>>
      <3>1. jobs' \subseteq jobs
        BY <1>18 DEF FailJob
      <3> QED
        BY <1>18, <2>1, <2>3, <3>1, FailPublicationPubs
        DEF FailJob, FailPublication, TypeOK, DayFit, LaneFit, Running, Lane
    <2>4. CASE UNCHANGED <<dayVars, pubVars>>
      BY <1>18, <2>4 DEF FailJob, TypeOK, DayFit, PubFit, LaneFit, Running, Lane
    <2> QED BY <1>18, <2>2, <2>3, <2>4 DEF FailJob
  <1>19. ASSUME Stop PROVE TypeInv'
    BY <1>19, ReclaimedType DEF Stop, Down, TypeOK, DayFit, PubFit, LaneFit, Running, Starting
  <1>20. ASSUME Crash PROVE TypeInv'
    BY <1>20 DEF Crash, Down, TypeOK, DayFit, PubFit, LaneFit, Running, Starting
  <1>21. ASSUME StartReclaim PROVE TypeInv'
    BY <1>21, ReclaimedType DEF StartReclaim, TypeOK, DayFit, PubFit, LaneFit, Running, Starting
  <1>22. ASSUME StartSettle PROVE TypeInv'
    BY <1>22, SettleDays DEF StartSettle, TypeOK, LaneFit, Running, Starting
  <1>23. ASSUME StartWorker PROVE TypeInv'
    BY <1>23 DEF StartWorker, TypeOK, DayFit, PubFit, LaneFit, Running, Lane
  <1>24. ASSUME Advance PROVE TypeInv'
    BY <1>24 DEF Advance, TypeOK, DayFit, PubFit, LaneFit
  <1>25. ASSUME UNCHANGED vars PROVE TypeInv'
    BY <1>25 DEF vars, TypeOK, DayFit, PubFit, LaneFit
  <1> QED
    BY <1>1, <1>2, <1>3, <1>4, <1>5, <1>6, <1>7, <1>8, <1>9, <1>10, <1>11, <1>12,
       <1>13, <1>14, <1>15, <1>16, <1>17, <1>18, <1>19, <1>20, <1>21, <1>22, <1>23,
       <1>24, <1>25
    DEF Next, LaneStep, StageStep, StartStep

-----------------------------------------------------------------------------
(* Every step changes the days in one of five ways, or leaves them.        *)

\* The lane holds the job of stage s of d's attempt.
LaneJobOf(d, s) ==
  /\ pc \in Running
  /\ cur.kind = "close" /\ cur.date = d /\ cur.stage = s /\ cur.attempt = attempts[d]

\* The day fails, saves a stage, or is closed, by the lane.
FailDay(d) ==
  state[d] = "closing" /\ FailClose(d, now) /\ UNCHANGED <<attempts, lastStage, progressAt>>

SaveStage(d, s) ==
  /\ LaneJobOf(d, s)
  /\ state[d] = "closing" /\ lastStage[d] < s /\ s \in 2..5
  /\ lastStage' = [lastStage EXCEPT ![d] = s]
  /\ progressAt' = [progressAt EXCEPT ![d] = now]
  /\ UNCHANGED <<state, attempts, retryAt, reason>>

CloseDay(d) ==
  /\ LaneJobOf(d, 6)
  /\ state[d] = "closing" /\ lastStage[d] < 6
  /\ state' = [state EXCEPT ![d] = "closed"]
  /\ lastStage' = [lastStage EXCEPT ![d] = 6]
  /\ progressAt' = [progressAt EXCEPT ![d] = now]
  /\ UNCHANGED <<attempts, retryAt, reason>>

LEMMA DaySteps ==
  ASSUME TypeInv, startedAt <= now, [Next]_vars
  PROVE  \/ UNCHANGED dayVars
         \/ SchedulerTick /\ \E missed, start : TickMoves(missed, start)
         \/ \E d \in Days : FailDay(d)
         \/ \E d \in Days, s \in 2..5 : SaveStage(d, s)
         \/ Closure /\ \E d \in Days : CloseDay(d)
         \/ StartSettle
  <1> USE DEF TypeInv
  <1>1. ASSUME SchedulerTick PROVE \E missed, start : TickMoves(missed, start)
    BY <1>1, TickWalk
  <1>2. ASSUME StalledStage PROVE \E d \in Days : FailDay(d)
    <2>1. cur.date \in Days /\ state[cur.date] = "closing"
      BY <1>2, JobParts DEF StalledStage, LaneFit, Running, Current
    <2> QED BY <1>2, <2>1 DEF StalledStage, FailAttempt, FailDay
  <1>3. ASSUME FinishFill
        PROVE  \/ UNCHANGED dayVars
               \/ \E d \in Days : FailDay(d)
               \/ \E d \in Days, s \in 2..5 : SaveStage(d, s)
    <2>1. cur.date \in Days /\ cur.stage = 2
      BY <1>3, JobParts DEF FinishFill, LaneFit, Running
    <2>2. CASE Current(cur) /\ FailAttempt(cur.date)
      BY <2>1, <2>2 DEF FailAttempt, FailDay, Current
    <2>3. CASE Current(cur) /\ lastStage[cur.date] < cur.stage /\ CompleteStage(cur)
      <3>1. SaveStage(cur.date, 2)
        BY <1>3, <2>1, <2>3 DEF FinishFill, LaneFit, CompleteStage, SaveStage, LaneJobOf, Current, Running
      <3> QED BY <2>1, <3>1
    <2> QED BY <1>3, <2>2, <2>3 DEF FinishFill
  <1>4. ASSUME RunStage
        PROVE  \/ \E d \in Days : FailDay(d)
               \/ \E d \in Days, s \in 2..5 : SaveStage(d, s)
    <2>1. cur.date \in Days /\ Opens(cur)
      BY <1>4, JobParts DEF RunStage, LaneFit, Running
    <2>2. CASE FailAttempt(cur.date)
      BY <2>1, <2>2 DEF FailAttempt, FailDay, Current, Opens
    <2>3. CASE CompleteStage(cur)
      <3>1. cur.stage \in 2..5
        BY <1>4 DEF RunStage
      <3>2. SaveStage(cur.date, cur.stage)
        BY <1>4, <2>1, <2>3, <3>1 DEF RunStage, CompleteStage, SaveStage, LaneJobOf, Current, Opens, Running
      <3> QED BY <2>1, <3>1, <3>2
    <2> QED BY <1>4, <2>2, <2>3 DEF RunStage
  <1>5. ASSUME Closure PROVE \E d \in Days : CloseDay(d)
    <2>1. cur.date \in Days /\ state[cur.date] = "closing" /\ lastStage[cur.date] < 6
      BY <1>5, JobParts DEF Closure, LaneFit, Running, Current, Opens
    <2> QED BY <1>5, <2>1 DEF Closure, CloseDay, LaneJobOf, Current, Opens, Running
  <1>6. ASSUME FailJob PROVE UNCHANGED dayVars \/ \E d \in Days : FailDay(d)
    <2>1. cur.date \in Days
      BY <1>6, JobParts DEF FailJob, LaneFit, Running
    <2> QED BY <1>6, <2>1 DEF FailJob, FailDay, Current, dayVars
  <1>7. ASSUME \/ Heartbeat \/ IdleTick \/ Claim \/ ClaimNothing \/ Complete
               \/ SkipStage \/ BeginFill \/ Retention
               \/ BeginPublication \/ Swap \/ FinishPublication
               \/ Raise \/ Stop \/ Crash \/ StartReclaim \/ StartWorker \/ Advance
               \/ UNCHANGED vars
        PROVE  UNCHANGED dayVars
    BY <1>7
    DEF Heartbeat, IdleTick, Claim, ClaimNothing, Complete, SkipStage, BeginFill,
        Retention, BeginPublication, Swap, FinishPublication, Raise, Stop, Crash, Down,
        StartReclaim, StartWorker, Advance, vars
  <1> QED
    BY <1>1, <1>2, <1>3, <1>4, <1>5, <1>6, <1>7 DEF Next, LaneStep, StageStep, StartStep

-----------------------------------------------------------------------------
(* The days in order.                                                      *)

\* A day has a record only when every earlier day has one.
Contiguous == \A d, e \in Days : e < d /\ state[d] # "none" => state[e] # "none"

OrderInv == InOrder /\ Contiguous

LEMMA EnsuredContiguous ==
  ASSUME TypeOK, Contiguous
  PROVE  \A d, e \in Days : e < d /\ Ensured(state)[d] # "none" => Ensured(state)[e] # "none"
  <1> SUFFICES ASSUME NEW d \in Days, NEW e \in Days, e < d, Ensured(state)[d] # "none"
               PROVE  Ensured(state)[e] # "none"
    OBVIOUS
  <1>1. /\ Days \subseteq Nat /\ DayEnd \in [Days -> Nat] /\ now \in Nat
        /\ \A a, b \in Days : a < b => DayEnd[a] < DayEnd[b]
    <2>1. Days \subseteq Nat /\ now \in Nat
      BY DEF Days, TypeOK
    <2>2. /\ DayEnd \in [Days -> Nat]
          /\ \A a, b \in Days : a < b => DayEnd[a] < DayEnd[b]
      BY ConstantsAssumption
    <2> QED BY <2>1, <2>2
  <1>2. \A a \in Days : a > 2 => a - 2 \in Days
    BY ConstantsAssumption DEF Days
  <1>3. CASE state[d] # "none"
    BY <1>1, <1>3 DEF Ensured, Contiguous
  <1>4. CASE state[d] = "none" /\ d <= 2
    BY <1>1, <1>4 DEF Ensured
  <1>5. CASE state[d] = "none" /\ d > 2
    <2>1. DayEnd[d - 2] <= now
      BY <1>1, <1>2, <1>5 DEF Ensured
    <2>2. CASE e <= 2
      BY <1>1, <2>2 DEF Ensured
    <2>3. CASE e > 2
      <3>1. DayEnd[e - 2] < DayEnd[d - 2]
        BY <1>1, <1>2, <1>5, <2>3
      <3>2. DayEnd[e - 2] \in Nat /\ DayEnd[d - 2] \in Nat
        BY <1>1, <1>2, <1>5, <2>3
      <3> QED BY <1>1, <1>2, <2>1, <3>1, <3>2 DEF Ensured
    <2> QED BY <1>1, <2>2, <2>3
  <1> QED BY <1>1, <1>3, <1>4, <1>5

LEMMA TickOrder ==
  ASSUME TypeOK, OrderInv, NEW missed, NEW start, TickMoves(missed, start)
  PROVE  OrderInv'
  <1> DEFINE st == Ensured(state)
  <1>1. /\ st \in [Days -> DayState] /\ Days \subseteq Nat
        /\ \A d \in Days : st[d] = state[d] \/ (state[d] = "none" /\ st[d] = "open")
    BY DEF Ensured, TypeOK, DayState, Days
  <1>2. \A d, e \in Days : e < d /\ st[d] # "none" => st[e] # "none"
    BY EnsuredContiguous DEF OrderInv
  <1>3. /\ \A d \in missed \cup start :
             /\ d \in Days /\ st[d] \in {"open", "retry_due"}
             /\ \A e \in Days : e < d /\ IsUndone(st[e]) => e \in missed
        /\ missed \cap start = {}
        /\ CloseDueDays(st, missed, start)
    BY DEF TickMoves
  <1> HIDE DEF st
  <1>4. /\ \A d \in missed : state'[d] = "missed"
        /\ \A d \in start : state'[d] = "closing"
        /\ \A d \in Days : d \notin missed \cup start => state'[d] = st[d]
    BY <1>3 DEF CloseDueDays
  <1>5. Contiguous'
    BY <1>1, <1>2, <1>3, <1>4 DEF Contiguous
  <1>6. InOrder'
    <2> SUFFICES ASSUME NEW d \in Days, NEW e \in Days, e < d,
                        state'[d] \in {"closing", "retry_due", "closed", "missed"}
                 PROVE  IsDone(state'[e])
      BY DEF InOrder
    <2>1. CASE d \in missed \cup start
      <3>1. st[e] # "none"
        BY <1>2, <1>3, <2>1
      <3>2. CASE IsUndone(st[e])
        BY <1>3, <1>4, <2>1, <3>2 DEF IsDone
      <3>3. CASE IsDone(st[e])
        BY <1>3, <1>4, <3>3 DEF IsDone
      <3> QED BY <1>1, <3>1, <3>2, <3>3 DEF IsDone, IsUndone, DayState
    <2>2. CASE d \notin missed \cup start
      <3>1. state[d] = state'[d]
        BY <1>1, <1>4, <2>2
      <3>2. IsDone(st[e])
        BY <1>1, <3>1 DEF OrderInv, InOrder, IsDone
      <3> QED BY <1>3, <1>4, <3>2 DEF IsDone
    <2> QED BY <2>1, <2>2
  <1> QED BY <1>5, <1>6 DEF OrderInv

LEMMA NextOrder ==
  ASSUME TypeInv, startedAt <= now, OrderInv, [Next]_vars
  PROVE  OrderInv'
  <1> USE DEF TypeInv
  <1>0. Days \subseteq Nat
    BY DEF Days
  <1>1. CASE UNCHANGED dayVars
    BY <1>1 DEF dayVars, OrderInv, InOrder, Contiguous
  <1>2. CASE \E missed, start : TickMoves(missed, start)
    BY <1>2, TickOrder
  <1>3. CASE \E d \in Days : FailDay(d)
    BY <1>0, <1>3 DEF FailDay, FailClose, OrderInv, InOrder, Contiguous, IsDone, TypeOK
  <1>4. CASE \E d \in Days, s \in 2..5 : SaveStage(d, s)
    BY <1>4 DEF SaveStage, OrderInv, InOrder, Contiguous
  <1>5. CASE \E d \in Days : CloseDay(d)
    BY <1>0, <1>5 DEF CloseDay, OrderInv, InOrder, Contiguous, IsDone, TypeOK
  <1>6. CASE StartSettle
    BY <1>0, <1>6 DEF StartSettle, OrderInv, InOrder, Contiguous, IsDone, TypeOK
  <1> QED BY <1>1, <1>2, <1>3, <1>4, <1>5, <1>6, DaySteps

-----------------------------------------------------------------------------
(* The publication records.                                                *)

\* Stage 6 opens the record of the very day it closes.
LEMMA ClosureOpens ==
  ASSUME TypeInv, OrderInv, Closure
  PROVE  /\ cur.date \in Days /\ state[cur.date] = "closing"
         /\ state' = [state EXCEPT ![cur.date] = "closed"]
         /\ pub[cur.date] = "none"
         /\ pub' = [pub EXCEPT ![cur.date] = "pending"]
         /\ swapped' = swapped
  <1> USE DEF TypeInv
  <1> DEFINE d == cur.date
  <1>1. /\ d \in Days /\ state[d] = "closing"
        /\ state' = [state EXCEPT ![d] = "closed"]
        /\ swapped' = swapped
    BY JobParts DEF Closure, LaneFit, Running, Current, Opens
  <1>2. PICK c \in ClosedThrough(state') :
          pub[c] = "none" /\ pub' = [pub EXCEPT ![c] = "pending"]
    BY DEF Closure
  <1>3. Days \subseteq Nat /\ state \in [Days -> DayState] /\ c \in Days
    BY <1>2 DEF Days, TypeOK, ClosedThrough
  <1>4. /\ \A e \in Days : IsUndone(state'[e]) => c < e
        /\ state'[c] # "none"
        /\ d > c => \E f \in Days : IsUndone(state'[f]) /\ f <= d
    BY <1>1, <1>2, <1>3 DEF ClosedThrough
  <1> HIDE DEF d
  <1>5. \A e \in Days : e < d => IsDone(state[e])
    BY <1>1 DEF OrderInv, InOrder
  <1>6. \A e \in Days : d < e => state[e] \in {"none", "open"}
    BY <1>1, <1>3 DEF OrderInv, InOrder, IsDone, DayState
  <1>7. ~(c < d)
    <2> SUFFICES ASSUME c < d PROVE FALSE
      OBVIOUS
    <2>1. PICK f \in Days : IsUndone(state'[f]) /\ f <= d
      BY <1>1, <1>3, <1>4
    <2>2. CASE f = d
      BY <1>1, <1>3, <2>1, <2>2 DEF IsUndone
    <2>3. CASE f < d
      BY <1>1, <1>3, <1>5, <2>1, <2>3 DEF IsUndone, IsDone
    <2> QED BY <1>1, <1>3, <2>1, <2>2, <2>3
  <1>8. ~(d < c)
    BY <1>1, <1>3, <1>4, <1>6 DEF IsUndone
  <1>9. c = d
    BY <1>1, <1>3, <1>7, <1>8
  <1> QED BY <1>1, <1>2, <1>9 DEF d

\* What a step may do to the publication records.
PublicationStep(c) ==
  \/ /\ pub[c] \in Open /\ pub' = [pub EXCEPT ![c] = "superseded"]
     /\ UNCHANGED <<pubStarted, swapped>>
  \/ /\ pub[c] \in Open /\ pub' = [pub EXCEPT ![c] = "building"] /\ swapped' = swapped
     /\ pubStarted' = [pubStarted EXCEPT ![c] = now]
  \/ /\ pub[c] \in Open /\ FailPublication(c)
     /\ pubStarted' = pubStarted \/ pubStarted' = [pubStarted EXCEPT ![c] = now]
  \/ Swap /\ c = cur.date
  \/ FinishPublication /\ c = cur.date /\ pub' = [pub EXCEPT ![c] = "published"] /\ pub[c] = "building"

LEMMA PubSteps ==
  ASSUME TypeInv, [Next]_vars
  PROVE  \/ pub' = pub /\ swapped' = swapped /\ pubStarted' = pubStarted
         \/ SchedulerTick /\ RetryPublications
         \/ Closure
         \/ UNCHANGED dayVars /\ \E c \in Days : PublicationStep(c)
         \/ StartSettle /\ swapped' = swapped
  <1> USE DEF TypeInv, pubVars, dayVars
  <1>1. ASSUME SchedulerTick PROVE RetryPublications
    BY <1>1 DEF SchedulerTick
  <1>2. ASSUME BeginPublication
        PROVE  \/ UNCHANGED pubVars
               \/ UNCHANGED dayVars /\ \E c \in Days : PublicationStep(c)
    <2>1. cur.date \in Days
      BY <1>2, JobParts DEF BeginPublication, LaneFit, Running
    <2>2. RecordOpen(cur) => pub[cur.date] \in Open
      BY DEF RecordOpen
    <2> QED BY <1>2, <2>1, <2>2 DEF BeginPublication, PublicationStep, TypeOK
  <1>3. ASSUME Swap
        PROVE  UNCHANGED dayVars /\ \E c \in Days : PublicationStep(c)
    <2>1. cur.date \in Days
      BY <1>3, JobParts DEF Swap, LaneFit, Running
    <2> QED BY <1>3, <2>1 DEF Swap, PublicationStep
  <1>4. ASSUME FinishPublication
        PROVE  \/ UNCHANGED pubVars
               \/ UNCHANGED dayVars /\ \E c \in Days : PublicationStep(c)
    <2>1. cur.date \in Days
      BY <1>4, JobParts DEF FinishPublication, LaneFit, Running
    <2> QED BY <1>4, <2>1 DEF FinishPublication, PublicationStep
  <1>5. ASSUME FailJob
        PROVE  \/ UNCHANGED pubVars
               \/ UNCHANGED dayVars /\ \E c \in Days : PublicationStep(c)
    <2>1. cur.date \in Days
      BY <1>5, JobParts DEF FailJob, LaneFit, Running
    <2> QED BY <1>5, <2>1 DEF FailJob, PublicationStep, Open
  <1>6. ASSUME StartSettle PROVE swapped' = swapped
    BY <1>6 DEF StartSettle
  <1>7. ASSUME \/ StalledStage \/ FinishFill \/ RunStage
        PROVE  UNCHANGED pubVars
    BY <1>7 DEF StalledStage, FinishFill, RunStage, FailAttempt, CompleteStage
  <1>8. ASSUME \/ Heartbeat \/ IdleTick \/ Claim \/ ClaimNothing \/ Complete
               \/ SkipStage \/ BeginFill \/ Retention
               \/ Raise \/ Stop \/ Crash \/ StartReclaim \/ StartWorker \/ Advance
               \/ UNCHANGED vars
        PROVE  UNCHANGED pubVars
    BY <1>8
    DEF Heartbeat, IdleTick, Claim, ClaimNothing, Complete, SkipStage, BeginFill,
        Retention, Raise, Stop, Crash, Down, StartReclaim, StartWorker, Advance, vars
  <1> QED
    BY <1>1, <1>2, <1>3, <1>4, <1>5, <1>6, <1>7, <1>8
    DEF Next, LaneStep, StageStep, StartStep

\* A closed day stays closed, and stage 6 alone closes one.
LEMMA ClosedStep ==
  ASSUME TypeInv, startedAt <= now, [Next]_vars
  PROVE  \A d \in Days :
           /\ state[d] = "closed" => state'[d] = "closed"
           /\ state'[d] = "closed" => state[d] = "closed" \/ Closure
  <1> USE DEF TypeInv
  <1>1. CASE UNCHANGED dayVars
    BY <1>1 DEF dayVars
  <1>2. ASSUME NEW missed, NEW start, TickMoves(missed, start)
        PROVE  \A d \in Days : state'[d] = "closed" <=> state[d] = "closed"
    BY <1>2 DEF TickMoves, CloseDueDays, Ensured, TypeOK
  <1>3. CASE \E d \in Days : FailDay(d)
    BY <1>3 DEF FailDay, FailClose, TypeOK
  <1>4. CASE \E d \in Days, s \in 2..5 : SaveStage(d, s)
    BY <1>4 DEF SaveStage
  <1>5. CASE Closure
    BY <1>5 DEF Closure, TypeOK
  <1>6. CASE StartSettle
    BY <1>6 DEF StartSettle, TypeOK
  <1> QED BY <1>1, <1>2, <1>3, <1>4, <1>5, <1>6, DaySteps

-----------------------------------------------------------------------------
(* The inductive invariant, part by part.                                  *)

\* The process cannot have started in the future.
ClockInv == startedAt <= now

\* What the lane's place says of the publication it is making: its cutoff has
\* its rows once they are swapped in, and no later cutoff is published.
PublishingInv ==
  /\ pc = "announce" => cur.date \in swapped
  /\ pc \in {"publishing", "announce"} =>
       \A e \in Days : cur.date < e => pub[e] # "published"

\* A waiting retry is RetryDelay after the attempt's last saved progress.
SpacingInv ==
  \A d \in Days :
    /\ progressAt[d] <= now
    /\ state[d] = "retry_due" => retryAt[d] >= progressAt[d] + RetryDelay

\* What is settled at a start leaves nothing in progress.
SettledInv ==
  pc = "settled" =>
    /\ \A d \in Days : state[d] # "closing"
    /\ \A c \in Days : pub[c] # "building"

\* A start leaves no row running once it has taken the rows back.
StartJobsInv ==
  pc \in {"reclaimed", "settled"} => \A j \in jobs : j.status = "pending"

\* A stage job belongs to the day's attempt or to an earlier one, and a job of
\* this attempt is at most one stage ahead of what is saved.
Behind(j) ==
  j.kind = "close" =>
    /\ j.attempt <= attempts[j.date]
    /\ j.attempt = attempts[j.date] => j.stage <= lastStage[j.date] + 1

JobsBehind == \A j \in jobs : Behind(j)

Inv ==
  /\ TypeInv /\ ClockInv /\ OrderInv
  /\ PublicationPerClosure /\ PublishingInv /\ PublishedIsSwapped
  /\ SpacingInv /\ ReasonFits
  /\ SettledInv /\ AttemptsOfThisRun /\ StartJobsInv /\ NoStrandedJob
  /\ JobsBehind

LEMMA InitInv == Init => Inv
  <1> SUFFICES ASSUME Init PROVE Inv
    OBVIOUS
  <1>1. TypeInv
    BY InitTypeInv
  <1>2. ClockInv /\ PublishingInv /\ SpacingInv /\ SettledInv
    BY DEF Init, ClockInv, PublishingInv, SpacingInv, SettledInv
  <1>3. OrderInv
    BY ConstantsAssumption DEF Init, OrderInv, InOrder, Contiguous, Days
  <1>4. PublicationPerClosure /\ PublishedIsSwapped /\ ReasonFits
    BY DEF Init, PublicationPerClosure, PublishedIsSwapped, ReasonFits
  <1>5. AttemptsOfThisRun /\ StartJobsInv /\ NoStrandedJob /\ JobsBehind
    BY DEF Init, AttemptsOfThisRun, StartJobsInv, NoStrandedJob, JobsBehind, Running
  <1> QED BY <1>1, <1>2, <1>3, <1>4, <1>5 DEF Inv

LEMMA NextClock ==
  ASSUME TypeInv, ClockInv, [Next]_vars
  PROVE  ClockInv' /\ now \in Nat /\ now' >= now /\ now' \in Nat
  <1>1. now \in Nat /\ startedAt \in Nat
    BY DEF TypeInv, TypeOK
  <1>2. ASSUME StartWorker PROVE startedAt' = now /\ now' = now
    BY <1>2 DEF StartWorker
  <1>3. ASSUME Advance PROVE startedAt' = startedAt /\ now' = now + 1
    BY <1>3 DEF Advance, runVars
  <1>4. ASSUME \/ Heartbeat \/ SchedulerTick \/ IdleTick \/ Claim \/ ClaimNothing
               \/ StageStep \/ Complete \/ FailJob \/ Raise \/ Stop \/ Crash
               \/ StartReclaim \/ StartSettle \/ UNCHANGED vars
        PROVE  startedAt' = startedAt /\ now' = now
    BY <1>4
    DEF Heartbeat, SchedulerTick, IdleTick, Claim, ClaimNothing, StageStep, SkipStage,
        StalledStage, BeginFill, FinishFill, RunStage, Closure, Retention,
        BeginPublication, Swap, FinishPublication, Complete, FailJob, Raise, Stop,
        Crash, Down, StartReclaim, StartSettle, vars, runVars
  <1> QED BY <1>1, <1>2, <1>3, <1>4 DEF Next, LaneStep, StartStep, ClockInv

LEMMA NextPublicationPerClosure ==
  ASSUME TypeInv, ClockInv, OrderInv, PublicationPerClosure, [Next]_vars
  PROVE  PublicationPerClosure'
  <1>1. CASE Closure
    BY <1>1, ClosureOpens DEF PublicationPerClosure, TypeInv, TypeOK
  <1>2. CASE ~Closure
    <2>1. \A d \in Days : state[d] = "closed" <=> state'[d] = "closed"
      BY <1>2, ClosedStep DEF ClockInv
    <2>2. \A c \in Days : pub[c] # "none" <=> pub'[c] # "none"
      <3>1. CASE pub' = pub
        BY <3>1
      <3>2. CASE RetryPublications
        BY <3>2 DEF RetryPublications, DueRetries, Revived, TypeInv, TypeOK
      <3>3. CASE \E c \in Days : PublicationStep(c)
        BY <3>3 DEF PublicationStep, FailPublication, Swap, Open, TypeInv, TypeOK
      <3>4. CASE StartSettle
        BY <3>4 DEF StartSettle, TypeInv, TypeOK
      <3> QED BY <1>2, <3>1, <3>2, <3>3, <3>4, PubSteps
    <2> QED BY <2>1, <2>2 DEF PublicationPerClosure
  <1> QED BY <1>1, <1>2

\* The lane is publishing only since BeginPublication or Swap.
LEMMA PublishingSteps ==
  ASSUME [Next]_vars, pc' \in {"publishing", "announce"}
  PROVE  \/ /\ BeginPublication /\ pc' = "publishing" /\ cur' = cur
            /\ ~NewerPublication(cur.date)
            /\ pub' = [pub EXCEPT ![cur.date] = "building"]
         \/ /\ Swap /\ pc' = "announce" /\ cur' = cur /\ pub' = pub
            /\ swapped' = swapped \cup {cur.date}
         \/ UNCHANGED <<pc, cur, pub, swapped>>
  <1>1. ASSUME BeginPublication
        PROVE  /\ pc' = "publishing" /\ cur' = cur
               /\ ~NewerPublication(cur.date)
               /\ pub' = [pub EXCEPT ![cur.date] = "building"]
    BY <1>1 DEF BeginPublication
  <1>2. ASSUME Swap
        PROVE  /\ pc' = "announce" /\ cur' = cur /\ pub' = pub
               /\ swapped' = swapped \cup {cur.date}
    BY <1>2 DEF Swap
  <1>3. ASSUME Advance \/ UNCHANGED vars
        PROVE  UNCHANGED <<pc, cur, pub, swapped>>
    BY <1>3 DEF Advance, vars, laneVars, pubVars
  <1>4. ASSUME \/ Heartbeat \/ SchedulerTick \/ IdleTick \/ Claim \/ ClaimNothing
               \/ SkipStage \/ StalledStage \/ BeginFill \/ FinishFill \/ RunStage
               \/ Closure \/ Retention \/ FinishPublication \/ Complete \/ FailJob
               \/ Raise \/ Stop \/ Crash \/ StartReclaim \/ StartSettle \/ StartWorker
        PROVE  pc' \notin {"publishing", "announce"}
    BY <1>4
    DEF Heartbeat, SchedulerTick, IdleTick, Claim, ClaimNothing, SkipStage,
        StalledStage, BeginFill, FinishFill, RunStage, Closure, Retention,
        FinishPublication, Complete, EndJob, FailJob, Raise,
        Stop, Crash, Down, StartReclaim, StartSettle, StartWorker
  <1> QED BY <1>1, <1>2, <1>3, <1>4 DEF Next, LaneStep, StageStep, StartStep

LEMMA NextPublishing ==
  ASSUME TypeInv, PublishingInv, [Next]_vars
  PROVE  PublishingInv'
  <1> SUFFICES ASSUME pc' \in {"publishing", "announce"}
               PROVE  PublishingInv'
    BY DEF PublishingInv
  <1>1. CASE /\ BeginPublication /\ pc' = "publishing" /\ cur' = cur
             /\ ~NewerPublication(cur.date)
             /\ pub' = [pub EXCEPT ![cur.date] = "building"]
    <2>1. cur.date \in Days
      BY <1>1, JobParts DEF BeginPublication, TypeInv, LaneFit, Running
    <2>2. \A e \in Days : cur.date < e => pub[e] # "published"
      BY <1>1 DEF NewerPublication
    <2> QED BY <1>1, <2>1, <2>2 DEF PublishingInv, TypeInv, TypeOK
  <1>2. CASE /\ Swap /\ pc' = "announce" /\ cur' = cur /\ pub' = pub
             /\ swapped' = swapped \cup {cur.date}
    BY <1>2 DEF PublishingInv, Swap
  <1>3. CASE UNCHANGED <<pc, cur, pub, swapped>>
    BY <1>3 DEF PublishingInv
  <1> QED BY <1>1, <1>2, <1>3, PublishingSteps

LEMMA NextPublishedIsSwapped ==
  ASSUME TypeInv, ClockInv, OrderInv, PublicationPerClosure, PublishingInv,
         PublishedIsSwapped, [Next]_vars
  PROVE  PublishedIsSwapped'
  <1> USE DEF TypeInv
  <1>1. \A c \in swapped : c \in Days /\ state'[c] = "closed"
    BY ClosedStep DEF ClockInv, PublishedIsSwapped, TypeOK
  <1>2. CASE pub' = pub /\ swapped' = swapped
    BY <1>1, <1>2 DEF PublishedIsSwapped
  <1>3. CASE RetryPublications
    <2>1. \A c \in Days : pub'[c] = "published" => pub[c] = "published"
      BY <1>3 DEF RetryPublications, TypeOK
    <2> QED BY <1>1, <1>3, <2>1 DEF RetryPublications, PublishedIsSwapped
  <1>4. CASE Closure
    <2>1. \A c \in Days : pub'[c] = "published" => pub[c] = "published"
      BY <1>4, ClosureOpens DEF TypeOK
    <2> QED BY <1>1, <1>4, <2>1, ClosureOpens DEF PublishedIsSwapped
  <1>5. ASSUME NEW c \in Days, PublicationStep(c), UNCHANGED dayVars
        PROVE  PublishedIsSwapped'
    <2>1. CASE Swap
      BY <1>1, <1>5, <2>1 DEF Swap, PublishedIsSwapped, dayVars
    <2>2. CASE FinishPublication
      BY <1>1, <1>5, <2>2 DEF FinishPublication, PublishingInv, PublishedIsSwapped, TypeOK
    <2>3. CASE /\ pub' = [pub EXCEPT ![c] = "superseded"] \/ pub' = [pub EXCEPT ![c] = "building"]
               /\ swapped' = swapped
      BY <1>1, <1>5, <2>3 DEF PublishedIsSwapped, TypeOK
    <2>4. CASE FailPublication(c)
      BY <1>1, <1>5, <2>4 DEF FailPublication, PublishedIsSwapped, TypeOK
    <2> QED BY <1>5, <2>1, <2>2, <2>3, <2>4 DEF PublicationStep
  <1>6. CASE StartSettle /\ swapped' = swapped
    <2>1. \A c \in Days : pub'[c] = "published" => pub[c] = "published"
      BY <1>6 DEF StartSettle, TypeOK
    <2> QED BY <1>1, <1>6, <2>1 DEF PublishedIsSwapped
  <1> QED BY <1>2, <1>3, <1>4, <1>5, <1>6, PubSteps

LEMMA NextSpacing ==
  ASSUME TypeInv, ClockInv, SpacingInv, [Next]_vars
  PROVE  SpacingInv'
  <1> USE DEF TypeInv
  <1>1. /\ now \in Nat /\ now' \in Nat /\ now <= now' /\ RetryDelay \in Nat
        /\ progressAt \in [Days -> Nat] /\ retryAt \in [Days -> Nat]
        /\ state \in [Days -> DayState] /\ lastLoop \in Nat
    BY NextClock, ConstantsAssumption DEF TypeOK
  <1>2. CASE UNCHANGED dayVars
    BY <1>1, <1>2 DEF dayVars, SpacingInv
  <1>3. ASSUME NEW missed, NEW start, TickMoves(missed, start)
        PROVE  SpacingInv'
    <2>1. CloseDueDays(Ensured(state), missed, start)
      BY <1>3 DEF TickMoves
    <2>2. \A d \in Days : state'[d] = "retry_due" => state[d] = "retry_due" /\ d \notin start
      BY <2>1 DEF CloseDueDays, Ensured
    <2>3. \A d \in Days : retryAt'[d] = retryAt[d]
                          /\ progressAt'[d] = (IF d \in start THEN now ELSE progressAt[d])
      BY <2>1 DEF CloseDueDays
    <2> QED BY <1>1, <2>2, <2>3 DEF SpacingInv
  <1>4. ASSUME NEW d \in Days, FailDay(d)
        PROVE  SpacingInv'
    BY <1>1, <1>4 DEF FailDay, FailClose, SpacingInv
  <1>5. ASSUME NEW d \in Days, NEW s \in 2..5, SaveStage(d, s)
        PROVE  SpacingInv'
    BY <1>1, <1>5 DEF SaveStage, SpacingInv
  <1>6. ASSUME NEW d \in Days, CloseDay(d)
        PROVE  SpacingInv'
    BY <1>1, <1>6 DEF CloseDay, SpacingInv
  <1>7. CASE StartSettle
    <2>1. \A d \in Days : state'[d] = "retry_due" /\ state[d] # "retry_due"
                            => retryAt'[d] = StopTime(progressAt[d]) + RetryDelay
      BY <1>7 DEF StartSettle
    <2>2. \A d \in Days : state[d] = "retry_due" => retryAt'[d] = retryAt[d]
      BY <1>7 DEF StartSettle
    <2>3. \A d \in Days : StopTime(progressAt[d]) >= progressAt[d] /\ StopTime(progressAt[d]) \in Nat
      BY <1>1 DEF StopTime, Larger
    <2>4. progressAt' = progressAt
      BY <1>7 DEF StartSettle
    <2> QED BY <1>1, <2>1, <2>2, <2>3, <2>4 DEF SpacingInv
  <1> QED BY <1>2, <1>3, <1>4, <1>5, <1>6, <1>7, DaySteps DEF ClockInv

LEMMA NextReasonFits ==
  ASSUME TypeInv, ClockInv, ReasonFits, [Next]_vars
  PROVE  ReasonFits'
  <1> USE DEF TypeInv
  <1>2. CASE UNCHANGED dayVars
    BY <1>2 DEF dayVars, ReasonFits
  <1>3. ASSUME NEW missed, NEW start, TickMoves(missed, start)
        PROVE  ReasonFits'
    <2> DEFINE st == Ensured(state)
    <2>1. /\ CloseDueDays(st, missed, start)
          /\ \A d \in missed : d \in Days /\ st[d] \in {"open", "retry_due"}
          /\ \A d \in start : d \in Days /\ d \notin missed /\ st[d] \in {"open", "retry_due"}
          /\ \A d \in start : st[d] = "open" => d \notin Changeover
      BY <1>3 DEF TickMoves
    <2>2. \A d \in Days : st[d] = state[d] \/ (state[d] = "none" /\ st[d] = "open")
      BY DEF Ensured
    <2> HIDE DEF st
    <2> SUFFICES ASSUME NEW d \in Days
                 PROVE  /\ state'[d] = "missed" <=> reason'[d] # "none"
                        /\ reason'[d] \in {"never_attempted", "zone_changeover"} => attempts'[d] = 0
                        /\ reason'[d] = "retry_not_run" => attempts'[d] = 1
                        /\ reason'[d] = "retry_failed" => attempts'[d] = 2
                        /\ d \in Changeover => attempts'[d] = 0 /\ reason'[d] \in {"none", "zone_changeover"}
      BY DEF ReasonFits
    <2>3. CASE d \in missed
      BY <2>1, <2>2, <2>3 DEF CloseDueDays, MissReason, ReasonFits, DayFit
    <2>4. CASE d \in start
      BY <2>1, <2>2, <2>4 DEF CloseDueDays, ReasonFits, DayFit
    <2>5. CASE d \notin missed /\ d \notin start
      BY <2>1, <2>2, <2>5 DEF CloseDueDays, ReasonFits
    <2> QED BY <2>3, <2>4, <2>5
  <1>4. ASSUME NEW d \in Days, FailDay(d)
        PROVE  ReasonFits'
    BY <1>4 DEF FailDay, FailClose, ReasonFits, DayFit, TypeOK
  <1>5. ASSUME NEW d \in Days, NEW s \in 2..5, SaveStage(d, s)
        PROVE  ReasonFits'
    BY <1>5 DEF SaveStage, ReasonFits
  <1>6. ASSUME NEW d \in Days, CloseDay(d)
        PROVE  ReasonFits'
    BY <1>6 DEF CloseDay, ReasonFits, TypeOK
  <1>7. CASE StartSettle
    <2> SUFFICES ASSUME NEW d \in Days
                 PROVE  /\ state'[d] = "missed" <=> reason'[d] # "none"
                        /\ reason'[d] \in {"never_attempted", "zone_changeover"} => attempts'[d] = 0
                        /\ reason'[d] = "retry_not_run" => attempts'[d] = 1
                        /\ reason'[d] = "retry_failed" => attempts'[d] = 2
                        /\ d \in Changeover => attempts'[d] = 0 /\ reason'[d] \in {"none", "zone_changeover"}
      BY DEF ReasonFits
    <2>1. CASE state[d] = "closing"
      BY <1>7, <2>1 DEF StartSettle, ReasonFits, DayFit
    <2>2. CASE state[d] # "closing"
      BY <1>7, <2>2 DEF StartSettle, ReasonFits
    <2> QED BY <2>1, <2>2
  <1> QED BY <1>2, <1>3, <1>4, <1>5, <1>6, <1>7, DaySteps DEF ClockInv

\* Where the lane comes up from, and where a settled start.
LEMMA LaneSteps ==
  ASSUME TypeInv, [Next]_vars
  PROVE  /\ pc' = "settled" => StartSettle \/ (pc = "settled" /\ state' = state /\ pub' = pub)
         /\ pc' \notin Starting =>
              \/ StartWorker
              \/ pc \notin Starting /\ startedAt' = startedAt /\ ~StartSettle
  <1>1. CASE StartSettle
    BY <1>1 DEF StartSettle, Starting
  <1>2. CASE StartWorker
    BY <1>2 DEF StartWorker
  <1>3. CASE StartReclaim \/ Stop \/ Crash
    BY <1>3 DEF StartReclaim, Stop, Crash, Down, Starting
  <1>4. CASE Advance \/ UNCHANGED vars
    BY <1>4 DEF Advance, vars, laneVars, runVars, dayVars, pubVars, StartSettle, Starting
  <1>5. ASSUME \/ Heartbeat \/ SchedulerTick \/ IdleTick \/ Claim \/ ClaimNothing
               \/ SkipStage \/ StalledStage \/ BeginFill \/ FinishFill \/ RunStage
               \/ Closure \/ Retention \/ BeginPublication \/ Swap \/ FinishPublication
               \/ Complete \/ FailJob \/ Raise
        PROVE  pc' # "settled" /\ pc \notin Starting /\ startedAt' = startedAt
    BY <1>5
    DEF Heartbeat, SchedulerTick, IdleTick, Claim, ClaimNothing, SkipStage,
        StalledStage, BeginFill, FinishFill, RunStage, Closure, Retention,
        BeginPublication, Swap, FinishPublication, Complete, EndJob, FailJob, Raise,
        Starting, Running, runVars
  <1> QED
    BY <1>1, <1>2, <1>3, <1>4, <1>5
    DEF Next, LaneStep, StageStep, StartStep, StartSettle, Starting

LEMMA NextSettled ==
  ASSUME TypeInv, SettledInv, [Next]_vars
  PROVE  SettledInv'
  <1> SUFFICES ASSUME pc' = "settled" PROVE SettledInv'
    BY DEF SettledInv
  <1>1. CASE StartSettle
    BY <1>1 DEF StartSettle, SettledInv
  <1>2. CASE pc = "settled" /\ state' = state /\ pub' = pub
    BY <1>2 DEF SettledInv
  <1> QED BY <1>1, <1>2, LaneSteps

LEMMA NextAttemptsOfThisRun ==
  ASSUME TypeInv, ClockInv, SpacingInv, SettledInv, AttemptsOfThisRun, [Next]_vars
  PROVE  AttemptsOfThisRun'
  <1> USE DEF TypeInv
  <1> SUFFICES ASSUME pc' \notin Starting PROVE AttemptsOfThisRun'
    BY DEF AttemptsOfThisRun
  <1>1. /\ now \in Nat /\ startedAt \in Nat /\ startedAt <= now
        /\ progressAt \in [Days -> Nat] /\ pubStarted \in [Days -> Nat]
        /\ state \in [Days -> DayState] /\ pub \in [Days -> PubState]
    BY DEF TypeOK, ClockInv
  <1>2. CASE StartWorker
    <2>1. \A d \in Days : state'[d] # "closing" /\ pub'[d] # "building"
      BY <1>2 DEF StartWorker, SettledInv, dayVars, pubVars
    <2> QED BY <2>1 DEF AttemptsOfThisRun
  <1>3. CASE pc \notin Starting /\ startedAt' = startedAt /\ ~StartSettle
    <2>1. \A d \in Days : state'[d] = "closing" => progressAt'[d] >= startedAt
      <3>1. CASE UNCHANGED dayVars
        BY <1>3, <3>1 DEF dayVars, AttemptsOfThisRun
      <3>2. ASSUME NEW missed, NEW start, TickMoves(missed, start)
            PROVE  \A d \in Days : state'[d] = "closing" => progressAt'[d] >= startedAt
        <4>1. CloseDueDays(Ensured(state), missed, start)
          BY <3>2 DEF TickMoves
        <4>2. \A d \in Days : state'[d] = "closing" => d \in start \/ state[d] = "closing"
          BY <4>1 DEF CloseDueDays, Ensured
        <4>3. \A d \in Days : progressAt'[d] = (IF d \in start THEN now ELSE progressAt[d])
          BY <4>1 DEF CloseDueDays
        <4> QED BY <1>1, <1>3, <4>2, <4>3 DEF AttemptsOfThisRun
      <3>3. ASSUME NEW d \in Days, FailDay(d)
            PROVE  \A e \in Days : state'[e] = "closing" => progressAt'[e] >= startedAt
        <4>1. progressAt' = progressAt /\ \A e \in Days : state'[e] = "closing" => state[e] = "closing"
          BY <1>1, <3>3 DEF FailDay, FailClose
        <4> QED BY <1>3, <4>1 DEF AttemptsOfThisRun
      <3>4. ASSUME NEW d \in Days, NEW s \in 2..5, SaveStage(d, s)
            PROVE  \A e \in Days : state'[e] = "closing" => progressAt'[e] >= startedAt
        BY <1>1, <1>3, <3>4 DEF SaveStage, AttemptsOfThisRun
      <3>5. ASSUME NEW d \in Days, CloseDay(d)
            PROVE  \A e \in Days : state'[e] = "closing" => progressAt'[e] >= startedAt
        BY <1>1, <1>3, <3>5 DEF CloseDay, AttemptsOfThisRun
      <3> QED BY <1>3, <3>1, <3>2, <3>3, <3>4, <3>5, DaySteps DEF ClockInv
    <2>2. \A c \in Days : pub'[c] = "building" => pubStarted'[c] >= startedAt
      <3>1. CASE pub' = pub /\ pubStarted' = pubStarted
        BY <1>3, <3>1 DEF AttemptsOfThisRun
      <3>2. CASE RetryPublications
        <4>1. pubStarted' = pubStarted /\ \A c \in Days : pub'[c] = "building" => pub[c] = "building"
          BY <3>2 DEF RetryPublications
        <4> QED BY <1>3, <4>1 DEF AttemptsOfThisRun
      <3>3. CASE Closure
        <4>1. PICK c \in Days : /\ pub' = [pub EXCEPT ![c] = "pending"]
                                /\ pubStarted' = [pubStarted EXCEPT ![c] = now]
          BY <3>3 DEF Closure, ClosedThrough
        <4> QED BY <1>1, <1>3, <4>1 DEF AttemptsOfThisRun
      <3>4. ASSUME NEW c \in Days, PublicationStep(c)
            PROVE  \A e \in Days : pub'[e] = "building" => pubStarted'[e] >= startedAt
        <4>1. \A e \in Days : pub'[e] = "building" =>
                 (e = c /\ pubStarted'[e] = now) \/ (pub[e] = "building" /\ pubStarted'[e] = pubStarted[e])
          <5>1. CASE FailPublication(c)
            BY <1>1, <3>4, <5>1 DEF FailPublication, PublicationStep, Swap, FinishPublication
          <5>2. CASE Swap \/ FinishPublication
            BY <1>1, <5>2 DEF Swap, FinishPublication
          <5>3. CASE UNCHANGED pubStarted /\ pub' = [pub EXCEPT ![c] = "superseded"]
            BY <1>1, <5>3
          <5>4. CASE /\ pub' = [pub EXCEPT ![c] = "building"]
                     /\ pubStarted' = [pubStarted EXCEPT ![c] = now]
            BY <1>1, <5>4
          <5> QED BY <3>4, <5>1, <5>2, <5>3, <5>4 DEF PublicationStep
        <4> QED BY <1>1, <1>3, <4>1 DEF AttemptsOfThisRun
      <3> QED BY <1>3, <3>1, <3>2, <3>3, <3>4, PubSteps
    <2> QED BY <1>3, <2>1, <2>2 DEF AttemptsOfThisRun
  <1> QED BY <1>2, <1>3, LaneSteps

-----------------------------------------------------------------------------
(* The rows the lane holds.                                                *)

Claimed(js) == {j \in js : j.status = "running"}

LEMMA EnqueueClaimed ==
  ASSUME NEW js, NEW new, \A j \in new : j.status = "pending"
  PROVE  Claimed(Enqueue(js, new)) = Claimed(js) /\ Claimed(js \cup new) = Claimed(js)
  BY DEF Enqueue, Claimed

LEMMA TickClaimed ==
  ASSUME NEW start
  PROVE  Claimed(TickJobs(start)) = Claimed(jobs)
  <1> DEFINE closing  == {d \in Days : state'[d] = "closing"}
             open     == {c \in Days : pub[c] \in Open}
             first    == {CloseJob(d, 2, attempts'[d]) : d \in start}
             close    == {CloseJob(d, lastStage'[d] + 1, attempts'[d]) : d \in closing}
             publish  == {PublishJob(c, pubAttempt[c]) : c \in Earliest(open)}
             again    == {PublishJob(c, 2) : c \in Earliest(Revived)}
             started  == Enqueue(jobs, first)
             closeRep == IF Live(started, "close") = {} THEN started \cup close ELSE started
             pubRep   == IF Live(closeRep, "publish") = {} THEN closeRep \cup publish ELSE closeRep
  <1>1. /\ \A j \in first : j.status = "pending"
        /\ \A j \in close : j.status = "pending"
        /\ \A j \in publish : j.status = "pending"
        /\ \A j \in again : j.status = "pending"
    <2>1. /\ \A d, s, a : CloseJob(d, s, a).status = "pending"
          /\ \A c, a : PublishJob(c, a).status = "pending"
      BY DEF CloseJob, PublishJob
    <2> HIDE DEF closing, open
    <2>2. \A j \in first : j.status = "pending"
      BY ONLY <2>1, Zenon
    <2>3. \A j \in close : j.status = "pending"
      BY ONLY <2>1, Zenon
    <2>4. \A j \in publish : j.status = "pending"
      BY ONLY <2>1, Zenon
    <2>5. \A j \in again : j.status = "pending"
      BY ONLY <2>1, Zenon
    <2> QED BY <2>2, <2>3, <2>4, <2>5
  <1>2. TickJobs(start) = Enqueue(pubRep, again)
    BY DEF TickJobs
  <1> HIDE DEF first, close, publish, again
  <1>3. Claimed(started) = Claimed(jobs)
    BY <1>1, EnqueueClaimed
  <1> HIDE DEF started
  <1>4. Claimed(closeRep) = Claimed(jobs)
    <2>1. Claimed(started \cup close) = Claimed(started)
      BY <1>1, EnqueueClaimed
    <2> QED BY <1>3, <2>1
  <1> HIDE DEF closeRep
  <1>5. Claimed(pubRep) = Claimed(jobs)
    <2>1. Claimed(closeRep \cup publish) = Claimed(closeRep)
      BY <1>1, EnqueueClaimed
    <2> QED BY <1>4, <2>1
  <1> HIDE DEF pubRep
  <1>6. Claimed(Enqueue(pubRep, again)) = Claimed(pubRep)
    BY <1>1, EnqueueClaimed
  <1> QED BY <1>2, <1>5, <1>6

\* A step that fails an attempt or saves a stage leaves the lane's row alone.
LEMMA StageClaimed ==
  /\ \A d \in Days : FailAttempt(d) => Claimed(jobs') = Claimed(jobs)
  /\ CompleteStage(cur) => Claimed(jobs') = Claimed(jobs)
  <1>1. ASSUME NEW d \in Days, FailAttempt(d) PROVE Claimed(jobs') = Claimed(jobs)
    BY <1>1 DEF FailAttempt, Claimed
  <1>2. ASSUME CompleteStage(cur) PROVE Claimed(jobs') = Claimed(jobs)
    <2>1. jobs' = Enqueue(jobs, {CloseJob(cur.date, cur.stage + 1, cur.attempt)})
      BY <1>2 DEF CompleteStage
    <2>2. \A j \in {CloseJob(cur.date, cur.stage + 1, cur.attempt)} : j.status = "pending"
      BY DEF CloseJob
    <2> QED BY <2>1, <2>2, EnqueueClaimed
  <1> QED BY <1>1, <1>2

\* What a step does to the rows, by the lane's place after it.
LEMMA RowSteps ==
  ASSUME TypeInv, [Next]_vars
  PROVE  \/ Claimed(jobs') = Claimed(jobs) /\ cur' = cur
            /\ \/ pc \in Running /\ pc' \in Running
               \/ pc \in Lane \cup {"reclaimed", "settled"}
                  /\ pc' \in Lane \cup {"reclaimed", "settled"}
               \/ pc' = pc
         \/ pc \in Lane /\ pc' \in Running /\ \E j \in jobs : jobs' = (jobs \ {j}) \cup {cur'}
            /\ cur'.status = "running"
         \/ pc \in Running /\ pc' \in Lane /\ jobs' \subseteq jobs \ {cur}
         \/ pc' = "down"
         \/ pc' = "reclaimed" /\ jobs' = Reclaimed(jobs)
         \/ pc \in {"reclaimed", "settled"} /\ pc' \in Lane \cup {"settled"} /\ jobs' \subseteq jobs
  <1> USE DEF Running, Lane
  <1>1. ASSUME SchedulerTick PROVE Claimed(jobs') = Claimed(jobs) /\ cur' = cur
    <2>1. \E start : jobs' = TickJobs(start)
      BY <1>1 DEF SchedulerTick
    <2> QED BY <1>1, <2>1, TickClaimed DEF SchedulerTick
  <1>2. ASSUME StalledStage \/ FinishFill \/ RunStage
        PROVE  /\ Claimed(jobs') = Claimed(jobs) /\ cur' = cur
               /\ pc \in Running /\ pc' \in Running
    <2>1. cur.date \in Days
      BY <1>2, JobParts DEF StalledStage, FinishFill, RunStage, TypeInv, LaneFit
    <2> QED BY <1>2, <2>1, StageClaimed DEF StalledStage, FinishFill, RunStage
  <1>3. ASSUME Closure
        PROVE  /\ Claimed(jobs') = Claimed(jobs) /\ cur' = cur
               /\ pc \in Running /\ pc' \in Running
    <2>1. PICK c : jobs' = Enqueue(jobs, {PublishJob(c, 1)})
      BY <1>3 DEF Closure
    <2>2. \A j \in {PublishJob(c, 1)} : j.status = "pending"
      BY DEF PublishJob
    <2>3. Claimed(jobs') = Claimed(jobs)
      BY <2>1, <2>2, EnqueueClaimed
    <2> QED BY <1>3, <2>3 DEF Closure
  <1>4. ASSUME \/ SkipStage \/ BeginFill \/ Retention
               \/ BeginPublication \/ Swap \/ FinishPublication \/ Raise
        PROVE  jobs' = jobs /\ cur' = cur /\ pc \in Running /\ pc' \in Running
    BY <1>4
    DEF SkipStage, BeginFill, Retention, BeginPublication, Swap, FinishPublication, Raise
  <1>5. ASSUME Heartbeat \/ IdleTick \/ ClaimNothing
        PROVE  jobs' = jobs /\ cur' = cur /\ pc \in Lane /\ pc' \in Lane
    BY <1>5 DEF Heartbeat, IdleTick, ClaimNothing
  <1>6. ASSUME Claim
        PROVE  /\ pc \in Lane /\ pc' \in Running
               /\ \E j \in jobs : jobs' = (jobs \ {j}) \cup {cur'}
               /\ cur'.status = "running"
    <2>1. PICK j \in Pending(jobs) :
            /\ cur' = [j EXCEPT !.status = "running"]
            /\ jobs' = (jobs \ {j}) \cup {cur'}
      BY <1>6 DEF Claim
    <2>2. j \in jobs /\ j \in Job
      BY <2>1 DEF Pending, TypeInv, TypeOK
    <2>3. cur'.status = "running"
      BY <2>1, <2>2 DEF Job
    <2> QED BY <1>6, <2>1, <2>2, <2>3 DEF Claim
  <1>7. ASSUME Complete \/ FailJob
        PROVE  pc \in Running /\ pc' \in Lane /\ jobs' \subseteq jobs \ {cur}
    BY <1>7 DEF Complete, EndJob, FailJob
  <1>8. ASSUME Stop \/ Crash PROVE pc' = "down"
    BY <1>8 DEF Stop, Crash, Down
  <1>9. ASSUME StartReclaim PROVE pc' = "reclaimed" /\ jobs' = Reclaimed(jobs)
    BY <1>9 DEF StartReclaim
  <1>10. ASSUME StartSettle \/ StartWorker
         PROVE  /\ pc \in {"reclaimed", "settled"} /\ pc' \in Lane \cup {"settled"}
                /\ jobs' \subseteq jobs
    BY <1>10 DEF StartSettle, StartWorker
  <1>11. ASSUME Advance \/ UNCHANGED vars PROVE jobs' = jobs /\ cur' = cur /\ pc' = pc
    BY <1>11 DEF Advance, vars, laneVars
  <1>12. SchedulerTick => pc \in Lane /\ pc' \in Lane
    BY DEF SchedulerTick
  <1> QED
    BY <1>1, <1>2, <1>3, <1>4, <1>5, <1>6, <1>7, <1>8, <1>9, <1>10, <1>11, <1>12
    DEF Next, LaneStep, StageStep, StartStep

LEMMA NextNoStranded ==
  ASSUME TypeInv, ClockInv, StartJobsInv, NoStrandedJob, [Next]_vars
  PROVE  StartJobsInv' /\ NoStrandedJob'
  <1> DEFINE Idle == Lane \cup {"reclaimed", "settled"}
  <1>1. /\ jobs \subseteq Job /\ \A j \in jobs : j.status \in Status
    BY DEF TypeInv, TypeOK, Job
  <1>2. jobs' \subseteq Job
    BY NextTypeInv DEF TypeInv, TypeOK, ClockInv
  <1>3. /\ pc \in Idle => Claimed(jobs) = {}
        /\ pc \in Running => Claimed(jobs) = {cur}
    BY DEF StartJobsInv, NoStrandedJob, Claimed
  <1>4. /\ pc' \in Idle => Claimed(jobs') = {}
        /\ pc' \in Running => Claimed(jobs') = {cur'}
    <2> USE DEF Running, Lane
    <2>1. CASE Claimed(jobs') = Claimed(jobs) /\ cur' = cur
               /\ (\/ pc \in Running /\ pc' \in Running
                   \/ pc \in Idle /\ pc' \in Idle
                   \/ pc' = pc)
      BY <1>3, <2>1
    <2>2. CASE pc \in Lane /\ pc' \in Running /\ (\E j \in jobs : jobs' = (jobs \ {j}) \cup {cur'})
               /\ cur'.status = "running"
      BY <1>3, <2>2 DEF Claimed
    <2>3. CASE pc \in Running /\ pc' \in Lane /\ jobs' \subseteq jobs \ {cur}
      BY <1>3, <2>3 DEF Claimed
    <2>4. CASE pc' = "down"
      BY <2>4
    <2>5. CASE pc' = "reclaimed" /\ jobs' = Reclaimed(jobs)
      <3>1. \A j \in jobs : [j EXCEPT !.status = "pending"].status = "pending"
        BY <1>1 DEF Job
      <3> QED BY <2>5, <3>1 DEF Claimed, Reclaimed
    <2>6. CASE pc \in {"reclaimed", "settled"} /\ pc' \in Lane \cup {"settled"} /\ jobs' \subseteq jobs
      BY <1>3, <2>6 DEF Claimed
    <2> QED BY <2>1, <2>2, <2>3, <2>4, <2>5, <2>6, RowSteps
  <1>5. \A j \in jobs' : j.status \in {"pending", "running"}
    BY <1>2 DEF Job, Status
  <1> QED BY <1>4, <1>5 DEF StartJobsInv, NoStrandedJob, Claimed

-----------------------------------------------------------------------------
(* The stage jobs and the attempt they belong to.                          *)

\* The stage jobs a tick adds: the start's and the repair's.
LEMMA TickRows ==
  ASSUME NEW start, NEW j \in TickJobs(start), j.kind = "close", j \notin jobs
  PROVE  \/ \E d \in start : j = CloseJob(d, 2, attempts'[d])
         \/ \E d \in Days : state'[d] = "closing" /\ j = CloseJob(d, lastStage'[d] + 1, attempts'[d])
  <1> DEFINE closing  == {d \in Days : state'[d] = "closing"}
             open     == {c \in Days : pub[c] \in Open}
             first    == {CloseJob(d, 2, attempts'[d]) : d \in start}
             close    == {CloseJob(d, lastStage'[d] + 1, attempts'[d]) : d \in closing}
             publish  == {PublishJob(c, pubAttempt[c]) : c \in Earliest(open)}
             again    == {PublishJob(c, 2) : c \in Earliest(Revived)}
             started  == Enqueue(jobs, first)
             closeRep == IF Live(started, "close") = {} THEN started \cup close ELSE started
             pubRep   == IF Live(closeRep, "publish") = {} THEN closeRep \cup publish ELSE closeRep
  <1>1. TickJobs(start) = Enqueue(pubRep, again)
    BY DEF TickJobs
  <1>2. (\A k \in publish : k.kind = "publish") /\ (\A k \in again : k.kind = "publish")
    <2>1. \A c, a : PublishJob(c, a).kind = "publish"
      BY DEF PublishJob
    <2>2. \A k \in publish : k.kind = "publish"
      BY ONLY <2>1, Zenon
    <2>3. \A k \in again : k.kind = "publish"
      BY ONLY <2>1, Zenon
    <2> QED BY <2>2, <2>3
  <1> HIDE DEF first, close, publish, again, pubRep
  <1>3. j \in pubRep
    BY <1>1, <1>2 DEF Enqueue
  <1>4. j \in first \/ j \in close
    BY <1>2, <1>3 DEF pubRep, Enqueue
  <1> QED BY <1>4 DEF first, close

\* The stage jobs any other step adds: the lane's next one.
LEMMA StageRows ==
  ASSUME TypeInv, [Next]_vars, ~SchedulerTick, NEW j \in jobs', j.kind = "close"
  PROVE  \/ \E k \in jobs : /\ k.kind = "close" /\ k.date = j.date
                            /\ k.stage = j.stage /\ k.attempt = j.attempt
         \/ /\ FinishFill \/ RunStage
            /\ CompleteStage(cur) /\ j = CloseJob(cur.date, cur.stage + 1, cur.attempt)
  <1>1. CASE j \in jobs
    BY <1>1
  <1>2. ASSUME StalledStage \/ FinishFill \/ RunStage
        PROVE  \/ j \in jobs
               \/ /\ FinishFill \/ RunStage
                  /\ CompleteStage(cur) /\ j = CloseJob(cur.date, cur.stage + 1, cur.attempt)
    BY <1>2 DEF StalledStage, FinishFill, RunStage, FailAttempt, CompleteStage, Enqueue
  <1>3. ASSUME Closure PROVE j \in jobs
    <2>1. PICK c : jobs' = Enqueue(jobs, {PublishJob(c, 1)})
      BY <1>3 DEF Closure
    <2>2. PublishJob(c, 1).kind = "publish"
      BY DEF PublishJob
    <2> QED BY <2>1, <2>2 DEF Enqueue
  <1>4. ASSUME Claim
        PROVE  \E k \in jobs : /\ k.kind = j.kind /\ k.date = j.date
                               /\ k.stage = j.stage /\ k.attempt = j.attempt
    <2>1. PICK k \in Pending(jobs) : jobs' = (jobs \ {k}) \cup {[k EXCEPT !.status = "running"]}
      BY <1>4 DEF Claim
    <2>2. k \in jobs /\ k \in Job
      BY <2>1 DEF Pending, TypeInv, TypeOK
    <2>3. j \in jobs \/ j = [k EXCEPT !.status = "running"]
      BY <2>1
    <2> QED BY <2>2, <2>3 DEF Job
  <1>5. ASSUME StartReclaim \/ Stop
        PROVE  \E k \in jobs : /\ k.kind = j.kind /\ k.date = j.date
                               /\ k.stage = j.stage /\ k.attempt = j.attempt
    <2>1. jobs' = Reclaimed(jobs)
      BY <1>5 DEF StartReclaim, Stop
    <2>2. PICK k \in jobs : j = [k EXCEPT !.status = "pending"]
      BY <2>1 DEF Reclaimed
    <2>3. k \in Job
      BY DEF TypeInv, TypeOK
    <2> QED BY <2>2, <2>3 DEF Job
  <1>6. ASSUME \/ Heartbeat \/ IdleTick \/ ClaimNothing \/ SkipStage \/ BeginFill
               \/ Retention \/ BeginPublication \/ Swap \/ FinishPublication
               \/ Complete \/ FailJob \/ Raise \/ Crash \/ StartSettle \/ StartWorker
               \/ Advance \/ UNCHANGED vars
        PROVE  j \in jobs
    BY <1>6
    DEF Heartbeat, IdleTick, ClaimNothing, SkipStage, BeginFill, Retention,
        BeginPublication, Swap, FinishPublication, Complete, EndJob, FailJob, Raise,
        Crash, StartSettle, StartWorker, Advance, vars
  <1> QED
    BY <1>1, <1>2, <1>3, <1>4, <1>5, <1>6 DEF Next, LaneStep, StageStep, StartStep

\* A tick begins a new attempt of the day it starts; nothing else changes an
\* attempt's number or takes a saved stage back.
LEMMA AttemptSteps ==
  ASSUME TypeInv, ClockInv, [Next]_vars
  PROVE  \A d \in Days :
           \/ attempts'[d] = attempts[d] /\ lastStage'[d] >= lastStage[d]
           \/ attempts'[d] = attempts[d] + 1 /\ lastStage'[d] = 1
  <1> USE DEF TypeInv
  <1>1. attempts \in [Days -> 0..2] /\ lastStage \in [Days -> 0..6]
    BY DEF TypeOK
  <1>2. CASE UNCHANGED dayVars
    BY <1>1, <1>2 DEF dayVars
  <1>3. ASSUME NEW missed, NEW start, TickMoves(missed, start), NEW d \in Days
        PROVE  \/ attempts'[d] = attempts[d] /\ lastStage'[d] >= lastStage[d]
               \/ attempts'[d] = attempts[d] + 1 /\ lastStage'[d] = 1
    <2>1. CASE d \notin start
      BY <1>1, <1>3, <2>1 DEF TickMoves, CloseDueDays
    <2>2. CASE d \in start
      <3>1. Ensured(state)[d] = "open" => attempts[d] = 0
        BY <1>3 DEF Ensured, DayFit
      <3>2. Ensured(state)[d] # "open" => attempts[d] = 1
        BY <1>3, <2>2 DEF TickMoves, Ensured, DayFit
      <3> QED BY <1>3, <2>2, <3>1, <3>2 DEF TickMoves, CloseDueDays
    <2> QED BY <2>1, <2>2
  <1>4. CASE \E d \in Days : FailDay(d)
    BY <1>1, <1>4 DEF FailDay
  <1>5. CASE \E d \in Days, s \in 2..5 : SaveStage(d, s)
    BY <1>1, <1>5 DEF SaveStage
  <1>6. CASE \E d \in Days : CloseDay(d)
    BY <1>1, <1>6 DEF CloseDay
  <1>7. CASE StartSettle
    BY <1>1, <1>7 DEF StartSettle
  <1> QED BY <1>2, <1>3, <1>4, <1>5, <1>6, <1>7, DaySteps DEF ClockInv

LEMMA NextJobsBehind ==
  ASSUME TypeInv, ClockInv, NoStrandedJob, JobsBehind, [Next]_vars
  PROVE  JobsBehind'
  <1> USE DEF TypeInv
  <1> SUFFICES ASSUME NEW j \in jobs', j.kind = "close"
               PROVE  /\ j.attempt <= attempts'[j.date]
                      /\ j.attempt = attempts'[j.date] => j.stage <= lastStage'[j.date] + 1
    BY DEF JobsBehind, Behind
  <1>1. /\ attempts \in [Days -> 0..2] /\ lastStage \in [Days -> 0..6]
        /\ attempts' \in [Days -> 0..2] /\ lastStage' \in [Days -> 0..6]
    BY NextTypeInv DEF TypeOK, ClockInv
  <1>2. ASSUME NEW k \in jobs, k.kind = "close", k.date = j.date,
               k.stage = j.stage, k.attempt = j.attempt
        PROVE  /\ j.attempt <= attempts'[j.date]
               /\ j.attempt = attempts'[j.date] => j.stage <= lastStage'[j.date] + 1
    <2>1. k \in Job /\ Behind(k)
      BY DEF TypeOK, JobsBehind
    <2>2. /\ j.date \in Days /\ j.attempt \in 1..2 /\ j.stage \in 2..7
          /\ j.attempt <= attempts[j.date]
          /\ j.attempt = attempts[j.date] => j.stage <= lastStage[j.date] + 1
      BY <1>2, <2>1, JobParts DEF Behind
    <2>3. CASE attempts'[j.date] = attempts[j.date] /\ lastStage'[j.date] >= lastStage[j.date]
      BY <1>1, <2>2, <2>3
    <2>4. CASE attempts'[j.date] = attempts[j.date] + 1 /\ lastStage'[j.date] = 1
      BY <1>1, <2>2, <2>4
    <2> QED BY <2>2, <2>3, <2>4, AttemptSteps
  <1>3. CASE SchedulerTick /\ j \notin jobs
    <2>1. PICK missed, start : TickMoves(missed, start) /\ jobs' = TickJobs(start)
      BY <1>3, TickWalk DEF ClockInv
    <2>2. CASE \E d \in start : j = CloseJob(d, 2, attempts'[d])
      <3>1. PICK d \in start : j = CloseJob(d, 2, attempts'[d])
        BY <2>2
      <3>2. d \in Days /\ lastStage'[d] = 1
        BY <2>1 DEF TickMoves, CloseDueDays
      <3> QED BY <1>1, <3>1, <3>2 DEF CloseJob
    <2>3. CASE \E d \in Days : state'[d] = "closing" /\ j = CloseJob(d, lastStage'[d] + 1, attempts'[d])
      BY <1>1, <2>3 DEF CloseJob
    <2> QED BY <1>3, <2>1, <2>2, <2>3, TickRows
  <1>4. CASE ~SchedulerTick
    <2>1. CASE /\ FinishFill \/ RunStage
               /\ CompleteStage(cur) /\ j = CloseJob(cur.date, cur.stage + 1, cur.attempt)
      <3>1. FinishFill \/ RunStage
        BY <2>1
      <3>2. cur \in jobs /\ cur \in Job /\ cur.kind = "close" /\ cur.stage \in 2..5
        BY <3>1, JobParts DEF FinishFill, RunStage, NoStrandedJob, LaneFit, Running
      <3>3. cur.date \in Days /\ cur.attempt <= attempts[cur.date]
        BY <3>2, JobParts DEF JobsBehind, Behind
      <3>4. /\ j.date = cur.date /\ j.stage = cur.stage + 1 /\ j.attempt = cur.attempt
        BY <2>1 DEF CloseJob
      <3>5. attempts' = attempts /\ lastStage'[cur.date] = cur.stage
        BY <1>1, <2>1, <3>3 DEF CompleteStage
      <3> QED BY <1>1, <3>2, <3>3, <3>4, <3>5
    <2> QED BY <1>2, <1>4, <2>1, StageRows
  <1> QED BY <1>2, <1>3, <1>4

-----------------------------------------------------------------------------
(* The theorems.                                                           *)

LEMMA NextInv == Inv /\ [Next]_vars => Inv'
  <1> SUFFICES ASSUME Inv, [Next]_vars PROVE Inv'
    OBVIOUS
  <1>1. TypeInv' /\ ClockInv'
    BY NextTypeInv, NextClock DEF Inv, ClockInv
  <1>2. OrderInv' /\ PublicationPerClosure'
    BY NextOrder, NextPublicationPerClosure DEF Inv, ClockInv
  <1>3. PublishingInv' /\ PublishedIsSwapped'
    BY NextPublishing, NextPublishedIsSwapped DEF Inv
  <1>4. SpacingInv' /\ ReasonFits'
    BY NextSpacing, NextReasonFits DEF Inv
  <1>5. SettledInv' /\ AttemptsOfThisRun'
    BY NextSettled, NextAttemptsOfThisRun DEF Inv
  <1>6. StartJobsInv' /\ NoStrandedJob' /\ JobsBehind'
    BY NextNoStranded, NextJobsBehind DEF Inv
  <1> QED BY <1>1, <1>2, <1>3, <1>4, <1>5, <1>6 DEF Inv

LEMMA Invariance == Spec => []Inv
  BY InitInv, NextInv, PTL DEF Spec

\* The variables keep their types: in particular a day never has a third
\* attempt, and a saved stage is one of the six.
THEOREM TypeCorrect == Spec => []TypeOK
  <1>1. Inv => TypeOK
    BY DEF Inv, TypeInv
  <1> QED BY Invariance, <1>1, PTL

\* No day is attempted, closed or missed before every earlier day is done
\* (_close_due_days's walk, fail_close, stage 6 and the settling together).
THEOREM DaysInOrder == Spec => []InOrder
  <1>1. Inv => InOrder
    BY DEF Inv, OrderInv
  <1> QED BY Invariance, <1>1, PTL

\* A day is closed exactly when its cutoff has a publication record: _closure's
\* closed_through is the day it closes, and its insert never collides.
THEOREM OnePublicationPerClosure == Spec => []PublicationPerClosure
  <1>1. Inv => PublicationPerClosure
    BY DEF Inv
  <1> QED BY Invariance, <1>1, PTL

\* A published record's rows are there, and only closed days have rows
\* (_publish_stage's three writes, with anything between them).
THEOREM PublishedIsVisible == Spec => []PublishedIsSwapped
  <1>1. Inv => PublishedIsSwapped
    BY DEF Inv
  <1> QED BY Invariance, <1>1, PTL

\* The reason stored with a missed day tells what was done for it, whichever of
\* the tick, the lane and the settling gave the day up.
THEOREM ReasonsFit == Spec => []ReasonFits
  <1>1. Inv => ReasonFits
    BY DEF Inv
  <1> QED BY Invariance, <1>1, PTL

\* No attempt or build of an earlier process is in progress once the worker runs
\* (settle_interrupted_closes before start_worker in the lifespan).
THEOREM NoAttemptOutlivesItsRun == Spec => []AttemptsOfThisRun
  <1>1. Inv => AttemptsOfThisRun
    BY DEF Inv
  <1> QED BY Invariance, <1>1, PTL

\* A row is running only while the lane holds it, after any stops, crashes and
\* starts cut short.
THEOREM NoRowStranded == Spec => []NoStrandedJob
  <1>1. Inv => NoStrandedJob
    BY DEF Inv
  <1> QED BY Invariance, <1>1, PTL

-----------------------------------------------------------------------------
(* What a step may never do.                                               *)

LEMMA StepFinality ==
  ASSUME Inv, [Next]_vars
  PROVE  /\ \A d \in Days : IsDone(state[d])
              => /\ state'[d] = state[d] /\ reason'[d] = reason[d]
                 /\ attempts'[d] = attempts[d] /\ lastStage'[d] = lastStage[d]
         /\ \A c \in Days : pub[c] \in {"published", "failed", "superseded"}
              => pub'[c] = pub[c]
  <1> USE DEF Inv, TypeInv
  <1>1. \A d \in Days : IsDone(state[d])
          => /\ state'[d] = state[d] /\ reason'[d] = reason[d]
             /\ attempts'[d] = attempts[d] /\ lastStage'[d] = lastStage[d]
    <2> SUFFICES ASSUME NEW d \in Days, IsDone(state[d])
                 PROVE  /\ state'[d] = state[d] /\ reason'[d] = reason[d]
                        /\ attempts'[d] = attempts[d] /\ lastStage'[d] = lastStage[d]
      OBVIOUS
    <2>0. state[d] \in {"closed", "missed"}
      BY DEF IsDone
    <2>1. CASE UNCHANGED dayVars
      BY <2>1 DEF dayVars
    <2>2. ASSUME NEW missed, NEW start, TickMoves(missed, start)
          PROVE  /\ state'[d] = state[d] /\ reason'[d] = reason[d]
                 /\ attempts'[d] = attempts[d] /\ lastStage'[d] = lastStage[d]
      <3>1. Ensured(state)[d] = state[d]
        BY <2>0 DEF Ensured
      <3>2. d \notin missed /\ d \notin start
        BY <2>0, <2>2, <3>1 DEF TickMoves
      <3> QED BY <2>2, <3>1, <3>2 DEF TickMoves, CloseDueDays
    <2>3. ASSUME NEW e \in Days, FailDay(e)
          PROVE  /\ state'[d] = state[d] /\ reason'[d] = reason[d]
                 /\ attempts'[d] = attempts[d] /\ lastStage'[d] = lastStage[d]
      BY <2>0, <2>3 DEF FailDay, FailClose, TypeOK
    <2>4. ASSUME NEW e \in Days, NEW s \in 2..5, SaveStage(e, s)
          PROVE  /\ state'[d] = state[d] /\ reason'[d] = reason[d]
                 /\ attempts'[d] = attempts[d] /\ lastStage'[d] = lastStage[d]
      BY <2>0, <2>4 DEF SaveStage, TypeOK
    <2>5. ASSUME NEW e \in Days, CloseDay(e)
          PROVE  /\ state'[d] = state[d] /\ reason'[d] = reason[d]
                 /\ attempts'[d] = attempts[d] /\ lastStage'[d] = lastStage[d]
      BY <2>0, <2>5 DEF CloseDay, TypeOK
    <2>6. CASE StartSettle
      BY <2>0, <2>6 DEF StartSettle
    <2> QED BY <2>1, <2>2, <2>3, <2>4, <2>5, <2>6, DaySteps DEF ClockInv
  <1>2. \A c \in Days : pub[c] \in {"published", "failed", "superseded"} => pub'[c] = pub[c]
    <2>1. CASE pub' = pub
      BY <2>1
    <2>2. CASE RetryPublications
      BY <2>2 DEF RetryPublications, DueRetries, Revived
    <2>3. CASE Closure
      BY <2>3, ClosureOpens DEF TypeOK
    <2>4. ASSUME NEW e \in Days, PublicationStep(e)
          PROVE  \A c \in Days : pub[c] \in {"published", "failed", "superseded"} => pub'[c] = pub[c]
      BY <2>4 DEF PublicationStep, FailPublication, Swap, Open, TypeOK
    <2>5. CASE StartSettle
      BY <2>5 DEF StartSettle
    <2> QED BY <2>1, <2>2, <2>3, <2>4, <2>5, PubSteps
  <1> QED BY <1>1, <1>2

\* A done day and an ended publication never change again (begin_close,
\* fail_close, finish_close and the settling each read the state they leave).
THEOREM DoneIsFinal == Spec => Finality
  <1>1. Inv /\ [Next]_vars =>
          [/\ \A d \in Days : IsDone(state[d])
                => /\ state'[d] = state[d] /\ reason'[d] = reason[d]
                   /\ attempts'[d] = attempts[d] /\ lastStage'[d] = lastStage[d]
           /\ \A c \in Days : pub[c] \in {"published", "failed", "superseded"}
                => pub'[c] = pub[c]]_vars
    BY StepFinality
  <1> QED BY Invariance, <1>1, PTL DEF Spec, Finality

\* The second attempt starts RetryDelay or more after the first one's last saved
\* progress, whether the lane, a restart or both ended it (fail_close's and
\* _settle_day's retry_at).
THEOREM RetriesAreSpaced == Spec => RetrySpacing
  <1>1. ASSUME Inv, [Next]_vars, NEW d \in Days, attempts[d] = 1, attempts'[d] = 2
        PROVE  now >= progressAt[d] + RetryDelay
    <2> USE DEF Inv, TypeInv
    <2>1. PICK missed, start : TickMoves(missed, start)
      BY <1>1, DaySteps DEF ClockInv, dayVars, FailDay, SaveStage, CloseDay, StartSettle
    <2>2. d \in start /\ Ensured(state)[d] # "open"
      BY <1>1, <2>1 DEF TickMoves, CloseDueDays
    <2>3. state[d] = "retry_due" /\ now >= retryAt[d]
      BY <2>1, <2>2 DEF TickMoves, Ensured
    <2>4. /\ now \in Nat /\ progressAt[d] \in Nat /\ retryAt[d] \in Nat /\ RetryDelay \in Nat
          /\ retryAt[d] >= progressAt[d] + RetryDelay
      BY <1>1, <2>3, ConstantsAssumption DEF SpacingInv, TypeOK
    <2> QED BY <2>3, <2>4
  <1>2. Inv /\ [Next]_vars =>
          [\A d \in Days : attempts[d] = 1 /\ attempts'[d] = 2
             => now >= progressAt[d] + RetryDelay]_vars
    BY <1>1
  <1> QED BY Invariance, <1>2, PTL DEF Spec, RetrySpacing

\* A day never attempted is missed only after its round's bound, however the
\* tick finds it (_close_due_days's waits).
THEOREM NoVerdictIsEarly == Spec => NoEarlyVerdict
  <1>1. ASSUME Inv, [Next]_vars, NEW d \in Days,
               attempts[d] = 0, state[d] # "missed", state'[d] = "missed"
        PROVE  now >= DayEnd[d] + RoundBound
    <2> USE DEF Inv, TypeInv
    <2>1. state[d] # "closing" /\ state[d] # "retry_due"
      BY <1>1 DEF DayFit
    <2>2. PICK missed, start : TickMoves(missed, start)
      <3>1. ~UNCHANGED dayVars
        BY <1>1 DEF dayVars
      <3>2. ASSUME NEW e \in Days, FailDay(e) PROVE FALSE
        BY <1>1, <2>1, <3>2 DEF FailDay, FailClose, TypeOK
      <3>3. ASSUME NEW e \in Days, NEW s \in 2..5, SaveStage(e, s) PROVE FALSE
        BY <1>1, <3>3 DEF SaveStage
      <3>4. ASSUME NEW e \in Days, CloseDay(e) PROVE FALSE
        BY <1>1, <3>4 DEF CloseDay, TypeOK
      <3>5. ~StartSettle
        BY <1>1, <2>1 DEF StartSettle
      <3> QED BY <1>1, <3>1, <3>2, <3>3, <3>4, <3>5, DaySteps DEF ClockInv
    <2>3. d \in missed
      BY <1>1, <2>2 DEF TickMoves, CloseDueDays, Ensured
    <2>4. Ensured(state)[d] = "open"
      BY <2>1, <2>2, <2>3 DEF TickMoves, Ensured
    <2> QED BY <2>2, <2>3, <2>4 DEF TickMoves
  <1>2. Inv /\ [Next]_vars =>
          [\A d \in Days : attempts[d] = 0 /\ state[d] # "missed" /\ state'[d] = "missed"
             => now >= DayEnd[d] + RoundBound]_vars
    BY <1>1
  <1> QED BY Invariance, <1>2, PTL DEF Spec, NoEarlyVerdict

\* No record is marked published behind a later one: _publish_stage read the
\* later records when it began, and only it could have published since.
THEOREM RecordsEndInOrder == Spec => RecordsPublishInOrder
  <1>1. ASSUME Inv, [Next]_vars, NEW c \in Days, NEW e \in Days, c < e,
               pub[c] # "published", pub'[c] = "published"
        PROVE  pub[e] # "published"
    <2> USE DEF Inv, TypeInv
    <2>1. FinishPublication /\ c = cur.date
      <3>1. CASE RetryPublications
        BY <1>1, <3>1 DEF RetryPublications
      <3>2. CASE Closure
        BY <1>1, <3>2, ClosureOpens DEF TypeOK
      <3>3. ASSUME NEW f \in Days, PublicationStep(f)
            PROVE  FinishPublication /\ c = cur.date
        BY <1>1, <3>3 DEF PublicationStep, FailPublication, Swap, TypeOK
      <3>4. CASE StartSettle
        BY <1>1, <3>4 DEF StartSettle
      <3> QED BY <1>1, <3>1, <3>2, <3>3, <3>4, PubSteps
    <2> QED BY <1>1, <2>1 DEF FinishPublication, PublishingInv
  <1>2. Inv /\ [Next]_vars =>
          [\A c, e \in Days : c < e /\ pub[c] # "published" /\ pub'[c] = "published"
             => pub[e] # "published"]_vars
    BY <1>1
  <1> QED BY Invariance, <1>2, PTL DEF Spec, RecordsPublishInOrder

\* Whatever rows the crashes and retries left, the one that can still work for a
\* closing day is the stage after its last saved one (_current and _open_stage).
THEOREM OnlyNextStage == Spec => []NextStageOnly
  <1>1. Inv => NextStageOnly
    <2> SUFFICES ASSUME Inv, NEW j \in jobs, j.kind = "close",
                        Current(j), lastStage[j.date] < j.stage
                 PROVE  j.stage = lastStage[j.date] + 1
      BY DEF NextStageOnly
    <2>1. j.date \in Days /\ j.stage \in 2..6 /\ lastStage[j.date] \in 0..6
      BY JobParts DEF Inv, TypeInv, TypeOK
    <2>2. j.stage <= lastStage[j.date] + 1
      BY DEF Inv, JobsBehind, Behind, Current
    <2> QED BY <2>1, <2>2
  <1> QED BY Invariance, <1>1, PTL

\* Each stage of an attempt is saved once, in order, and a new attempt starts
\* over (_complete_stage, _closure and _start_attempt).
THEOREM StagesAreInOrder == Spec => StagesInOrder
  <1>1. ASSUME Inv, [Next]_vars, NEW d \in Days,
               lastStage'[d] # lastStage[d] \/ attempts'[d] # attempts[d]
        PROVE  \/ /\ lastStage'[d] = lastStage[d] + 1
                  /\ attempts'[d] = attempts[d] /\ state[d] = "closing"
               \/ lastStage'[d] = 1 /\ attempts'[d] = attempts[d] + 1
    <2> USE DEF Inv, TypeInv
    <2>1. attempts \in [Days -> 0..2] /\ lastStage \in [Days -> 0..6]
      BY <1>1 DEF TypeOK
    <2>2. CASE attempts'[d] = attempts[d] + 1 /\ lastStage'[d] = 1
      BY <2>2
    <2>3. CASE attempts'[d] = attempts[d]
      <3>1. ASSUME NEW s \in 2..6, LaneJobOf(d, s), state[d] = "closing", lastStage[d] < s
            PROVE  s = lastStage[d] + 1
        <4>1. cur \in jobs
          BY <1>1, <3>1 DEF LaneJobOf, NoStrandedJob
        <4>2. s <= lastStage[d] + 1
          BY <1>1, <3>1, <4>1 DEF LaneJobOf, JobsBehind, Behind
        <4> QED BY <2>1, <3>1, <4>2
      <3>2. ASSUME NEW missed, NEW start, TickMoves(missed, start) PROVE FALSE
        <4>1. d \notin start => lastStage'[d] = lastStage[d]
          BY <3>2 DEF TickMoves, CloseDueDays
        <4>2. d \in start => attempts'[d] # attempts[d]
          <5>1. Ensured(state)[d] = "open" => attempts[d] = 0
            BY <1>1 DEF Ensured, DayFit
          <5>2. d \in start /\ Ensured(state)[d] # "open" => attempts[d] = 1
            BY <1>1, <3>2 DEF TickMoves, Ensured, DayFit
          <5> QED BY <3>2, <5>1, <5>2 DEF TickMoves, CloseDueDays
        <4> QED BY <1>1, <2>3, <4>1, <4>2
      <3>3. ASSUME NEW e \in Days, NEW s \in 2..5, SaveStage(e, s)
            PROVE  lastStage'[d] = lastStage[d] + 1 /\ state[d] = "closing"
        <4>1. d = e /\ lastStage'[d] = s
          BY <1>1, <2>1, <2>3, <3>3 DEF SaveStage
        <4> QED BY <3>1, <3>3, <4>1 DEF SaveStage
      <3>4. ASSUME NEW e \in Days, CloseDay(e)
            PROVE  lastStage'[d] = lastStage[d] + 1 /\ state[d] = "closing"
        <4>1. d = e /\ lastStage'[d] = 6
          BY <1>1, <2>1, <2>3, <3>4 DEF CloseDay
        <4> QED BY <3>1, <3>4, <4>1 DEF CloseDay
      <3>5. (\A e \in Days : ~FailDay(e)) /\ ~StartSettle /\ ~UNCHANGED dayVars
        BY <1>1, <2>3 DEF FailDay, StartSettle, dayVars
      <3> QED BY <1>1, <2>3, <3>2, <3>3, <3>4, <3>5, DaySteps DEF ClockInv
    <2> QED BY <1>1, <2>2, <2>3, AttemptSteps
  <1>2. Inv /\ [Next]_vars =>
          [\A d \in Days : lastStage'[d] # lastStage[d] \/ attempts'[d] # attempts[d]
             => \/ /\ lastStage'[d] = lastStage[d] + 1
                   /\ attempts'[d] = attempts[d] /\ state[d] = "closing"
                \/ lastStage'[d] = 1 /\ attempts'[d] = attempts[d] + 1]_vars
    BY <1>1
  <1> QED BY Invariance, <1>2, PTL DEF Spec, StagesInOrder

-----------------------------------------------------------------------------
(* The close chain implements DayLedger: under the mapping of               *)
(* CloseChain!Ledger every step is a ledger step or leaves the ledger as it *)
(* is.                                                                     *)

LEMMA LedgerInit == Init => Ledger!Init
  <1> SUFFICES ASSUME Init PROVE Ledger!Init
    OBVIOUS
  <1>1. \A d \in Days : state[d] \in {"none", "open"}
    BY DEF Init
  <1>2. Verdict = [d \in Days |-> "undone"] /\ Active = {}
    BY <1>1 DEF Verdict, Active, IsDone
  <1> QED BY <1>2 DEF Init, Ledger!Init

\* At most one day is being closed.
LEMMA OneClosing ==
  ASSUME Inv, NEW d \in Days, state[d] = "closing"
  PROVE  Active = {d}
  <1>1. \A e \in Days : state[e] = "closing" => e = d
    <2>1. Days \subseteq Nat
      BY DEF Days
    <2>2. \A e \in Days : (e < d \/ d < e) => state[e] # "closing"
      BY DEF Inv, OrderInv, InOrder, IsDone
    <2> QED BY <2>1, <2>2
  <1> QED BY <1>1 DEF Active

\* Only a swap adds to what is shown, and it leaves the days alone.
LEMMA ShownSteps ==
  ASSUME Inv, [Next]_vars
  PROVE  swapped' = swapped \/ (Swap /\ UNCHANGED dayVars)
  <1>1. CASE RetryPublications
    BY <1>1 DEF RetryPublications
  <1>2. CASE Closure
    BY <1>2 DEF Closure
  <1>3. ASSUME NEW c \in Days, PublicationStep(c), UNCHANGED dayVars
        PROVE  swapped' = swapped \/ (Swap /\ UNCHANGED dayVars)
    BY <1>3 DEF PublicationStep, FailPublication, FinishPublication
  <1> QED BY <1>1, <1>2, <1>3, PubSteps DEF Inv

-----------------------------------------------------------------------------
(* The steps, mapped.                                                      *)

LEMMA SwapIsPublish ==
  ASSUME Inv, Swap, UNCHANGED dayVars
  PROVE  Ledger!Next
  <1>1. cur.date \in Days /\ swapped' = swapped \cup {cur.date}
    BY JobParts DEF Swap, Inv, TypeInv, LaneFit, Running
  <1>2. state[cur.date] = "closed"
    BY DEF Swap, Inv, PublishedIsSwapped
  <1>3. Verdict[cur.date] = "closed"
    BY <1>1, <1>2 DEF Verdict, IsDone
  <1>4. Verdict' = Verdict /\ Active' = Active /\ attempts' = attempts
    BY DEF dayVars, Verdict, Active
  <1>5. Ledger!Publish(cur.date)
    BY <1>1, <1>3, <1>4 DEF Ledger!Publish
  <1> QED BY <1>1, <1>5 DEF Ledger!Next

LEMMA TickIsWalk ==
  ASSUME Inv, NEW missed, NEW start, TickMoves(missed, start), swapped' = swapped
  PROVE  [Ledger!Next]_(Ledger!vars)
  <1> DEFINE st == Ensured(state)
  <1>1. /\ Days \subseteq Nat
        /\ \A d \in Days : st[d] = state[d] \/ (state[d] = "none" /\ st[d] = "open")
        /\ \A d, e \in Days : e < d /\ st[d] # "none" => st[e] # "none"
        /\ state \in [Days -> DayState] /\ attempts \in [Days -> 0..2]
    BY EnsuredContiguous DEF Inv, TypeInv, TypeOK, OrderInv, Ensured, Days
  <1>2. /\ missed \subseteq Days /\ start \subseteq Days /\ missed \cap start = {}
        /\ \A d \in missed \cup start :
             /\ st[d] \in {"open", "retry_due"}
             /\ \A e \in Days : e < d /\ IsUndone(st[e]) => e \in missed
        /\ CloseDueDays(st, missed, start)
    BY DEF TickMoves
  <1>3. \A d \in Days : /\ st[d] = "open" => attempts[d] = 0
                        /\ st[d] = "retry_due" => attempts[d] = 1
    BY <1>1 DEF Inv, TypeInv, DayFit
  <1> HIDE DEF st
  <1>4. \A d \in Days : state'[d] = IF d \in missed THEN "missed"
                                    ELSE IF d \in start THEN "closing" ELSE st[d]
    BY <1>2 DEF CloseDueDays
  <1>5. attempts' = [d \in Days |-> IF d \in start THEN attempts[d] + 1 ELSE attempts[d]]
    <2>1. \A d \in start : (IF st[d] = "open" THEN 1 ELSE 2) = attempts[d] + 1
      BY <1>2, <1>3
    <2> QED BY <1>2, <2>1 DEF CloseDueDays
  <1>6. Verdict' = [d \in Days |-> IF d \in missed THEN "missed" ELSE Verdict[d]]
    <2> SUFFICES ASSUME NEW d \in Days
                 PROVE  (IF IsDone(state'[d]) THEN state'[d] ELSE "undone")
                        = IF d \in missed THEN "missed"
                          ELSE IF IsDone(state[d]) THEN state[d] ELSE "undone"
      BY DEF Verdict
    <2>1. CASE d \in missed
      BY <1>4, <2>1 DEF IsDone
    <2>2. CASE d \in start /\ d \notin missed
      <3>1. state[d] \notin {"closed", "missed"}
        BY <1>1, <1>2, <2>2
      <3> QED BY <1>4, <2>2, <3>1 DEF IsDone
    <2>3. CASE d \notin start /\ d \notin missed
      BY <1>1, <1>4, <2>3 DEF IsDone
    <2> QED BY <2>1, <2>2, <2>3
  <1>7. CASE Active = {}
    <2>1. Active' = start
      <3>1. \A d \in Days : st[d] # "closing"
        BY <1>1, <1>7 DEF Active
      <3> QED BY <1>2, <1>4, <3>1 DEF Active
    <2>2. \A d \in missed \cup start :
            Ledger!Undone(d) /\ Ledger!Turn(d, missed)
      <3> SUFFICES ASSUME NEW d \in missed \cup start
                   PROVE  Ledger!Undone(d) /\ Ledger!Turn(d, missed)
        OBVIOUS
      <3>1. d \in Days /\ st[d] \in {"open", "retry_due"}
        BY <1>2
      <3>2. Verdict[d] = "undone"
        BY <1>1, <3>1 DEF Verdict, IsDone
      <3>3. ASSUME NEW e \in Days, e < d, Verdict[e] = "undone"
            PROVE  e \in missed
        <4>1. ~IsDone(state[e])
          BY <3>3 DEF Verdict, IsDone
        <4>2. st[e] # "none"
          BY <1>1, <3>1, <3>3
        <4>3. IsUndone(st[e])
          BY <1>1, <4>1, <4>2 DEF IsDone, IsUndone, DayState
        <4> QED BY <1>2, <3>3, <4>3
      <3> QED BY <3>2, <3>3 DEF Ledger!Undone, Ledger!Turn
    <2>3. \A d \in start : attempts[d] < 2
      BY <1>2, <1>3
    <2>4. Ledger!Walk(missed, start)
      BY <1>2, <1>5, <1>6, <1>7, <2>1, <2>2, <2>3 DEF Ledger!Walk
    <2> QED BY <1>2, <2>4 DEF Ledger!Next
  <1>8. CASE Active # {}
    <2>1. PICK k \in Days : state[k] = "closing"
      BY <1>8 DEF Active
    <2>2. st[k] = "closing"
      BY <1>1, <2>1
    <2>3. missed \cup start = {}
      <3> SUFFICES ASSUME NEW d \in missed \cup start PROVE FALSE
        OBVIOUS
      <3>1. d \in Days /\ st[d] \in {"open", "retry_due"}
        BY <1>2
      <3>2. CASE d < k
        <4>1. IsDone(state[d])
          BY <2>1, <3>1, <3>2 DEF Inv, OrderInv, InOrder
        <4> QED BY <1>1, <3>1, <4>1 DEF IsDone
      <3>3. CASE k < d
        <4>1. k \in missed
          BY <1>2, <2>2, <3>3 DEF IsUndone
        <4> QED BY <1>2, <2>2, <4>1
      <3>4. d # k
        BY <2>2, <3>1
      <3> QED BY <1>1, <3>1, <3>2, <3>3, <3>4
    <2>4. attempts' = attempts /\ Verdict' = Verdict
      BY <1>1, <1>5, <1>6, <2>3 DEF Verdict
    <2>5. Active' = Active
      BY <1>1, <1>4, <2>3 DEF Active
    <2> QED BY <2>4, <2>5 DEF Ledger!vars
  <1> QED BY <1>7, <1>8

\* The end of the day's attempt, as the ledger sees it.
LEMMA EndIsLedgers ==
  ASSUME Inv, swapped' = swapped, attempts' = attempts,
         NEW d \in Days, state[d] = "closing",
         \A e \in Days : e # d => state'[e] = state[e],
         \/ state'[d] = "retry_due" /\ attempts[d] = 1
         \/ state'[d] \in {"missed", "closed"}
  PROVE  Ledger!Next
  <1>1. Active = {d}
    BY OneClosing
  <1>2. Active' = {}
    BY <1>1 DEF Active
  <1>3. \A e \in Days : e # d => Verdict'[e] = Verdict[e]
    BY DEF Verdict, IsDone
  <1>4. CASE state'[d] = "retry_due" /\ attempts[d] = 1
    <2>1. Verdict' = Verdict
      BY <1>4 DEF Verdict, IsDone
    <2>2. Ledger!Fail(d)
      BY <1>1, <1>2, <1>4, <2>1 DEF Ledger!Fail
    <2> QED BY <2>2 DEF Ledger!Next
  <1>5. CASE state'[d] \in {"missed", "closed"}
    <2>1. Verdict' = [Verdict EXCEPT ![d] = state'[d]]
      BY <1>5 DEF Verdict, IsDone
    <2>2. Ledger!GiveUp(d) \/ Ledger!Close(d)
      BY <1>1, <1>2, <1>5, <2>1 DEF Ledger!GiveUp, Ledger!Close
    <2> QED BY <2>2 DEF Ledger!Next
  <1> QED BY <1>4, <1>5

LEMMA LedgerStep == Inv /\ [Next]_vars => [Ledger!Next]_(Ledger!vars)
  <1> SUFFICES ASSUME Inv, [Next]_vars PROVE [Ledger!Next]_(Ledger!vars)
    OBVIOUS
  <1>0. state \in [Days -> DayState] /\ attempts \in [Days -> 0..2]
    BY DEF Inv, TypeInv, TypeOK
  <1>1. CASE Swap /\ UNCHANGED dayVars
    BY <1>1, SwapIsPublish
  <1>2. CASE swapped' = swapped
    <2>1. CASE UNCHANGED dayVars
      BY <1>2, <2>1 DEF dayVars, Ledger!vars, Verdict, Active
    <2>2. ASSUME NEW missed, NEW start, TickMoves(missed, start)
          PROVE  [Ledger!Next]_(Ledger!vars)
      BY <1>2, <2>2, TickIsWalk
    <2>3. ASSUME NEW d \in Days, FailDay(d)
          PROVE  [Ledger!Next]_(Ledger!vars)
      <3>1. /\ \A e \in Days : e # d => state'[e] = state[e]
            /\ \/ state'[d] = "retry_due" /\ attempts[d] = 1
               \/ state'[d] = "missed"
        BY <1>0, <2>3 DEF FailDay, FailClose
      <3> QED BY <1>2, <2>3, <3>1, EndIsLedgers DEF FailDay
    <2>4. ASSUME NEW d \in Days, NEW s \in 2..5, SaveStage(d, s)
          PROVE  [Ledger!Next]_(Ledger!vars)
      BY <1>2, <2>4 DEF SaveStage, Ledger!vars, Verdict, Active
    <2>5. ASSUME NEW d \in Days, CloseDay(d)
          PROVE  [Ledger!Next]_(Ledger!vars)
      <3>1. (\A e \in Days : e # d => state'[e] = state[e]) /\ state'[d] = "closed"
        BY <1>0, <2>5 DEF CloseDay
      <3> QED BY <1>2, <2>5, <3>1, EndIsLedgers DEF CloseDay
    <2>6. CASE StartSettle
      <3>1. CASE Active = {}
        <4>1. \A d \in Days : state[d] # "closing"
          BY <3>1 DEF Active
        <4>2. state' = state /\ attempts' = attempts
          BY <1>0, <2>6, <4>1 DEF StartSettle
        <4> QED BY <1>2, <4>2 DEF Ledger!vars, Verdict, Active
      <3>2. CASE Active # {}
        <4>1. PICK d \in Days : state[d] = "closing"
          BY <3>2 DEF Active
        <4>2. \A e \in Days : e # d => state[e] # "closing"
          BY <4>1, OneClosing DEF Active
        <4>3. /\ \A e \in Days : e # d => state'[e] = state[e]
              /\ \/ state'[d] = "retry_due" /\ attempts[d] = 1
                 \/ state'[d] = "missed"
              /\ attempts' = attempts
          BY <1>0, <2>6, <4>1, <4>2 DEF StartSettle
        <4> QED BY <1>2, <4>1, <4>3, EndIsLedgers
      <3> QED BY <3>1, <3>2
    <2> QED BY <2>1, <2>2, <2>3, <2>4, <2>5, <2>6, DaySteps DEF Inv, ClockInv
  <1> QED BY <1>1, <1>2, ShownSteps

\* The chain implements the ledger of days: each day gets one verdict, in order,
\* after at most two attempts, and only closed days are published, whatever the
\* ticks, jobs, stops and restarts do in between.
THEOREM ChainImplementsLedger == Spec => LedgerSpec
  <1>1. Init => Ledger!Init
    BY LedgerInit
  <1>2. Inv /\ [Next]_vars => [Ledger!Next]_(Ledger!vars)
    BY LedgerStep
  <1> QED BY Invariance, <1>1, <1>2, PTL DEF Spec, LedgerSpec, Ledger!Spec

-----------------------------------------------------------------------------
(* The monitor's alerts.                                                   *)

\* Some numbers have a least one among them.
LEMMA HasLeast ==
  ASSUME NEW S \in SUBSET Nat, S # {}
  PROVE  \E m \in S : \A n \in S : ~(n < m)
  <1>1. PICK m \in S : \A n \in S : ~(<<n, m>> \in OpToRel(<, Nat))
    BY NatLessThanWellFounded, WFMin
  <1> QED BY <1>1 DEF OpToRel

\* Some days have a last one among them.
LEMMA HasLast ==
  ASSUME NEW S \in SUBSET Days, S # {}
  PROVE  \E c \in S : \A d \in S : d <= c
  <1>0. NumDays \in Nat
    BY ConstantsAssumption
  <1> DEFINE T == {NumDays - d : d \in S}
  <1>1. \A d \in S : d \in Nat /\ NumDays - d \in Nat
    BY <1>0 DEF Days
  <1>2. T \in SUBSET Nat /\ T # {}
    BY <1>1
  <1>4. PICK t \in T : \A u \in T : ~(u < t)
    <2> HIDE DEF T
    <2> QED BY <1>2, HasLeast
  <1>5. PICK c \in S : t = NumDays - c
    OBVIOUS
  <1>6. \A d \in S : ~(NumDays - d < NumDays - c)
    BY <1>4, <1>5
  <1> HIDE DEF T
  <1> QED BY <1>0, <1>1, <1>5, <1>6

\* closed_through reaches every day that is done, and no day that is not.
LEMMA ClosedThroughReaches ==
  ASSUME TypeInv, OrderInv
  PROVE  \A d \in Days :
           /\ IsDone(state[d]) => \E c \in ClosedThrough(state) : d <= c
           /\ IsUndone(state[d]) => \A c \in ClosedThrough(state) : c < d
  <1>0. state \in [Days -> DayState] /\ Days \subseteq Nat
    BY DEF TypeInv, TypeOK, Days
  <1>1. ASSUME NEW d \in Days, IsDone(state[d])
        PROVE  \E c \in ClosedThrough(state) : d <= c
    <2> DEFINE D == {e \in Days : IsDone(state[e])}
    <2>1. PICK c \in D : \A e \in D : e <= c
      <3>1. D \in SUBSET Days /\ D # {}
        BY <1>1
      <3> HIDE DEF D
      <3> QED BY <3>1, HasLast
    <2>2. \A e \in Days : IsUndone(state[e]) => c < e
      <3> SUFFICES ASSUME NEW e \in Days, IsUndone(state[e]), ~(c < e) PROVE FALSE
        OBVIOUS
      <3>1. e < c
        BY <1>0, <2>1 DEF IsDone, IsUndone
      <3>2. IsDone(state[e])
        BY <2>1, <3>1 DEF OrderInv, InOrder, IsDone
      <3> QED BY <3>2 DEF IsDone, IsUndone
    <2>3. \A e \in Days : state[e] # "none" /\ c < e => IsUndone(state[e])
      <3> SUFFICES ASSUME NEW e \in Days, state[e] # "none", c < e, ~IsUndone(state[e])
                   PROVE  FALSE
        OBVIOUS
      <3>1. e \in D
        BY <1>0 DEF IsDone, IsUndone, DayState
      <3> QED BY <1>0, <2>1, <3>1
    <2>4. c \in ClosedThrough(state)
      BY <1>0, <2>1, <2>2, <2>3 DEF ClosedThrough, IsDone
    <2> QED BY <1>1, <2>1, <2>4
  <1>2. ASSUME NEW d \in Days, IsUndone(state[d]), NEW c \in ClosedThrough(state)
        PROVE  c < d
    BY <1>2 DEF ClosedThrough
  <1> QED BY <1>1, <1>2

\* The days the alerts expect have records: the current one's has been made.
LEMMA ExpectedRecorded ==
  ASSUME TypeInv, OrderInv, HasCurrent, NEW e \in Expected \cap Days
  PROVE  state[e] # "none"
  <1>1. CurrentDay \in Int
    <2> DEFINE past == {d \in Days : DayEnd[d] <= now}
    <2>1. IsFiniteSet(Days)
      BY ConstantsAssumption, FS_Interval DEF Days
    <2>2. IsFiniteSet(past)
      BY <2>1, FS_Subset
    <2>3. Cardinality(past) \in Nat
      <3> HIDE DEF past
      <3> QED BY <2>2, FS_CardinalityType
    <2> HIDE DEF past
    <2>4. Larger(1, 1 + Cardinality(past)) \in Int
      BY <2>3 DEF Larger
    <2> QED BY <2>4 DEF CurrentDay, past
  <1>2. PICK d \in Days : state[d] # "none" /\ d >= CurrentDay - 1
    BY DEF HasCurrent
  <1>3. e = d \/ e < d
    BY <1>1, <1>2 DEF Expected, Days
  <1> QED BY <1>2, <1>3 DEF OrderInv, Contiguous

\* The alerts name every expected day that is not published, once.
LEMMA AlertsName ==
  ASSUME Inv
  PROVE  UnpublishedDayIsNamed
  <1> USE DEF Inv
  <1>0. /\ state \in [Days -> DayState] /\ Days \subseteq Nat
        /\ \A c \in Days : pub[c] # "none" <=> state[c] = "closed"
        /\ LatestPub \subseteq Days
        /\ \A c \in LatestPub : pub[c] # "none"
    BY DEF TypeInv, TypeOK, Days, LatestPub, Latest, PublicationPerClosure
  <1>1. ASSUME NEW d \in MissedDays
        PROVE  d \in Days /\ state[d] = "missed" /\ d \notin FailedDays
    <2>1. d \in Days /\ state[d] = "missed" /\ \E c \in ClosedThrough(state) : d <= c
      BY DEF MissedDays
    <2>2. d \notin LatestPub
      BY <1>0, <2>1
    <2> QED BY <2>1, <2>2 DEF FailedDays, StalledDay
  <1> SUFFICES ASSUME HasCurrent, NEW e \in Expected \cap Days
               PROVE  /\ LateDays(e) \cap FailedDays = {}
                      /\ (MissedDays \cap (LateDays(e) \cup FailedDays)) = {}
                      /\ (~Reaches(e) /\ reason[e] # "zone_changeover") =>
                           \/ e \in LateDays(e) \cup MissedDays \cup FailedDays
                           \/ state[e] = "closed" /\ \E c \in FailedDays : e < c
    BY DEF UnpublishedDayIsNamed
  <1>2. LateDays(e) \cap FailedDays = {}
    <2> SUFFICES ASSUME NEW d \in LateDays(e), d \in FailedDays PROVE FALSE
      OBVIOUS
    <2>1. /\ d = e /\ state[e] # "retry_due" /\ ~StalledDay(e)
          /\ \A c \in PubFor(e) : pub[c] \notin {"retry_due", "failed"}
      BY DEF LateDays
    <2>2. e \in LatestPub /\ pub[e] \in {"retry_due", "failed"}
      BY <2>1 DEF FailedDays
    <2>3. e \in PubFor(e)
      BY <1>0, <2>2 DEF PubFor
    <2> QED BY <2>1, <2>2, <2>3
  <1>3. (MissedDays \cap (LateDays(e) \cup FailedDays)) = {}
    BY <1>1 DEF LateDays
  <1>4. ASSUME ~Reaches(e), reason[e] # "zone_changeover", e \notin LateDays(e),
               e \notin MissedDays, e \notin FailedDays
        PROVE  state[e] = "closed" /\ \E c \in FailedDays : e < c
    <2>1. state[e] # "none"
      BY ExpectedRecorded
    <2>2. state[e] # "missed"
      BY <1>4, ClosedThroughReaches DEF MissedDays, IsDone
    <2>3. IsUndone(state[e]) => e \in UndoneDays
      BY <2>1, ClosedThroughReaches DEF UndoneDays
    <2>4. state[e] # "retry_due" /\ ~StalledDay(e)
      BY <1>4, <2>3 DEF FailedDays, StalledDay, IsUndone
    <2>5. PICK c \in PubFor(e) : pub[c] \in {"retry_due", "failed"}
      BY <1>4, <2>1, <2>2, <2>4 DEF LateDays
    <2>6. c \in LatestPub /\ c \in Days /\ c >= e /\ state[c] = "closed"
      BY <1>0, <2>5 DEF PubFor
    <2>7. ~Reaches(c + 1)
      <3>1. Latest(swapped) \subseteq Days /\ \A b \in Latest(swapped) : ~(e <= b)
        BY <1>4 DEF Reaches, Latest, TypeInv, TypeOK
      <3>2. \A b \in Days : c + 1 <= b => e <= b
        <4>1. e \in Nat /\ c \in Nat /\ c >= e /\ \A b \in Days : b \in Nat
          BY <1>0, <2>6
        <4> QED BY <4>1
      <3> QED BY <3>1, <3>2 DEF Reaches
    <2>8. c \in FailedDays
      BY <2>5, <2>6, <2>7 DEF FailedDays
    <2>9. e < c
      <3>1. c # e
        BY <1>4, <2>8
      <3>2. e \in Nat /\ c \in Nat
        BY <1>0, <2>6
      <3> QED BY <2>6, <3>1, <3>2
    <2>10. state[e] = "closed"
      BY <2>2, <2>6, <2>9 DEF OrderInv, InOrder, IsDone
    <2> QED BY <2>8, <2>9, <2>10
  <1> QED BY <1>2, <1>3, <1>4

\* While the active publication does not reach a day the monitor expects, the
\* owner is told, by that day's alert or by a later cutoff's, and no day is told
\* twice; only a missed changeover day is passed over in silence.
THEOREM UnpublishedDayIsTold == Spec => []UnpublishedDayIsNamed
  <1>1. Inv => UnpublishedDayIsNamed
    BY AlertsName
  <1> QED BY <1>1, Invariance, PTL
=============================================================================
