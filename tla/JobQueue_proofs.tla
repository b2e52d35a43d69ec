-------------------------- MODULE JobQueue_proofs --------------------------
(* Proofs of JobQueue's invariants and action properties, and that it       *)
(* implements QueueLedger, for any sites, kinds, limits, delays and tables. *)
EXTENDS JobQueue, TLAPS

-----------------------------------------------------------------------------
(* What the actions do to the table.                                        *)

\* A new row n, above every other.
Inserted(k, s, n) ==
  /\ n \in 1..MaxJobs /\ \A j \in DOMAIN jobs : j < n
  /\ DOMAIN jobs' = DOMAIN jobs \cup {n}
  /\ \A j \in DOMAIN jobs : jobs'[j] = jobs[j]
  /\ jobs'[n] \in Row
  /\ jobs'[n].kind = k /\ jobs'[n].site = s /\ jobs'[n].status = "pending"
  /\ jobs'[n].born = births + 1 /\ jobs'[n].fails = 0
  /\ ~HasActive(k, s)
  /\ births' = births + 1 /\ births' \in 0..MaxJobs
  /\ UNCHANGED <<clock, sites, proc, held, ended>>

\* Row i is written anew; its key, its limit and its birth stay.
Rewrites(i) ==
  /\ i \in DOMAIN jobs /\ DOMAIN jobs' = DOMAIN jobs
  /\ \A j \in DOMAIN jobs : j # i => jobs'[j] = jobs[j]
  /\ jobs'[i] \in Row
  /\ jobs'[i].kind = jobs[i].kind /\ jobs'[i].site = jobs[i].site
  /\ jobs'[i].limit = jobs[i].limit /\ jobs'[i].born = jobs[i].born

KeepsCounts(i) == jobs'[i].tries = jobs[i].tries /\ jobs'[i].fails = jobs[i].fails

\* A pending row becomes its lane's.
Claimed(l, i) ==
  /\ Rewrites(i) /\ KeepsCounts(i)
  /\ jobs[i].status = "pending" /\ jobs'[i].status = "running"
  /\ Claims(l, jobs[i].kind) /\ proc = "up" /\ held[l] = NoHold
  /\ held' = [held EXCEPT ![l] = [id |-> i, kind |-> jobs[i].kind,
                                  born |-> jobs[i].born]]
  /\ UNCHANGED <<clock, sites, proc, births, ended>>

Rejected(i) ==
  /\ Rewrites(i) /\ KeepsCounts(i)
  /\ jobs[i].status = "pending" /\ jobs'[i].status = "failed"
  /\ jobs'[i].updated = clock
  /\ ended' = EndOf(jobs[i].kind, jobs[i].site, "failed")
  /\ UNCHANGED <<clock, sites, proc, held, births>>

\* A failure that is not the last leaves a count within every limit.
CountsFailure(i) ==
  /\ jobs'[i].fails = jobs[i].fails + 1
  /\ jobs'[i].status \in {"pending", "failed"}
  /\ jobs'[i].status = "pending" =>
       /\ jobs'[i].tries = Largest(jobs[i].tries, 0) + 1
       /\ jobs'[i].tries < MaxRetryCount /\ jobs'[i].tries <= jobs[i].limit

\* The held row gets its outcome.
Written(l, i) ==
  /\ i = held[l].id /\ held[l] # NoHold /\ proc # "down"
  /\ Type(jobs[i].kind) = Type(held[l].kind)
  /\ Rewrites(i)
  /\ jobs[i].status = "running" /\ jobs'[i].status # "running"
  /\ KeepsCounts(i) \/ CountsFailure(i)
  /\ jobs'[i].updated = clock
  /\ ended' = IF jobs'[i].status \in Ended
              THEN EndOf(jobs[i].kind, jobs[i].site, jobs'[i].status) ELSE ended
  /\ held' = [held EXCEPT ![l] = NoHold]
  /\ UNCHANGED <<clock, sites, proc, births>>

\* The lane lets go of its job and nothing is written: the claim no longer
\* stands, or the process is stopping.
LetsGo(l) ==
  /\ held[l] # NoHold /\ held' = [held EXCEPT ![l] = NoHold]
  /\ ~StillClaimed(held[l]) \/ proc \in {"stopping", "reclaimed"}
  /\ UNCHANGED <<clock, sites, jobs, proc, births, ended>>

\* Every running row waits again.
Reclaims ==
  /\ jobs' = Reclaimed
  /\ \/ proc = "down" /\ proc' = "up"
     \/ proc = "stopping" /\ proc' = "reclaimed"
  /\ UNCHANGED <<clock, sites, held, births, ended>>

\* Rows go: ended ones long ago, or a site's.
Purges ==
  /\ jobs' = Without(Expired)
  /\ UNCHANGED <<clock, sites, proc, held, births, ended>>

Deletes(s) ==
  /\ jobs' = Without(OfSite(s))
  /\ ended' = [q \in Keys |-> IF q[2] = s THEN Never ELSE ended[q]]
  /\ sites' \subseteq sites
  /\ UNCHANGED <<clock, proc, held, births>>

\* The table stays, and so does what the lanes hold, or the process is down.
Rests ==
  /\ UNCHANGED <<jobs, births, ended>>
  /\ clock' >= clock /\ clock' \in Nat /\ sites' \subseteq Sites
  /\ \/ UNCHANGED <<held, proc>>
     \/ held' = held /\ proc = "up" /\ proc' = "stopping"
     \/ held' = Idle /\ proc' = "down"

Shape ==
  \/ \E k \in Kinds, s \in Sites, n \in 1..MaxJobs : Inserted(k, s, n)
  \/ \E l \in Lanes, i \in DOMAIN jobs : Claimed(l, i)
  \/ \E i \in DOMAIN jobs : Rejected(i)
  \/ \E l \in Lanes : \E i \in DOMAIN jobs : Written(l, i)
  \/ \E l \in Lanes : LetsGo(l)
  \/ Reclaims \/ Purges \/ Rests
  \/ \E s \in Sites : Deletes(s)

LEMMA InsertShape ==
  ASSUME TypeOK, NEW k \in Kinds, NEW s \in Sites, Insert(k, s)
  PROVE  \E n \in 1..MaxJobs : Inserted(k, s, n)
  <1>1. PICK n \in 1..MaxJobs :
          /\ IsNextId(n)
          /\ jobs' = [j \in DOMAIN jobs \cup {n} |->
                        IF j = n THEN NewRow(k, s) ELSE jobs[j]]
    BY DEF Insert
  <1>2. NewRow(k, s) \in Row
    BY ConstantsAssumption DEF NewRow, Row, Active, TypeOK
  <1>3. \A j \in DOMAIN jobs : j < n
    BY <1>1 DEF IsNextId
  <1>4. n \notin DOMAIN jobs
    BY <1>3 DEF TypeOK, IsTable
  <1>5. /\ jobs'[n] = NewRow(k, s) /\ DOMAIN jobs' = DOMAIN jobs \cup {n}
        /\ \A j \in DOMAIN jobs : jobs'[j] = jobs[j]
    BY <1>1, <1>4
  <1>6. births' = births + 1 /\ births' \in 0..MaxJobs
    BY ConstantsAssumption DEF Insert, TypeOK
  <1>7. /\ jobs'[n].kind = k /\ jobs'[n].site = s /\ jobs'[n].status = "pending"
        /\ jobs'[n].born = births + 1 /\ jobs'[n].fails = 0
    BY <1>5 DEF NewRow
  <1>8. ~HasActive(k, s) /\ UNCHANGED <<clock, sites, proc, held, ended>>
    BY DEF Insert, MayInsert
  <1> QED BY <1>2, <1>3, <1>5, <1>6, <1>7, <1>8 DEF Inserted

LEMMA ClaimShape ==
  ASSUME TypeOK, NEW l \in Lanes, NEW i \in DOMAIN jobs, Claim(l, i)
  PROVE  Claimed(l, i)
  <1>1. jobs[i] \in Row /\ clock \in Nat
    BY DEF TypeOK, IsTable
  <1>2. jobs' = [j \in DOMAIN jobs |->
                   IF j = i THEN [jobs[i] EXCEPT !.status = "running", !.updated = clock]
                            ELSE jobs[j]]
    BY DEF Claim
  <1>3. jobs'[i] = [jobs[i] EXCEPT !.status = "running", !.updated = clock]
    BY <1>2
  <1>4. Rewrites(i) /\ KeepsCounts(i) /\ jobs'[i].status = "running"
    BY <1>1, <1>2, <1>3 DEF Rewrites, KeepsCounts, Row, Active
  <1>5. jobs[i].status = "pending" /\ Claims(l, jobs[i].kind) /\ proc = "up" /\ held[l] = NoHold
    BY DEF Claim, MayClaim, IsFirst, Claimable, InLoop
  <1> QED BY <1>4, <1>5 DEF Claim, Claimed

LEMMA RejectShape ==
  ASSUME TypeOK, NEW l \in Lanes, NEW i \in DOMAIN jobs, ClaimUnreadable(l, i)
  PROVE  Rejected(i)
  <1>1. jobs[i] \in Row /\ clock \in Nat
    BY DEF TypeOK, IsTable
  <1>2. jobs' = [j \in DOMAIN jobs |->
                   IF j = i THEN [jobs[i] EXCEPT !.status = "failed", !.updated = clock]
                            ELSE jobs[j]]
    BY DEF ClaimUnreadable
  <1>3. jobs'[i] = [jobs[i] EXCEPT !.status = "failed", !.updated = clock]
    BY <1>2
  <1>4. /\ Rewrites(i) /\ KeepsCounts(i) /\ jobs'[i].status = "failed"
        /\ jobs'[i].updated = clock
    BY <1>1, <1>2, <1>3 DEF Rewrites, KeepsCounts, Row, Ended
  <1>5. jobs[i].status = "pending"
    BY DEF ClaimUnreadable, MayClaim, IsFirst, Claimable
  <1> QED BY <1>4, <1>5 DEF ClaimUnreadable, Rejected

\* Whatever row an outcome writes, the held one is written or the lane lets go.
LEMMA RecordShape ==
  ASSUME TypeOK, NEW l \in Lanes, NEW row, Record(l, row),
         StillClaimed(held[l]) =>
           /\ row \in Row
           /\ row.kind = Mine(l).kind /\ row.site = Mine(l).site
           /\ row.limit = Mine(l).limit /\ row.born = Mine(l).born
           /\ row.status # "running" /\ row.updated = clock
           /\ \/ row.tries = Mine(l).tries /\ row.fails = Mine(l).fails
              \/ /\ row.fails = Mine(l).fails + 1
                 /\ row.status \in {"pending", "failed"}
                 /\ row.status = "pending" =>
                      /\ row.tries = Largest(Mine(l).tries, 0) + 1
                      /\ row.tries < MaxRetryCount /\ row.tries <= Mine(l).limit
  PROVE  LetsGo(l) \/ \E i \in DOMAIN jobs : Written(l, i)
  <1>1. CASE ~StillClaimed(held[l])
    BY <1>1 DEF Record, LetsGo
  <1>2. CASE StillClaimed(held[l])
    <2> DEFINE i == held[l].id
    <2>1. i \in DOMAIN jobs /\ Type(jobs[i].kind) = Type(held[l].kind) /\ jobs[i].status = "running"
      BY <1>2 DEF StillClaimed
    <2>2. jobs' = [jobs EXCEPT ![i] = row]
      BY <1>2 DEF Record
    <2>3. jobs'[i] = row
      BY <2>1, <2>2
    <2>4. Rewrites(i) /\ (KeepsCounts(i) \/ CountsFailure(i))
      BY <1>2, <2>1, <2>2, <2>3 DEF Rewrites, KeepsCounts, CountsFailure, Mine
    <2>5. ended' = IF jobs'[i].status \in Ended
                   THEN EndOf(jobs[i].kind, jobs[i].site, jobs'[i].status) ELSE ended
      BY <1>2, <2>3 DEF Record, Mine
    <2> QED BY <1>2, <2>1, <2>3, <2>4, <2>5 DEF Record, Written
  <1> QED BY <1>1, <1>2

LEMMA FailedRow ==
  ASSUME NEW r \in Row, NEW wait \in Nat, clock \in Nat
  PROVE  LET q == Failed(r, wait) IN
           /\ q \in Row
           /\ q.kind = r.kind /\ q.site = r.site /\ q.limit = r.limit /\ q.born = r.born
           /\ q.updated = clock /\ q.fails = r.fails + 1
           /\ q.status \in {"pending", "failed"}
           /\ q.status = "pending" =>
                /\ q.tries = Largest(r.tries, 0) + 1
                /\ q.tries < MaxRetryCount /\ q.tries <= r.limit
  <1> DEFINE q == Failed(r, wait)
  <1>1. MaxRetryCount \in Nat \ {0}
    BY ConstantsAssumption
  <1>2. /\ r.tries \in Int /\ r.limit \in Int /\ r.fails \in Nat /\ r.due \in Nat
        /\ r.kind \in Kinds /\ r.site \in Sites /\ r.born \in Nat /\ r.readable \in BOOLEAN
    BY DEF Row
  <1>3. TriesAfter(r) \in Int
    BY <1>1, <1>2 DEF TriesAfter, Least, Largest
  <1>4. /\ q = [r EXCEPT !.status = IF Terminal(r) THEN "failed" ELSE "pending",
                          !.due = IF Terminal(r) THEN r.due ELSE clock + wait,
                          !.tries = TriesAfter(r), !.updated = clock,
                          !.fails = r.fails + 1]
        /\ (IF Terminal(r) THEN "failed" ELSE "pending") \in Active \cup Ended
        /\ (IF Terminal(r) THEN r.due ELSE clock + wait) \in Nat
        /\ r.fails + 1 \in Nat
    BY <1>2 DEF Failed, Active, Ended
  <1>5. ~Terminal(r) => /\ TriesAfter(r) = Largest(r.tries, 0) + 1
                        /\ TriesAfter(r) < MaxRetryCount /\ TriesAfter(r) <= r.limit
    BY <1>1, <1>2 DEF Terminal, TriesAfter, Least, Largest
  <1>6. /\ q \in Row
        /\ q.kind = r.kind /\ q.site = r.site /\ q.limit = r.limit /\ q.born = r.born
        /\ q.updated = clock /\ q.fails = r.fails + 1 /\ q.tries = TriesAfter(r)
        /\ q.status = IF Terminal(r) THEN "failed" ELSE "pending"
    <2> DEFINE st == IF Terminal(r) THEN "failed" ELSE "pending"
               due == IF Terminal(r) THEN r.due ELSE clock + wait
               n   == TriesAfter(r)
               f   == r.fails + 1
    <2>1. /\ q = [r EXCEPT !.status = st, !.due = due, !.tries = n, !.updated = clock,
                           !.fails = f]
          /\ st \in Active \cup Ended /\ due \in Nat /\ n \in Int /\ f \in Nat
      BY <1>3, <1>4
    <2> HIDE DEF q, st, due, n, f
    <2>2. q \in Row
      BY <2>1 DEF Row
    <2>3. /\ q.kind = r.kind /\ q.site = r.site /\ q.limit = r.limit /\ q.born = r.born
          /\ q.status = st /\ q.updated = clock /\ q.tries = n /\ q.fails = f
      BY <2>1 DEF Row
    <2> QED BY <2>2, <2>3 DEF st, n, f
  <1> QED BY <1>5, <1>6

LEMMA OutcomeShape ==
  ASSUME TypeOK, NEW l \in Lanes, Outcome(l)
  PROVE  LetsGo(l) \/ \E i \in DOMAIN jobs : Written(l, i)
  <1> DEFINE r == Mine(l)
  <1>0. clock \in Nat /\ (StillClaimed(held[l]) => r \in Row) /\ MaxDelay \in Nat
    BY ConstantsAssumption DEF TypeOK, IsTable, StillClaimed, Mine
  <1>1. CASE Complete(l)
    <2> DEFINE q == [r EXCEPT !.status = "completed", !.updated = clock]
    <2>1. r \in Row =>
            /\ q \in Row /\ q.kind = r.kind /\ q.site = r.site /\ q.limit = r.limit
            /\ q.born = r.born /\ q.status = "completed" /\ q.updated = clock
            /\ q.tries = r.tries /\ q.fails = r.fails
      BY <1>0 DEF Row, Ended
    <2>2. Record(l, q)
      BY <1>1 DEF Complete
    <2> HIDE DEF r, q
    <2> QED BY <1>0, <2>1, <2>2, RecordShape DEF r
  <1>2. ASSUME NEW wait \in 1..MaxDelay, Defer(l, wait)
        PROVE  LetsGo(l) \/ \E i \in DOMAIN jobs : Written(l, i)
    <2> DEFINE q == [r EXCEPT !.status = "pending", !.due = clock + wait, !.updated = clock]
    <2>0. clock + wait \in Nat
      BY <1>0
    <2>1. r \in Row =>
            /\ q \in Row /\ q.kind = r.kind /\ q.site = r.site /\ q.limit = r.limit
            /\ q.born = r.born /\ q.status = "pending" /\ q.updated = clock
            /\ q.tries = r.tries /\ q.fails = r.fails
      BY <1>0, <2>0 DEF Row, Active
    <2>2. Record(l, q)
      BY <1>2 DEF Defer
    <2> HIDE DEF r, q
    <2> QED BY <1>0, <2>1, <2>2, RecordShape DEF r
  <1>3. ASSUME NEW wait \in 1..MaxDelay, Fail(l, wait)
        PROVE  LetsGo(l) \/ \E i \in DOMAIN jobs : Written(l, i)
    <2> DEFINE q == Failed(r, wait)
    <2>0. wait \in Nat
      BY <1>0
    <2>1. r \in Row =>
            /\ q \in Row /\ q.kind = r.kind /\ q.site = r.site /\ q.limit = r.limit
            /\ q.born = r.born /\ q.updated = clock /\ q.fails = r.fails + 1
            /\ q.status \in {"pending", "failed"}
            /\ q.status = "pending" =>
                 /\ q.tries = Largest(r.tries, 0) + 1
                 /\ q.tries < MaxRetryCount /\ q.tries <= r.limit
      BY <1>0, <2>0, FailedRow
    <2>2. Record(l, q)
      BY <1>3 DEF Fail
    <2> HIDE DEF r, q
    <2> QED BY <1>0, <2>1, <2>2, RecordShape DEF r
  <1>4. CASE Abandon(l)
    BY <1>4 DEF Abandon, LetsGo
  <1> QED BY <1>1, <1>2, <1>3, <1>4 DEF Outcome

LEMMA NextShape ==
  ASSUME TypeOK, [Next]_vars
  PROVE  Shape
  <1>0. clock \in Nat /\ sites \subseteq Sites
    BY DEF TypeOK
  <1>1. ASSUME NEW k \in Kinds, NEW s \in Sites, ScheduledEnqueue(k, s) \/ DirectEnqueue(k, s)
        PROVE  Shape
    BY <1>1, InsertShape DEF ScheduledEnqueue, DirectEnqueue, Shape
  <1>2. ASSUME NEW l \in Lanes, LaneStep(l)
        PROVE  Shape
    BY <1>2, ClaimShape, RejectShape, OutcomeShape DEF LaneStep, ClaimNext, Shape
  <1>3. CASE Start \/ ShutdownReclaim
    <2>1. Reclaims
      BY <1>3 DEF Start, ShutdownReclaim, Reclaims
    <2> QED BY <2>1 DEF Shape
  <1>4. CASE Stop \/ Exit \/ Crash \/ SwitchOn \/ Tick
    <2>1. CASE Tick
      BY <1>0, <2>1 DEF Tick, Rests, Shape
    <2>2. CASE Stop
      BY <1>0, <2>2 DEF Stop, Rests, Shape
    <2>3. CASE Exit \/ Crash
      BY <1>0, <2>3 DEF Exit, Crash, Rests, Shape
    <2>4. CASE SwitchOn
      BY <1>0, <2>4 DEF SwitchOn, Rests, Shape
    <2> QED BY <1>4, <2>1, <2>2, <2>3, <2>4
  <1>5. CASE Purge
    BY <1>5 DEF Purge, Purges, Shape
  <1>6. ASSUME NEW s \in Sites, DeleteSite(s) \/ CreateSite(s)
        PROVE  Shape
    BY <1>0, <1>6 DEF DeleteSite, CreateSite, Deletes, Rests, Shape
  <1>7. CASE UNCHANGED vars
    BY <1>0, <1>7 DEF vars, Rests, Shape
  <1> QED BY <1>1, <1>2, <1>3, <1>4, <1>5, <1>6, <1>7 DEF Next

-----------------------------------------------------------------------------
(* The inductive invariant.                                                 *)

\* Ids are given out in the order of the inserts; no lane holds a later row than
\* there is.
BirthOrder ==
  /\ \A i \in DOMAIN jobs : jobs[i].born <= births
  /\ \A i, j \in DOMAIN jobs : i < j => jobs[i].born < jobs[j].born
  /\ \A l \in Lanes : held[l].born <= births

\* A lane holds what it claims, under the kind of its row.
HeldFit ==
  \A l \in Lanes : held[l] # NoHold =>
    /\ Claims(l, held[l].kind)
    /\ \A i \in DOMAIN jobs : HeldBy(l, i) => held[l].kind = jobs[i].kind

\* A running row is its lane's, or the lane let go of it after a stop began; a
\* reclaim leaves none.
RunningOwned ==
  proc # "down" =>
    \A i \in DOMAIN jobs, l \in Lanes :
      jobs[i].status = "running" /\ Claims(l, jobs[i].kind) =>
        \/ proc # "reclaimed" /\ held[l] # NoHold /\ HeldBy(l, i)
        \/ proc = "stopping" /\ held[l] = NoHold

\* A row that failed and waits or runs again has counted every failure, and is
\* within both limits.
TriesFit ==
  \A i \in DOMAIN jobs : jobs[i].status \in Active =>
    \/ jobs[i].fails = 0
    \/ /\ jobs[i].fails <= jobs[i].tries
       /\ jobs[i].tries < MaxRetryCount /\ jobs[i].tries <= jobs[i].limit

\* How a key's last run ended is shown by its latest row, until the key is live
\* again or the failure is purged.
Shown(k, s) ==
  LET last == ended[<<k, s>>] IN
  \/ last = Never
  \/ HasActive(k, s)
  \/ \E i \in DOMAIN jobs : /\ IsLatest(i, k, s) /\ jobs[i].status = last.status
                            /\ jobs[i].updated = last.at
  \/ last.status = "failed" /\ last.at + Retention < clock

EndingShown == \A k \in Kinds, s \in Sites : Shown(k, s)

Inv == /\ TypeOK /\ BirthOrder /\ HeldFit /\ RunningOwned
       /\ TriesFit /\ RetriesEnd /\ EndingShown

LEMMA InitInv == Init => Inv
  <1> SUFFICES ASSUME Init PROVE Inv
    OBVIOUS
  <1>1. /\ jobs \in InitialTables /\ IsTable(jobs)
        /\ \A i \in DOMAIN jobs : jobs[i].born = i /\ jobs[i].fails = 0
        /\ births \in 0..MaxJobs /\ DOMAIN jobs = 1..births
    BY ConstantsAssumption DEF Init
  <1>2. TypeOK
    BY <1>1 DEF Init, TypeOK, Idle
  <1>3. BirthOrder
    BY <1>1 DEF Init, BirthOrder, Idle, NoHold
  <1>4. HeldFit /\ RunningOwned
    BY DEF Init, HeldFit, RunningOwned, Idle
  <1>5. TriesFit /\ RetriesEnd
    BY <1>1, ConstantsAssumption DEF TriesFit, RetriesEnd, Largest, IsTable, Row
  <1>6. EndingShown
    BY DEF Init, EndingShown, Shown, Keys
  <1> QED BY <1>2, <1>3, <1>4, <1>5, <1>6 DEF Inv

-----------------------------------------------------------------------------
(* The steps.                                                               *)

\* A row written anew keeps the table one, when it was live.
LEMMA RewrittenTable ==
  ASSUME IsTable(jobs), NEW i \in DOMAIN jobs, Rewrites(i), jobs[i].status \in Active
  PROVE  IsTable(jobs)'
  <1>1. DOMAIN jobs' \subseteq 1..MaxJobs /\ \A j \in DOMAIN jobs' : jobs'[j] \in Row
    BY DEF IsTable, Rewrites
  <1>2. \A j \in DOMAIN jobs :
          /\ jobs'[j].kind = jobs[j].kind /\ jobs'[j].site = jobs[j].site
          /\ jobs'[j].status \in Active => jobs[j].status \in Active
    BY DEF Rewrites
  <1> QED BY <1>1, <1>2 DEF IsTable, Rewrites

\* Whatever subset of the rows goes, the rest is a table.
LEMMA RestTable ==
  ASSUME IsTable(jobs), NEW S, jobs' = Without(S)
  PROVE  /\ IsTable(jobs)'
         /\ DOMAIN jobs' = DOMAIN jobs \ S
         /\ \A i \in DOMAIN jobs' : jobs'[i] = jobs[i]
  BY DEF IsTable, Without

LEMMA FewerRows ==
  ASSUME TypeOK, Purges \/ \E s \in Sites : Deletes(s)
  PROVE  /\ DOMAIN jobs' \subseteq DOMAIN jobs
         /\ \A i \in DOMAIN jobs' : jobs'[i] = jobs[i]
         /\ UNCHANGED <<clock, proc, held, births>>
  <1>1. ASSUME NEW S, jobs' = Without(S)
        PROVE  /\ DOMAIN jobs' \subseteq DOMAIN jobs
               /\ \A i \in DOMAIN jobs' : jobs'[i] = jobs[i]
    BY <1>1 DEF Without
  <1> QED BY <1>1 DEF Purges, Deletes

LEMMA ReclaimedRows ==
  ASSUME TypeOK, jobs' = Reclaimed
  PROVE  /\ IsTable(jobs)'
         /\ DOMAIN jobs' = DOMAIN jobs
         /\ \A i \in DOMAIN jobs :
              /\ jobs'[i].status # "running"
              /\ jobs[i].status \notin Active => jobs'[i] = jobs[i]
              /\ jobs[i].status \in Active => jobs'[i].status = "pending"
              /\ jobs'[i].kind = jobs[i].kind /\ jobs'[i].site = jobs[i].site
              /\ jobs'[i].born = jobs[i].born /\ jobs'[i].fails = jobs[i].fails
              /\ jobs'[i].tries = jobs[i].tries /\ jobs'[i].limit = jobs[i].limit
  <1>1. DOMAIN jobs' = DOMAIN jobs
    BY DEF Reclaimed
  <1>2. ASSUME NEW i \in DOMAIN jobs
        PROVE  /\ jobs'[i].status # "running" /\ jobs'[i] \in Row
               /\ jobs[i].status \notin Active => jobs'[i] = jobs[i]
               /\ jobs[i].status \in Active => jobs'[i].status = "pending"
               /\ jobs'[i].kind = jobs[i].kind /\ jobs'[i].site = jobs[i].site
               /\ jobs'[i].born = jobs[i].born /\ jobs'[i].fails = jobs[i].fails
               /\ jobs'[i].tries = jobs[i].tries /\ jobs'[i].limit = jobs[i].limit
    <2>1. jobs[i] \in Row /\ clock \in Nat
      BY DEF TypeOK, IsTable
    <2>2. CASE jobs[i].status = "running"
      <3>1. jobs'[i] = [jobs[i] EXCEPT !.status = "pending", !.updated = clock]
        BY <2>2 DEF Reclaimed
      <3> QED BY <2>1, <2>2, <3>1 DEF Row, Active
    <2>3. CASE jobs[i].status # "running"
      <3>1. jobs'[i] = jobs[i]
        BY <2>3 DEF Reclaimed
      <3> QED BY <2>1, <2>3, <3>1 DEF Active
    <2> QED BY <2>2, <2>3
  <1>3. IsTable(jobs)'
    <2>1. \A j \in DOMAIN jobs :
            jobs'[j].status \in Active => jobs[j].status \in Active
      BY <1>2
    <2>2. IsTable(jobs)
      BY DEF TypeOK
    <2> QED BY <1>1, <1>2, <2>1, <2>2 DEF IsTable
  <1> QED BY <1>1, <1>2, <1>3

LEMMA TypeStep ==
  ASSUME TypeOK, [Next]_vars
  PROVE  TypeOK'
  <1>0. IsTable(jobs) /\ held \in [Lanes -> Hold \cup {NoHold}]
        /\ ended \in [Keys -> Ending \cup {Never}]
        /\ clock \in Nat /\ births \in 0..MaxJobs /\ sites \subseteq Sites
    BY DEF TypeOK
  <1>1. /\ closeOn' \in BOOLEAN /\ starts' \in Nat
        /\ proc' \in {"down", "up", "stopping", "reclaimed"}
    <2> USE DEF TypeOK
    <2>1. ASSUME NEW l \in Lanes, LaneStep(l)
          PROVE  UNCHANGED <<closeOn, starts, proc>>
      BY <2>1 DEF LaneStep, ClaimNext, Claim, ClaimUnreadable, Outcome, Complete, Defer,
                  Fail, Abandon, Record
    <2>2. ASSUME NEW k \in Kinds, NEW s \in Sites,
                 ScheduledEnqueue(k, s) \/ DirectEnqueue(k, s)
          PROVE  UNCHANGED <<closeOn, starts, proc>>
      BY <2>2 DEF ScheduledEnqueue, DirectEnqueue, Insert
    <2>3. ASSUME NEW s \in Sites, DeleteSite(s) \/ CreateSite(s)
          PROVE  UNCHANGED <<closeOn, starts, proc>>
      BY <2>3 DEF DeleteSite, CreateSite
    <2>4. CASE Start \/ Stop \/ ShutdownReclaim \/ Exit \/ Crash
      BY <2>4 DEF Start, Stop, ShutdownReclaim, Exit, Crash
    <2>5. CASE Purge \/ SwitchOn \/ Tick \/ UNCHANGED vars
      BY <2>5 DEF Purge, SwitchOn, Tick, vars
    <2> QED BY <2>1, <2>2, <2>3, <2>4, <2>5 DEF Next
  <1>2. ASSUME NEW q \in Keys, NEW st \in Ended
        PROVE  EndOf(q[1], q[2], st) \in [Keys -> Ending \cup {Never}]
    BY <1>0 DEF EndOf, Ending, Keys
  <1> SUFFICES ASSUME Shape
               PROVE  /\ IsTable(jobs)' /\ held' \in [Lanes -> Hold \cup {NoHold}]
                      /\ ended' \in [Keys -> Ending \cup {Never}]
                      /\ clock' \in Nat /\ births' \in 0..MaxJobs /\ sites' \subseteq Sites
    BY <1>1, NextShape DEF TypeOK
  <1>3. ASSUME NEW k \in Kinds, NEW s \in Sites, NEW n \in 1..MaxJobs, Inserted(k, s, n)
        PROVE  IsTable(jobs)'
    BY <1>0, <1>3 DEF Inserted, IsTable, HasActive
  <1>4. ASSUME NEW l \in Lanes, NEW i \in DOMAIN jobs, Claimed(l, i)
        PROVE  IsTable(jobs)' /\ held' \in [Lanes -> Hold \cup {NoHold}]
    <2>1. jobs[i].kind \in Kinds /\ jobs[i].born \in Nat /\ i \in Nat
      BY <1>0 DEF IsTable, Row
    <2> QED BY <1>0, <1>4, <2>1, RewrittenTable DEF Claimed, Active, Hold
  <1>5. ASSUME NEW i \in DOMAIN jobs, Rejected(i)
        PROVE  IsTable(jobs)' /\ ended' \in [Keys -> Ending \cup {Never}]
    <2>1. <<jobs[i].kind, jobs[i].site>> \in Keys
      BY <1>0 DEF IsTable, Row, Keys
    <2> QED BY <1>0, <1>2, <1>5, <2>1, RewrittenTable DEF Rejected, Active, Ended
  <1>6. ASSUME NEW l \in Lanes, NEW i \in DOMAIN jobs, Written(l, i)
        PROVE  /\ IsTable(jobs)' /\ held' \in [Lanes -> Hold \cup {NoHold}]
               /\ ended' \in [Keys -> Ending \cup {Never}]
    <2>1. <<jobs[i].kind, jobs[i].site>> \in Keys
      BY <1>0 DEF IsTable, Row, Keys
    <2>2. IsTable(jobs)' /\ held' \in [Lanes -> Hold \cup {NoHold}]
      BY <1>0, <1>6, RewrittenTable DEF Written, Active
    <2>3. ended' \in [Keys -> Ending \cup {Never}]
      BY <1>0, <1>2, <1>6, <2>1 DEF Written
    <2> QED BY <2>2, <2>3
  <1>7. ASSUME NEW l \in Lanes, LetsGo(l)
        PROVE  IsTable(jobs)' /\ held' \in [Lanes -> Hold \cup {NoHold}]
    BY <1>0, <1>7 DEF LetsGo, IsTable
  <1>8. CASE Reclaims
    BY <1>0, <1>8, ReclaimedRows DEF Reclaims
  <1>9. CASE Purges
    BY <1>0, <1>9, RestTable DEF Purges
  <1>10. CASE Rests
    BY <1>0, <1>10 DEF Rests, IsTable, Idle
  <1>11. ASSUME NEW s \in Sites, Deletes(s)
         PROVE  IsTable(jobs)' /\ ended' \in [Keys -> Ending \cup {Never}]
    BY <1>0, <1>11, RestTable DEF Deletes
  <1>12. CASE \E k \in Kinds, s \in Sites, n \in 1..MaxJobs : Inserted(k, s, n)
    BY <1>0, <1>3, <1>12 DEF Inserted
  <1>13. CASE \E l \in Lanes : \E i \in DOMAIN jobs : Claimed(l, i)
    BY <1>0, <1>4, <1>13 DEF Claimed
  <1>14. CASE \E i \in DOMAIN jobs : Rejected(i)
    BY <1>0, <1>5, <1>14 DEF Rejected
  <1>15. CASE \E l \in Lanes : \E i \in DOMAIN jobs : Written(l, i)
    BY <1>0, <1>6, <1>15 DEF Written
  <1>16. CASE \E l \in Lanes : LetsGo(l)
    BY <1>0, <1>7, <1>16 DEF LetsGo
  <1>17. CASE \E s \in Sites : Deletes(s)
    BY <1>0, <1>11, <1>17 DEF Deletes
  <1> QED BY <1>8, <1>9, <1>10, <1>12, <1>13, <1>14, <1>15, <1>16, <1>17 DEF Shape

LEMMA BirthStep ==
  ASSUME TypeOK, BirthOrder, Shape
  PROVE  BirthOrder'
  <1>0. /\ births \in Nat /\ DOMAIN jobs \subseteq Nat
        /\ \A i \in DOMAIN jobs : jobs[i].born \in Nat
        /\ \A l \in Lanes : held[l].born \in Nat
        /\ held \in [Lanes -> Hold \cup {NoHold}]
    BY ConstantsAssumption DEF TypeOK, IsTable, Row, Hold, NoHold
  <1> USE <1>0 DEF BirthOrder
  <1>1. ASSUME NEW k \in Kinds, NEW s \in Sites, NEW n \in 1..MaxJobs, Inserted(k, s, n)
        PROVE  BirthOrder'
    BY <1>1 DEF Inserted
  <1>2. ASSUME NEW l \in Lanes, NEW i \in DOMAIN jobs, Claimed(l, i)
        PROVE  BirthOrder'
    <2>1. \A m \in Lanes : held'[m].born <= births
      BY <1>2 DEF Claimed
    <2> QED BY <1>2, <2>1 DEF Claimed, Rewrites
  <1>3. ASSUME NEW i \in DOMAIN jobs, Rejected(i)
        PROVE  BirthOrder'
    BY <1>3 DEF Rejected, Rewrites
  <1>4. ASSUME NEW l \in Lanes, NEW i \in DOMAIN jobs, Written(l, i)
        PROVE  BirthOrder'
    BY <1>4 DEF Written, Rewrites, NoHold
  <1>5. ASSUME NEW l \in Lanes, LetsGo(l)
        PROVE  BirthOrder'
    BY <1>5 DEF LetsGo, NoHold
  <1>6. CASE Reclaims
    BY <1>6, ReclaimedRows DEF Reclaims
  <1>7. CASE Purges \/ \E s \in Sites : Deletes(s)
    BY <1>7, FewerRows
  <1>8. CASE Rests
    BY <1>8 DEF Rests, Idle, NoHold
  <1> QED BY <1>1, <1>2, <1>3, <1>4, <1>5, <1>6, <1>7, <1>8 DEF Shape

LEMMA HeldStep ==
  ASSUME TypeOK, BirthOrder, HeldFit, Shape
  PROVE  HeldFit'
  <1>0. /\ births \in Nat /\ DOMAIN jobs \subseteq Nat
        /\ \A i \in DOMAIN jobs : jobs[i].born \in Nat
        /\ \A l \in Lanes : held[l].born \in Nat /\ held[l].born <= births
        /\ held \in [Lanes -> Hold \cup {NoHold}]
    BY ConstantsAssumption DEF TypeOK, IsTable, Row, Hold, NoHold, BirthOrder
  <1> USE <1>0 DEF HeldFit, HeldBy
  <1>1. ASSUME NEW k \in Kinds, NEW s \in Sites, NEW n \in 1..MaxJobs, Inserted(k, s, n)
        PROVE  HeldFit'
    BY <1>1 DEF Inserted
  <1>2. ASSUME NEW l \in Lanes, NEW i \in DOMAIN jobs, Claimed(l, i)
        PROVE  HeldFit'
    <2>1. /\ held'[l].kind = jobs[i].kind /\ held'[l].id = i
          /\ \A m \in Lanes : m # l => held'[m] = held[m]
          /\ Claims(l, jobs[i].kind)
      BY <1>2 DEF Claimed
    <2>2. /\ DOMAIN jobs' = DOMAIN jobs
          /\ \A j \in DOMAIN jobs : /\ jobs'[j].kind = jobs[j].kind
                                    /\ jobs'[j].born = jobs[j].born
      BY <1>2 DEF Claimed, Rewrites
    <2> QED BY <2>1, <2>2
  <1>3. ASSUME NEW i \in DOMAIN jobs, Rejected(i)
        PROVE  HeldFit'
    BY <1>3 DEF Rejected, Rewrites
  <1>4. ASSUME NEW l \in Lanes, NEW i \in DOMAIN jobs, Written(l, i)
        PROVE  HeldFit'
    BY <1>4 DEF Written, Rewrites
  <1>5. ASSUME NEW l \in Lanes, LetsGo(l)
        PROVE  HeldFit'
    BY <1>5 DEF LetsGo
  <1>6. CASE Reclaims
    BY <1>6, ReclaimedRows DEF Reclaims
  <1>7. CASE Purges \/ \E s \in Sites : Deletes(s)
    BY <1>7, FewerRows
  <1>8. CASE Rests
    BY <1>8 DEF Rests, Idle
  <1> QED BY <1>1, <1>2, <1>3, <1>4, <1>5, <1>6, <1>7, <1>8 DEF Shape

\* Each type has one lane, and a lane's own claims are of its types.
LEMMA OneLane ==
  /\ \A k \in Kinds, l, m \in Lanes : Claims(l, k) /\ Claims(m, k) => l = m
  /\ \A k \in Kinds : \E l \in Lanes : Claims(l, k)
  /\ \A k, j \in Kinds, l \in Lanes : Type(k) = Type(j) /\ Claims(l, j) => Claims(l, k)
  BY DEF Claims, Lanes

LEMMA OwnedStep ==
  ASSUME TypeOK, HeldFit, RunningOwned, Shape
  PROVE  RunningOwned'
  <1>0. /\ DOMAIN jobs \subseteq 1..MaxJobs /\ MaxJobs \in Nat
        /\ \A i \in DOMAIN jobs : jobs[i] \in Row /\ jobs[i].kind \in Kinds
        /\ held \in [Lanes -> Hold \cup {NoHold}]
    BY ConstantsAssumption DEF TypeOK, IsTable, Row
  <1>1. ASSUME NEW k \in Kinds, NEW s \in Sites, NEW n \in 1..MaxJobs, Inserted(k, s, n)
        PROVE  RunningOwned'
    BY <1>0, <1>1 DEF Inserted, RunningOwned, HeldBy
  <1>2. ASSUME NEW l \in Lanes, NEW i \in DOMAIN jobs, Claimed(l, i)
        PROVE  RunningOwned'
    <2>1. /\ held'[l].born = jobs[i].born /\ held'[l].id = i
          /\ \A m \in Lanes : m # l => held'[m] = held[m]
          /\ Claims(l, jobs[i].kind) /\ i # 0 /\ proc' = proc
      BY <1>0, <1>2 DEF Claimed
    <2>2. held'[l] # NoHold
      BY <2>1 DEF NoHold
    <2>3. /\ DOMAIN jobs' = DOMAIN jobs /\ jobs'[i].born = jobs[i].born
          /\ jobs'[i].kind = jobs[i].kind
          /\ \A j \in DOMAIN jobs : j # i => jobs'[j] = jobs[j]
      BY <1>2 DEF Claimed, Rewrites
    <2>4. held[l] = NoHold /\ proc = "up"
      BY <1>2 DEF Claimed
    <2> QED BY <1>0, <2>1, <2>2, <2>3, <2>4, OneLane DEF RunningOwned, HeldBy
  <1>3. ASSUME NEW i \in DOMAIN jobs, Rejected(i)
        PROVE  RunningOwned'
    BY <1>3 DEF Rejected, Rewrites, RunningOwned, HeldBy
  <1>4. ASSUME NEW l \in Lanes, NEW i \in DOMAIN jobs, Written(l, i)
        PROVE  RunningOwned'
    BY <1>0, <1>4 DEF Written, Rewrites, RunningOwned, HeldBy
  <1>5. ASSUME NEW l \in Lanes, LetsGo(l)
        PROVE  RunningOwned'
    <2>1. held'[l] = NoHold /\ \A m \in Lanes : m # l => held'[m] = held[m]
      BY <1>0, <1>5 DEF LetsGo
    <2> SUFFICES ASSUME proc # "down", NEW i \in DOMAIN jobs, NEW m \in Lanes,
                        jobs[i].status = "running", Claims(m, jobs[i].kind)
                 PROVE  \/ proc # "reclaimed" /\ held'[m] # NoHold /\ HeldBy(m, i)'
                        \/ proc = "stopping" /\ held'[m] = NoHold
      BY <1>5 DEF LetsGo, RunningOwned
    <2>2. \/ proc # "reclaimed" /\ held[m] # NoHold /\ HeldBy(m, i)
          \/ proc = "stopping" /\ held[m] = NoHold
      BY DEF RunningOwned
    <2>3. CASE m # l
      BY <1>5, <2>1, <2>2, <2>3 DEF HeldBy, LetsGo
    <2>4. CASE m = l
      <3>1. held[l] # NoHold /\ HeldBy(l, i)
        BY <1>5, <2>2, <2>4 DEF LetsGo
      <3>2. StillClaimed(held[l])
        BY <3>1 DEF StillClaimed, HeldBy, HeldFit
      <3>3. proc \in {"stopping", "reclaimed"}
        BY <1>5, <3>2 DEF LetsGo
      <3>4. CASE proc = "stopping"
        BY <2>1, <2>4, <3>4
      <3>5. CASE proc = "reclaimed"
        BY <2>2, <3>5
      <3> QED BY <3>3, <3>4, <3>5
    <2> QED BY <2>3, <2>4
  <1>6. CASE Reclaims
    BY <1>6, ReclaimedRows DEF Reclaims, RunningOwned
  <1>7. CASE Purges \/ \E s \in Sites : Deletes(s)
    BY <1>7, FewerRows DEF RunningOwned, HeldBy
  <1>8. CASE Rests
    BY <1>8 DEF Rests, RunningOwned, HeldBy
  <1> QED BY <1>1, <1>2, <1>3, <1>4, <1>5, <1>6, <1>7, <1>8 DEF Shape

LEMMA TriesStep ==
  ASSUME TypeOK, TriesFit, RetriesEnd, Shape
  PROVE  TriesFit' /\ RetriesEnd'
  <1>0. /\ MaxRetryCount \in Nat \ {0}
        /\ \A i \in DOMAIN jobs : /\ jobs[i].fails \in Nat /\ jobs[i].tries \in Int
                                  /\ jobs[i].limit \in Int
    BY ConstantsAssumption DEF TypeOK, IsTable, Row
  <1>1. ASSUME NEW k \in Kinds, NEW s \in Sites, NEW n \in 1..MaxJobs, Inserted(k, s, n)
        PROVE  TriesFit' /\ RetriesEnd'
    <2>1. jobs'[n].limit \in Int
      BY <1>1 DEF Inserted, Row
    <2> QED BY <1>0, <1>1, <2>1 DEF Inserted, TriesFit, RetriesEnd, Largest
  <1>2. ASSUME NEW i \in DOMAIN jobs, Rewrites(i), jobs[i].status \in Active,
               KeepsCounts(i) \/ CountsFailure(i)
        PROVE  TriesFit' /\ RetriesEnd'
    <2>1. CASE KeepsCounts(i)
      BY <1>0, <1>2, <2>1 DEF Rewrites, KeepsCounts, TriesFit, RetriesEnd
    <2>2. CASE CountsFailure(i)
      <3>1. /\ jobs'[i].fails = jobs[i].fails + 1
            /\ jobs'[i].limit = jobs[i].limit
            /\ jobs'[i].status \in Active =>
                 /\ jobs'[i].tries = Largest(jobs[i].tries, 0) + 1
                 /\ jobs'[i].tries < MaxRetryCount /\ jobs'[i].tries <= jobs[i].limit
        BY <1>2, <2>2 DEF Rewrites, CountsFailure, Active
      <3>2. \/ jobs[i].fails = 0
            \/ /\ jobs[i].fails <= jobs[i].tries
               /\ jobs[i].tries < MaxRetryCount /\ jobs[i].tries <= jobs[i].limit
        BY <1>2 DEF TriesFit
      <3>3. /\ jobs'[i].fails <= MaxRetryCount
            /\ jobs'[i].fails <= Largest(jobs'[i].limit, 0) + 1
        BY <1>0, <3>1, <3>2 DEF Largest
      <3>4. jobs'[i].status \in Active =>
              /\ jobs'[i].fails <= jobs'[i].tries
              /\ jobs'[i].tries < MaxRetryCount /\ jobs'[i].tries <= jobs'[i].limit
        BY <1>0, <3>1, <3>2 DEF Largest
      <3> QED BY <1>2, <3>3, <3>4 DEF Rewrites, TriesFit, RetriesEnd
    <2> QED BY <1>2, <2>1, <2>2
  <1>3. CASE \E l \in Lanes, i \in DOMAIN jobs : Claimed(l, i)
    BY <1>2, <1>3 DEF Claimed, Active
  <1>4. CASE \E i \in DOMAIN jobs : Rejected(i)
    BY <1>2, <1>4 DEF Rejected, Active
  <1>5. CASE \E l \in Lanes : \E i \in DOMAIN jobs : Written(l, i)
    BY <1>2, <1>5 DEF Written, Active
  <1>6. CASE Reclaims
    BY <1>6, ReclaimedRows DEF Reclaims, TriesFit, RetriesEnd
  <1>7. CASE Purges \/ \E s \in Sites : Deletes(s)
    BY <1>7, FewerRows DEF TriesFit, RetriesEnd
  <1>8. CASE Rests \/ \E l \in Lanes : LetsGo(l)
    BY <1>8 DEF Rests, LetsGo, TriesFit, RetriesEnd
  <1> QED BY <1>1, <1>3, <1>4, <1>5, <1>6, <1>7, <1>8 DEF Shape

\* A live row that ends or is put back: what its key shows is the row itself.
LEMMA WrittenShown ==
  ASSUME TypeOK, EndingShown, NEW i \in DOMAIN jobs, Rewrites(i), clock' = clock,
         jobs[i].status \in Active, jobs'[i].updated = clock,
         jobs'[i].status \in Ended \cup Active,
         ended' = IF jobs'[i].status \in Ended
                  THEN EndOf(jobs[i].kind, jobs[i].site, jobs'[i].status) ELSE ended
  PROVE  EndingShown'
  <1> SUFFICES ASSUME NEW k \in Kinds, NEW s \in Sites PROVE Shown(k, s)'
    BY DEF EndingShown
  <1>0. /\ <<k, s>> \in Keys /\ jobs[i].kind \in Kinds /\ jobs[i].site \in Sites
        /\ ended \in [Keys -> Ending \cup {Never}]
    BY DEF Keys, TypeOK, IsTable, Row
  <1>1. CASE jobs[i].kind = k /\ jobs[i].site = s
    <2>1. \A j \in DOMAIN jobs' : jobs'[j].kind = k /\ jobs'[j].site = s => j <= i
      BY <1>1 DEF Rewrites, TypeOK, IsTable
    <2>2. IsLatest(i, k, s)'
      BY <1>1, <2>1 DEF IsLatest, Rewrites
    <2>3. CASE jobs'[i].status \in Ended
      <3>1. ended'[<<k, s>>] = [status |-> jobs'[i].status, at |-> clock]
        BY <1>0, <1>1, <2>3 DEF EndOf
      <3> QED BY <2>2, <3>1 DEF Shown, Rewrites
    <2>4. CASE jobs'[i].status \in Active
      BY <1>1, <2>4 DEF Shown, HasActive, Rewrites
    <2> QED BY <2>3, <2>4
  <1>2. CASE ~(jobs[i].kind = k /\ jobs[i].site = s)
    <2>1. ended'[<<k, s>>] = ended[<<k, s>>]
      BY <1>0, <1>2 DEF EndOf
    <2>2. HasActive(k, s) => HasActive(k, s)'
      BY <1>2 DEF HasActive, Rewrites
    <2>3. \A j \in DOMAIN jobs : IsLatest(j, k, s) => IsLatest(j, k, s)' /\ jobs'[j] = jobs[j]
      BY <1>2 DEF IsLatest, Rewrites
    <2>4. Shown(k, s)
      BY DEF EndingShown
    <2> QED BY <2>1, <2>2, <2>3, <2>4 DEF Shown, Rewrites
  <1> QED BY <1>1, <1>2

LEMMA EndingStep ==
  ASSUME TypeOK, TypeOK', EndingShown, Shape
  PROVE  EndingShown'
  <1>0. /\ clock \in Nat /\ Retention \in Nat
        /\ ended \in [Keys -> Ending \cup {Never}]
        /\ \A q \in Keys : ended[q].at \in Nat
    BY ConstantsAssumption DEF TypeOK, Ending, Never
  <1>1. ASSUME NEW k \in Kinds, NEW s \in Sites, NEW n \in 1..MaxJobs, Inserted(k, s, n)
        PROVE  EndingShown'
    <2> SUFFICES ASSUME NEW j \in Kinds, NEW t \in Sites PROVE Shown(j, t)'
      BY DEF EndingShown
    <2>1. CASE j = k /\ t = s
      BY <1>1, <2>1 DEF Inserted, Shown, HasActive, Active
    <2>2. CASE ~(j = k /\ t = s)
      <3>1. \A i \in DOMAIN jobs : IsLatest(i, j, t) => IsLatest(i, j, t)' /\ jobs'[i] = jobs[i]
        BY <1>1, <2>2 DEF IsLatest, Inserted
      <3>2. HasActive(j, t) => HasActive(j, t)'
        BY <1>1 DEF HasActive, Inserted
      <3>3. Shown(j, t)
        BY DEF EndingShown
      <3> QED BY <1>1, <3>1, <3>2, <3>3 DEF Shown, Inserted
    <2> QED BY <2>1, <2>2
  <1>2. ASSUME NEW l \in Lanes, NEW i \in DOMAIN jobs, Claimed(l, i)
        PROVE  EndingShown'
    <2> SUFFICES ASSUME NEW j \in Kinds, NEW t \in Sites PROVE Shown(j, t)'
      BY DEF EndingShown
    <2>1. HasActive(j, t) => HasActive(j, t)'
      BY <1>2 DEF HasActive, Claimed, Rewrites, Active
    <2>2. CASE jobs[i].kind = j /\ jobs[i].site = t
      BY <1>2, <2>2 DEF Shown, HasActive, Claimed, Rewrites, Active
    <2>3. CASE ~(jobs[i].kind = j /\ jobs[i].site = t)
      <3>1. \A m \in DOMAIN jobs : IsLatest(m, j, t) => IsLatest(m, j, t)' /\ jobs'[m] = jobs[m]
        BY <1>2, <2>3 DEF IsLatest, Claimed, Rewrites
      <3>2. Shown(j, t)
        BY DEF EndingShown
      <3>3. clock' = clock /\ ended' = ended /\ DOMAIN jobs' = DOMAIN jobs
        BY <1>2 DEF Claimed, Rewrites
      <3> QED BY <2>1, <3>1, <3>2, <3>3 DEF Shown
    <2> QED BY <2>2, <2>3
  <1>3. ASSUME NEW i \in DOMAIN jobs, Rejected(i)
        PROVE  EndingShown'
    BY <1>3, WrittenShown DEF Rejected, Active, Ended
  <1>4. ASSUME NEW l \in Lanes, NEW i \in DOMAIN jobs, Written(l, i)
        PROVE  EndingShown'
    <2>1. jobs'[i].status \in Ended \cup Active
      BY <1>4 DEF Written, Rewrites, Row
    <2> QED BY <1>4, <2>1, WrittenShown DEF Written, Active
  <1>5. CASE Reclaims
    <2> SUFFICES ASSUME NEW j \in Kinds, NEW t \in Sites PROVE Shown(j, t)'
      BY DEF EndingShown
    <2>1. clock' = clock /\ ended' = ended /\ jobs' = Reclaimed
      BY <1>5 DEF Reclaims
    <2>2. HasActive(j, t) => HasActive(j, t)'
      BY <2>1, ReclaimedRows DEF HasActive, Active
    <2>3. \A i \in DOMAIN jobs : IsLatest(i, j, t) => IsLatest(i, j, t)'
      BY <2>1, ReclaimedRows DEF IsLatest
    <2>4. ASSUME NEW i \in DOMAIN jobs, IsLatest(i, j, t), jobs[i].status \in Active
          PROVE  HasActive(j, t)
      BY <2>4 DEF HasActive, IsLatest
    <2>5. \A i \in DOMAIN jobs : jobs[i].status \notin Active => jobs'[i] = jobs[i]
      BY <2>1, ReclaimedRows
    <2>6. DOMAIN jobs' = DOMAIN jobs
      BY <2>1, ReclaimedRows
    <2>7. Shown(j, t)
      BY DEF EndingShown
    <2> QED BY <2>1, <2>2, <2>3, <2>4, <2>5, <2>6, <2>7 DEF Shown
  <1>6. CASE Purges
    <2> SUFFICES ASSUME NEW j \in Kinds, NEW t \in Sites PROVE Shown(j, t)'
      BY DEF EndingShown
    <2>1. /\ clock' = clock /\ ended' = ended
          /\ DOMAIN jobs' = DOMAIN jobs \ Expired
          /\ \A i \in DOMAIN jobs' : jobs'[i] = jobs[i]
      BY <1>6 DEF Purges, Without
    <2>2. \A i \in DOMAIN jobs : IsLatest(i, j, t) /\ i \in DOMAIN jobs' => IsLatest(i, j, t)'
      BY <2>1 DEF IsLatest
    <2>3. HasActive(j, t) => HasActive(j, t)'
      BY <2>1 DEF HasActive, Active, Expired
    <2>4. ASSUME NEW i \in DOMAIN jobs, i \notin DOMAIN jobs',
                 jobs[i].status = ended[<<j, t>>].status,
                 jobs[i].updated = ended[<<j, t>>].at
          PROVE  ended[<<j, t>>].status = "failed" /\ ended[<<j, t>>].at + Retention < clock
      BY <2>1, <2>4 DEF Expired
    <2>5. Shown(j, t)
      BY DEF EndingShown
    <2> QED BY <2>1, <2>2, <2>3, <2>4, <2>5 DEF Shown
  <1>7. CASE Rests
    <2> SUFFICES ASSUME NEW j \in Kinds, NEW t \in Sites PROVE Shown(j, t)'
      BY DEF EndingShown
    <2>1. jobs' = jobs /\ ended' = ended /\ clock' \in Nat /\ clock' >= clock
      BY <1>7 DEF Rests
    <2>2. Shown(j, t) /\ <<j, t>> \in Keys
      BY DEF EndingShown, Keys
    <2> QED BY <1>0, <2>1, <2>2 DEF Shown, HasActive, IsLatest
  <1>8. ASSUME NEW l \in Lanes, LetsGo(l)
        PROVE  EndingShown'
    BY <1>8 DEF LetsGo, EndingShown, Shown, HasActive, IsLatest
  <1>9. ASSUME NEW s \in Sites, Deletes(s)
        PROVE  EndingShown'
    <2> SUFFICES ASSUME NEW j \in Kinds, NEW t \in Sites PROVE Shown(j, t)'
      BY DEF EndingShown
    <2>1. <<j, t>> \in Keys
      BY DEF Keys
    <2>2. CASE t = s
      BY <1>9, <2>1, <2>2 DEF Deletes, Shown
    <2>3. CASE t # s
      <3>1. clock' = clock /\ ended'[<<j, t>>] = ended[<<j, t>>]
        BY <1>9, <2>1, <2>3 DEF Deletes
      <3>2. /\ DOMAIN jobs' = DOMAIN jobs \ OfSite(s)
            /\ \A i \in DOMAIN jobs' : jobs'[i] = jobs[i]
        BY <1>9 DEF Deletes, Without
      <3>3. HasActive(j, t) => HasActive(j, t)'
        BY <2>3, <3>2 DEF HasActive, OfSite
      <3>4. \A i \in DOMAIN jobs :
              IsLatest(i, j, t) => i \in DOMAIN jobs' /\ IsLatest(i, j, t)'
        BY <2>3, <3>2 DEF IsLatest, OfSite
      <3>5. Shown(j, t)
        BY DEF EndingShown
      <3> QED BY <3>1, <3>2, <3>3, <3>4, <3>5 DEF Shown
    <2> QED BY <2>2, <2>3
  <1> QED BY <1>1, <1>2, <1>3, <1>4, <1>5, <1>6, <1>7, <1>8, <1>9 DEF Shape

LEMMA InvStep ==
  ASSUME Inv, [Next]_vars
  PROVE  Inv'
  <1>1. TypeOK' /\ Shape
    BY TypeStep, NextShape DEF Inv
  <1>2. BirthOrder' /\ HeldFit' /\ RunningOwned'
    BY <1>1, BirthStep, HeldStep, OwnedStep DEF Inv
  <1>3. TriesFit' /\ RetriesEnd' /\ EndingShown'
    BY <1>1, TriesStep, EndingStep DEF Inv
  <1> QED BY <1>1, <1>2, <1>3 DEF Inv

\* The inductive invariant holds in every reachable state.
THEOREM InvAlways == Spec => []Inv
  <1> QED BY InitInv, InvStep, PTL DEF Spec

-----------------------------------------------------------------------------
(* The properties.                                                          *)

\* Rows, holds and histories keep their types, and a key has at most one live row,
\* its latest.
THEOREM TypeCorrect == Spec => []TypeOK
  <1>1. Inv => TypeOK
    BY DEF Inv
  <1> QED BY <1>1, InvAlways, PTL

\* No running row is left in nobody's hands while the process works.
THEOREM RunningHeld == Spec => []RunningIsHeld
  <1>1. Inv => RunningIsHeld
    <2> SUFFICES ASSUME Inv, proc = "up", NEW i \in DOMAIN jobs, jobs[i].status = "running"
                 PROVE  \E l \in Lanes : Claims(l, jobs[i].kind) /\ HeldBy(l, i)
      BY DEF RunningIsHeld
    <2>1. jobs[i].kind \in Kinds
      BY DEF Inv, TypeOK, IsTable, Row
    <2> QED BY <2>1, OneLane DEF Inv, RunningOwned
  <1> QED BY <1>1, InvAlways, PTL

\* A job fails no more often than its limit and the largest count allow.
THEOREM RetriesBounded == Spec => []RetriesEnd
  <1>1. Inv => RetriesEnd
    BY DEF Inv
  <1> QED BY <1>1, InvAlways, PTL

\* The row an outcome is written to is the one its lane claimed.
LEMMA OwnRow ==
  ASSUME Inv, NEW l \in Lanes, NEW i \in DOMAIN jobs, Written(l, i)
  PROVE  HeldBy(l, i)
  <1>1. /\ held[l] # NoHold /\ proc # "down" /\ jobs[i].status = "running"
        /\ Type(jobs[i].kind) = Type(held[l].kind)
    BY DEF Written
  <1>2. jobs[i].kind \in Kinds /\ held[l].kind \in Kinds
    BY <1>1 DEF Inv, TypeOK, IsTable, Row, Hold
  <1>3. Claims(l, held[l].kind)
    BY <1>1 DEF Inv, HeldFit
  <1>4. Claims(l, jobs[i].kind)
    BY <1>1, <1>2, <1>3, OneLane
  <1> QED BY <1>1, <1>4 DEF Inv, RunningOwned

\* An outcome is written to the row its lane claimed and to no other.
THEOREM OutcomesOwn == Spec => OutcomeIsOwn
  <1>1. ASSUME Inv, [Next]_vars
        PROVE  \A l \in Lanes : Finishes(l) /\ jobs' # jobs =>
                 \A i \in DOMAIN jobs :
                   /\ i \in DOMAIN jobs'
                   /\ jobs'[i] # jobs[i] => HeldBy(l, i)
    <2> SUFFICES ASSUME NEW l \in Lanes, Finishes(l), jobs' # jobs
                 PROVE  \A i \in DOMAIN jobs :
                          /\ i \in DOMAIN jobs'
                          /\ jobs'[i] # jobs[i] => HeldBy(l, i)
      OBVIOUS
    <2>0. Shape /\ held \in [Lanes -> Hold \cup {NoHold}]
      BY <1>1, NextShape DEF Inv, TypeOK
    <2>1. held' # held /\ held'[l] # held[l] /\ held'[l] = NoHold
      BY DEF Finishes
    <2>2. PICK m \in Lanes : \/ \E i \in DOMAIN jobs : Claimed(m, i)
                             \/ \E i \in DOMAIN jobs : Written(m, i)
      BY <2>0, <2>1 DEF Shape, Inserted, Rejected, LetsGo, Reclaims, Purges, Deletes, Rests
    <2>3. CASE \E i \in DOMAIN jobs : Claimed(m, i)
      <3>1. PICK i \in DOMAIN jobs : Claimed(m, i)
        BY <2>3
      <3>2. held[m] = NoHold /\ \A n \in Lanes : n # m => held'[n] = held[n]
        BY <2>0, <3>1 DEF Claimed
      <3> QED BY <2>1, <3>2 DEF Finishes
    <2>4. CASE \E i \in DOMAIN jobs : Written(m, i)
      <3>1. PICK i \in DOMAIN jobs : Written(m, i)
        BY <2>4
      <3>2. m = l
        BY <2>0, <2>1, <3>1 DEF Written
      <3>3. HeldBy(l, i)
        BY <1>1, <3>1, <3>2, OwnRow
      <3> QED BY <3>1, <3>3 DEF Written, Rewrites
    <2> QED BY <2>2, <2>3, <2>4
  <1> QED BY <1>1, InvAlways, PTL DEF Spec, OutcomeIsOwn

\* A new row is a scheduled or a direct enqueue's.
LEMMA AppearsByInsert ==
  ASSUME Inv, [Next]_vars, NEW k \in Kinds, NEW s \in Sites, Appears(k, s)
  PROVE  ScheduledEnqueue(k, s) \/ DirectEnqueue(k, s)
  <1>1. PICK n \in DOMAIN jobs' : /\ jobs'[n].kind = k /\ jobs'[n].site = s
                                  /\ jobs'[n].born = births + 1
    BY DEF Appears
  <1>2. \A i \in DOMAIN jobs : jobs[i].born <= births /\ jobs[i].born \in Nat
    BY DEF Inv, BirthOrder, TypeOK, IsTable, Row
  <1>3. births \in Nat
    BY ConstantsAssumption DEF Inv, TypeOK
  <1>4. ~(n \in DOMAIN jobs /\ jobs'[n].born = jobs[n].born)
    BY <1>1, <1>2, <1>3
  <1>5. \E j \in Kinds, t \in Sites : ScheduledEnqueue(j, t) \/ DirectEnqueue(j, t)
    <2>1. ASSUME NEW l \in Lanes, LaneStep(l)
          PROVE  FALSE
      <3>1. \/ \E i \in DOMAIN jobs : Claimed(l, i) \/ Rejected(i) \/ Written(l, i)
            \/ LetsGo(l)
        BY <2>1, ClaimShape, RejectShape, OutcomeShape DEF LaneStep, ClaimNext, Inv
      <3> QED BY <1>1, <1>4, <3>1 DEF Claimed, Rejected, Written, LetsGo, Rewrites
    <2>2. CASE Start \/ ShutdownReclaim
      BY <1>1, <1>4, <2>2, ReclaimedRows DEF Start, ShutdownReclaim, Inv
    <2>3. CASE Stop \/ Exit \/ Crash \/ SwitchOn \/ Tick \/ UNCHANGED vars
      BY <1>1, <1>4, <2>3 DEF Stop, Exit, Crash, SwitchOn, Tick, vars
    <2>4. CASE Purge
      BY <1>1, <1>4, <2>4 DEF Purge, Without
    <2>5. ASSUME NEW t \in Sites, DeleteSite(t) \/ CreateSite(t)
          PROVE  FALSE
      BY <1>1, <1>4, <2>5 DEF DeleteSite, CreateSite, Without
    <2> QED BY <2>1, <2>2, <2>3, <2>4, <2>5 DEF Next
  <1>6. PICK j \in Kinds, t \in Sites : ScheduledEnqueue(j, t) \/ DirectEnqueue(j, t)
    BY <1>5
  <1>7. PICK m \in 1..MaxJobs : Inserted(j, t, m)
    BY <1>6, InsertShape DEF ScheduledEnqueue, DirectEnqueue, Inv
  <1>8. n = m
    BY <1>1, <1>4, <1>7 DEF Inserted
  <1> QED BY <1>1, <1>6, <1>7, <1>8 DEF Inserted

\* The scheduler keeps the cooldown after a failure and the spacing after a
\* success, whatever was purged, deleted or reclaimed in between.
THEOREM CooldownsKept == Spec => CooldownKept
  <1>1. ASSUME Inv, [Next]_vars
        PROVE  \A k \in Kinds \cap {"wind", "curobs"}, s \in Sites : Appears(k, s) =>
                 LET last == ended[<<k, s>>] IN
                   /\ last.status = "failed" => clock - last.at >= Cooldown
                   /\ last.status = "completed" /\ k = "wind" /\ clock \notin Evening
                        => clock - last.at >= Spacing
    <2> SUFFICES ASSUME NEW k \in Kinds \cap {"wind", "curobs"}, NEW s \in Sites,
                        Appears(k, s)
                 PROVE  LET last == ended[<<k, s>>] IN
                          /\ last.status = "failed" => clock - last.at >= Cooldown
                          /\ last.status = "completed" /\ k = "wind" /\ clock \notin Evening
                               => clock - last.at >= Spacing
      OBVIOUS
    <2> DEFINE last == ended[<<k, s>>]
    <2>0. /\ clock \in Nat /\ Retention \in Nat /\ Cooldown \in Nat /\ Spacing \in Nat
          /\ Cooldown <= Retention
          /\ last \in Ending \cup {Never}
      BY <1>1, ConstantsAssumption DEF Inv, TypeOK, Keys
    <2>1. ~Suppressed(k, s) /\ ~HasActive(k, s)
      BY <1>1, AppearsByInsert DEF ScheduledEnqueue, DirectEnqueue, Insert, MayInsert
    <2>2. Shown(k, s)
      BY <1>1 DEF Inv, EndingShown
    <2>3. last = Never => last.status = "never"
      BY DEF Never
    <2>4. ASSUME NEW i \in DOMAIN jobs, IsLatest(i, k, s), jobs[i].status = last.status,
                 jobs[i].updated = last.at, last \in Ending
          PROVE  /\ last.status = "failed" => clock - last.at >= Cooldown
                 /\ last.status = "completed" /\ k = "wind" /\ clock \notin Evening
                      => clock - last.at >= Spacing
      <3>1. last.at \in Nat /\ jobs[i].updated # Unreadable
        BY <2>4 DEF Ending, Unreadable
      <3>2. last.status = "failed" => ~(clock - last.at < Cooldown)
        BY <2>1, <2>4, <3>1 DEF Suppressed, EndedWithin, Cooled
      <3>3. last.status = "completed" /\ k = "wind" /\ clock \notin Evening
              => ~(clock - last.at < Spacing)
        BY <2>1, <2>4, <3>1 DEF Suppressed, EndedWithin
      <3> QED BY <2>0, <3>1, <3>2, <3>3
    <2>5. ASSUME last.status = "failed", last.at + Retention < clock, last \in Ending
          PROVE  clock - last.at >= Cooldown
      BY <2>0, <2>5 DEF Ending
    <2> HIDE DEF last
    <2> SUFFICES /\ last.status = "failed" => clock - last.at >= Cooldown
                 /\ last.status = "completed" /\ k = "wind" /\ clock \notin Evening
                      => clock - last.at >= Spacing
      BY DEF last
    <2>6. \/ last = Never
          \/ \E i \in DOMAIN jobs : /\ IsLatest(i, k, s) /\ jobs[i].status = last.status
                                    /\ jobs[i].updated = last.at
          \/ last.status = "failed" /\ last.at + Retention < clock
      BY <2>1, <2>2 DEF Shown, last
    <2> QED BY <2>0, <2>3, <2>4, <2>5, <2>6
  <1> QED BY <1>1, InvAlways, PTL DEF Spec, CooldownKept

-----------------------------------------------------------------------------
(* The refinement of QueueLedger.                                           *)

KeyOf(row) == <<row.kind, row.site>>

\* Phase, of any table.
PhaseIn(T, q) ==
  IF \E i \in DOMAIN T : KeyOf(T[i]) = q /\ T[i].status = "pending" THEN "waiting"
  ELSE IF \E i \in DOMAIN T : KeyOf(T[i]) = q /\ T[i].status \in Active THEN "running"
  ELSE "none"

LEMMA PhaseIsPhaseIn ==
  /\ Phase = [q \in Keys |-> PhaseIn(jobs, q)]
  /\ Phase' = [q \in Keys |-> PhaseIn(jobs', q)]
  <1>1. \A T : \A q \in Keys : \A i \in DOMAIN T :
          (T[i].kind = q[1] /\ T[i].site = q[2]) <=> KeyOf(T[i]) = q
    BY DEF Keys, KeyOf
  <1>2. \A q \in Keys : HasActive(q[1], q[2])
          <=> \E i \in DOMAIN jobs : KeyOf(jobs[i]) = q /\ jobs[i].status \in Active
    BY <1>1 DEF HasActive
  <1>3. \A q \in Keys : HasActive(q[1], q[2])'
          <=> \E i \in DOMAIN jobs' : KeyOf(jobs'[i]) = q /\ jobs'[i].status \in Active
    BY <1>1 DEF HasActive
  <1>4. Phase = [q \in Keys |-> PhaseIn(jobs, q)]
    BY <1>2 DEF Phase, PhaseIn, KeyOf
  <1>5. Phase' = [q \in Keys |-> PhaseIn(jobs', q)]
    BY <1>3 DEF Phase, PhaseIn, KeyOf
  <1> QED BY <1>4, <1>5

\* A key's live row, when there is one, is its phase.
LEMMA PhaseOfLive ==
  ASSUME NEW T, IsTable(T), NEW i \in DOMAIN T, T[i].status \in Active
  PROVE  PhaseIn(T, KeyOf(T[i])) = IF T[i].status = "pending" THEN "waiting" ELSE "running"
  <1>1. \A j \in DOMAIN T : KeyOf(T[j]) = KeyOf(T[i]) /\ T[j].status \in Active => j = i
    <2> SUFFICES ASSUME NEW j \in DOMAIN T, KeyOf(T[j]) = KeyOf(T[i]), T[j].status \in Active
                 PROVE  j = i
      OBVIOUS
    <2>1. T[j].kind = T[i].kind /\ T[j].site = T[i].site
      BY DEF KeyOf
    <2>2. j <= i /\ i <= j /\ i \in 1..MaxJobs /\ j \in 1..MaxJobs /\ MaxJobs \in Nat
      BY <2>1, ConstantsAssumption DEF IsTable
    <2> QED BY <2>2
  <1> QED BY <1>1 DEF PhaseIn, Active

LEMMA PhaseOfNone ==
  ASSUME NEW T, NEW q,
         \A i \in DOMAIN T : KeyOf(T[i]) = q => T[i].status \notin Active
  PROVE  PhaseIn(T, q) = "none"
  BY DEF PhaseIn, Active

LEMMA RunningRow ==
  ASSUME NEW T, NEW q, PhaseIn(T, q) = "running"
  PROVE  \E i \in DOMAIN T : KeyOf(T[i]) = q /\ T[i].status = "running"
  BY DEF PhaseIn, Active

\* Tables with the same live rows of a key give it the same phase.
LEMMA PhaseSame ==
  ASSUME NEW T, NEW U, NEW q,
         \A i \in DOMAIN T : KeyOf(T[i]) = q /\ T[i].status \in Active =>
           i \in DOMAIN U /\ KeyOf(U[i]) = q /\ U[i].status = T[i].status,
         \A i \in DOMAIN U : KeyOf(U[i]) = q /\ U[i].status \in Active =>
           i \in DOMAIN T /\ KeyOf(T[i]) = q /\ U[i].status = T[i].status
  PROVE  PhaseIn(U, q) = PhaseIn(T, q)
  BY DEF PhaseIn, Active

\* Rewriting a live row moves its key and no other.
LEMMA RewriteMoves ==
  ASSUME TypeOK, TypeOK', NEW i \in DOMAIN jobs, Rewrites(i), jobs[i].status \in Active
  PROVE  /\ KeyOf(jobs[i]) \in Keys
         /\ Phase[KeyOf(jobs[i])] = IF jobs[i].status = "pending" THEN "waiting" ELSE "running"
         /\ Phase' = [q \in Keys |->
                        IF q = KeyOf(jobs[i])
                        THEN IF jobs'[i].status = "pending" THEN "waiting"
                             ELSE IF jobs'[i].status = "running" THEN "running" ELSE "none"
                        ELSE Phase[q]]
  <1> DEFINE k == KeyOf(jobs[i])
  <1>0. IsTable(jobs) /\ IsTable(jobs')
    BY DEF TypeOK, IsTable
  <1>1. k \in Keys /\ KeyOf(jobs'[i]) = k
    BY <1>0 DEF IsTable, Row, Keys, KeyOf, Rewrites
  <1>2. i \in DOMAIN jobs' /\ DOMAIN jobs' = DOMAIN jobs
    BY DEF Rewrites
  <1>3. PhaseIn(jobs, k) = IF jobs[i].status = "pending" THEN "waiting" ELSE "running"
    BY <1>0, PhaseOfLive
  <1>4. PhaseIn(jobs', k) = IF jobs'[i].status = "pending" THEN "waiting"
                            ELSE IF jobs'[i].status = "running" THEN "running" ELSE "none"
    <2>1. CASE jobs'[i].status \in Active
      BY <1>0, <1>1, <1>2, <2>1, PhaseOfLive DEF Active
    <2>2. CASE jobs'[i].status \notin Active
      <3>1. \A j \in DOMAIN jobs : KeyOf(jobs[j]) = k /\ jobs[j].status \in Active => j = i
        <4> SUFFICES ASSUME NEW j \in DOMAIN jobs, KeyOf(jobs[j]) = k, jobs[j].status \in Active
                     PROVE  j = i
          OBVIOUS
        <4>1. jobs[j].kind = jobs[i].kind /\ jobs[j].site = jobs[i].site
          BY DEF KeyOf
        <4>2. j <= i /\ i <= j /\ i \in 1..MaxJobs /\ j \in 1..MaxJobs /\ MaxJobs \in Nat
          BY <1>0, <4>1, ConstantsAssumption DEF IsTable
        <4> QED BY <4>2
      <3>2. \A j \in DOMAIN jobs' : KeyOf(jobs'[j]) = k => jobs'[j].status \notin Active
        BY <2>2, <3>1 DEF Rewrites
      <3>3. PhaseIn(jobs', k) = "none"
        BY <3>2, PhaseOfNone
      <3> QED BY <2>2, <3>3 DEF Active
    <2> QED BY <2>1, <2>2
  <1>5. ASSUME NEW q \in Keys, q # k
        PROVE  PhaseIn(jobs', q) = PhaseIn(jobs, q)
    <2>1. \A j \in DOMAIN jobs : KeyOf(jobs[j]) = q => jobs'[j] = jobs[j]
      BY <1>5 DEF Rewrites
    <2>2. \A j \in DOMAIN jobs' : KeyOf(jobs'[j]) = q => jobs'[j] = jobs[j]
      BY <1>1, <1>5 DEF Rewrites
    <2> QED BY <1>2, <2>1, <2>2, PhaseSame
  <1> HIDE DEF k
  <1>6. \A q \in Keys : PhaseIn(jobs', q) =
          IF q = k THEN IF jobs'[i].status = "pending" THEN "waiting"
                        ELSE IF jobs'[i].status = "running" THEN "running" ELSE "none"
          ELSE PhaseIn(jobs, q)
    BY <1>4, <1>5
  <1>7. Phase[k] = PhaseIn(jobs, k) /\ \A q \in Keys : Phase[q] = PhaseIn(jobs, q)
    BY <1>1, PhaseIsPhaseIn
  <1> QED BY <1>1, <1>3, <1>6, <1>7, PhaseIsPhaseIn DEF k

LEMMA PhaseKept ==
  ASSUME \A q \in Keys : PhaseIn(jobs', q) = PhaseIn(jobs, q)
  PROVE  Phase' = Phase
  BY PhaseIsPhaseIn

\* A move of the ledger, as the phases of a step.
LEMMA MoveByPhase ==
  ASSUME NEW S, NEW to,
         \A q \in Keys : PhaseIn(jobs', q) = IF q \in S THEN to ELSE PhaseIn(jobs, q)
  PROVE  Ledger!Move(S, to)
  BY PhaseIsPhaseIn DEF Ledger!Move

LEMMA LedgerStep ==
  ASSUME Inv, [Next]_vars
  PROVE  [Ledger!Next]_Phase
  <1>0. Shape /\ TypeOK /\ TypeOK' /\ IsTable(jobs) /\ IsTable(jobs')
    BY NextShape, TypeStep DEF Inv, TypeOK, IsTable
  <1>01. \A q \in Keys : Phase[q] = PhaseIn(jobs, q)
    BY PhaseIsPhaseIn
  <1>1. ASSUME NEW k \in Kinds, NEW s \in Sites, NEW n \in 1..MaxJobs, Inserted(k, s, n)
        PROVE  Ledger!Next
    <2> DEFINE key == <<k, s>>
    <2>1. key \in Keys /\ KeyOf(jobs'[n]) = key /\ n \in DOMAIN jobs'
      BY <1>1 DEF Keys, KeyOf, Inserted
    <2>2. Phase[key] = "none"
      <3>1. \A i \in DOMAIN jobs : KeyOf(jobs[i]) = key => jobs[i].status \notin Active
        BY <1>1 DEF Inserted, HasActive, KeyOf
      <3> QED BY <2>1, <3>1, <1>01, PhaseOfNone
    <2>3. PhaseIn(jobs', key) = "waiting"
      BY <1>0, <1>1, <2>1, PhaseOfLive DEF Inserted, Active
    <2>4. ASSUME NEW q \in Keys, q # key
          PROVE  PhaseIn(jobs', q) = PhaseIn(jobs, q)
      BY <1>1, <2>1, <2>4, PhaseSame DEF Inserted
    <2> HIDE DEF key
    <2>5. Ledger!Move({key}, "waiting")
      <3>1. \A q \in Keys : PhaseIn(jobs', q) = IF q \in {key} THEN "waiting"
                                                ELSE PhaseIn(jobs, q)
        BY <2>3, <2>4
      <3> QED BY <3>1, MoveByPhase
    <2> QED BY <2>1, <2>2, <2>5 DEF Ledger!Next, Ledger!Submit
  <1>2. ASSUME NEW i \in DOMAIN jobs, Rewrites(i), jobs[i].status \in Active
        PROVE  /\ KeyOf(jobs[i]) \in Keys
               /\ Phase[KeyOf(jobs[i])]
                    = IF jobs[i].status = "pending" THEN "waiting" ELSE "running"
               /\ jobs'[i].status = "pending" => Ledger!Move({KeyOf(jobs[i])}, "waiting")
               /\ jobs'[i].status = "running" => Ledger!Move({KeyOf(jobs[i])}, "running")
               /\ jobs'[i].status \in Ended => Ledger!Move({KeyOf(jobs[i])}, "none")
    <2>1. /\ KeyOf(jobs[i]) \in Keys
          /\ Phase[KeyOf(jobs[i])] = IF jobs[i].status = "pending" THEN "waiting" ELSE "running"
          /\ Phase' = [q \in Keys |->
                         IF q = KeyOf(jobs[i])
                         THEN IF jobs'[i].status = "pending" THEN "waiting"
                              ELSE IF jobs'[i].status = "running" THEN "running" ELSE "none"
                         ELSE Phase[q]]
      BY <1>0, <1>2, RewriteMoves
    <2> QED BY <2>1 DEF Ledger!Move, Ended
  <1>3. ASSUME NEW l \in Lanes, NEW i \in DOMAIN jobs, Claimed(l, i)
        PROVE  Ledger!Next
    <2> DEFINE key == KeyOf(jobs[i])
    <2>1. /\ Rewrites(i) /\ jobs[i].status = "pending" /\ jobs'[i].status = "running"
          /\ proc = "up" /\ held[l] = NoHold /\ Claims(l, jobs[i].kind)
      BY <1>3 DEF Claimed
    <2>2. key \in Keys /\ Phase[key] = "waiting" /\ Ledger!Move({key}, "running")
      BY <1>2, <2>1 DEF Active
    <2>3. ASSUME NEW q \in Keys, LaneOfKey[q] = LaneOfKey[key]
          PROVE  Phase[q] # "running"
      <3> SUFFICES ASSUME Phase[q] = "running" PROVE FALSE
        OBVIOUS
      <3>1. PICK j \in DOMAIN jobs : KeyOf(jobs[j]) = q /\ jobs[j].status = "running"
        BY <1>01, RunningRow
      <3>2. /\ q[1] = jobs[j].kind /\ key[1] = jobs[i].kind
            /\ jobs[j].kind \in Kinds /\ jobs[i].kind \in Kinds
        BY <1>0, <3>1 DEF KeyOf, IsTable, Row
      <3>3. Claims("obs", jobs[j].kind) <=> Claims("obs", jobs[i].kind)
        BY <2>2, <2>3, <3>2 DEF LaneOfKey
      <3>4. Claims(l, jobs[j].kind)
        BY <2>1, <3>3 DEF Claims, Lanes
      <3> QED BY <2>1, <3>1, <3>4 DEF Inv, RunningOwned
    <2> HIDE DEF key
    <2> QED BY <2>2, <2>3 DEF Ledger!Next, Ledger!Begin
  <1>4. ASSUME NEW i \in DOMAIN jobs, Rejected(i)
        PROVE  Ledger!Next
    <2> DEFINE key == KeyOf(jobs[i])
    <2>1. key \in Keys /\ Phase[key] = "waiting" /\ Ledger!Move({key}, "none")
      BY <1>2, <1>4 DEF Rejected, Active, Ended
    <2> HIDE DEF key
    <2> QED BY <2>1 DEF Ledger!Next, Ledger!Reject
  <1>5. ASSUME NEW l \in Lanes, NEW i \in DOMAIN jobs, Written(l, i)
        PROVE  Ledger!Next
    <2> DEFINE key == KeyOf(jobs[i])
    <2>1. /\ Rewrites(i) /\ jobs[i].status = "running"
          /\ jobs'[i].status \in Ended \cup {"pending"}
      <3>1. jobs'[i].status \in Active \cup Ended /\ jobs'[i].status # "running"
        BY <1>5 DEF Written, Rewrites, Row
      <3> QED BY <1>5, <3>1 DEF Written, Active
    <2>2. /\ key \in Keys /\ Phase[key] = "running"
          /\ Ledger!Move({key}, "none") \/ Ledger!Move({key}, "waiting")
      BY <1>2, <2>1 DEF Active
    <2> HIDE DEF key
    <2> QED BY <2>2 DEF Ledger!Next, Ledger!End, Ledger!Again
  <1>6. ASSUME jobs' = jobs
        PROVE  Phase' = Phase
    BY <1>6, PhaseKept
  <1>7. CASE Reclaims
    <2>1. /\ DOMAIN jobs' = DOMAIN jobs
          /\ \A i \in DOMAIN jobs :
               /\ KeyOf(jobs'[i]) = KeyOf(jobs[i])
               /\ jobs[i].status \notin Active => jobs'[i] = jobs[i]
               /\ jobs[i].status \in Active => jobs'[i].status = "pending"
      BY <1>0, <1>7, ReclaimedRows DEF Reclaims, KeyOf
    <2>2. ASSUME NEW q \in Keys
          PROVE  PhaseIn(jobs', q) = IF PhaseIn(jobs, q) = "running" THEN "waiting"
                                     ELSE PhaseIn(jobs, q)
      BY <2>1 DEF PhaseIn, Active
    <2>3. ASSUME NEW q \in Keys
          PROVE  PhaseIn(jobs', q) = IF q \in {k \in Keys : Phase[k] = "running"}
                                     THEN "waiting" ELSE PhaseIn(jobs, q)
      BY <1>01, <2>2
    <2>4. Ledger!Move({k \in Keys : Phase[k] = "running"}, "waiting")
      BY <2>3, MoveByPhase
    <2> QED BY <2>4 DEF Ledger!Next, Ledger!Recover
  <1>8. CASE Purges
    <2>1. /\ DOMAIN jobs' = DOMAIN jobs \ Expired
          /\ \A i \in DOMAIN jobs' : jobs'[i] = jobs[i]
      BY <1>8 DEF Purges, Without
    <2>2. \A i \in DOMAIN jobs : jobs[i].status \in Active => i \in DOMAIN jobs'
      BY <2>1 DEF Expired, Active
    <2>3. \A q \in Keys : PhaseIn(jobs', q) = PhaseIn(jobs, q)
      BY <2>1, <2>2, PhaseSame
    <2> QED BY <2>3, PhaseKept
  <1>9. ASSUME NEW s \in Sites, Deletes(s)
        PROVE  [Ledger!Next]_Phase
    <2>1. /\ DOMAIN jobs' = DOMAIN jobs \ OfSite(s)
          /\ \A i \in DOMAIN jobs' : jobs'[i] = jobs[i]
      BY <1>9 DEF Deletes, Without
    <2>2. \A i \in DOMAIN jobs : i \in OfSite(s) <=> KeyOf(jobs[i])[2] = s
      BY DEF OfSite, KeyOf
    <2>3. ASSUME NEW q \in Keys, q[2] = s
          PROVE  PhaseIn(jobs', q) = "none"
      BY <2>1, <2>2, <2>3, PhaseOfNone
    <2>4. ASSUME NEW q \in Keys, q[2] # s
          PROVE  PhaseIn(jobs', q) = PhaseIn(jobs, q)
      BY <2>1, <2>2, <2>4, PhaseSame
    <2>5. \A q \in Keys : SiteOfKey[q] = q[2]
      BY DEF SiteOfKey
    <2>6. Ledger!Move({k \in Keys : SiteOfKey[k] = s}, "none")
      <3>1. \A q \in Keys : PhaseIn(jobs', q) =
              IF q \in {k \in Keys : SiteOfKey[k] = s} THEN "none" ELSE PhaseIn(jobs, q)
        BY <2>3, <2>4, <2>5
      <3> QED BY <3>1, MoveByPhase
    <2>7. CASE \E q \in Keys : SiteOfKey[q] = s
      BY <2>6, <2>7 DEF Ledger!Next, Ledger!Withdraw
    <2>8. CASE ~\E q \in Keys : SiteOfKey[q] = s
      BY <2>4, <2>5, <2>8, PhaseKept
    <2> QED BY <2>7, <2>8
  <1> QED
    BY <1>0, <1>1, <1>3, <1>4, <1>5, <1>6, <1>7, <1>8, <1>9 DEF Shape, LetsGo, Rests

\* The table and its lanes implement the queue's promise: a key is run by one
\* lane, one at a time, entered by a claim and left by an outcome, a withdrawal or
\* a restart.
THEOREM ImplementsLedger == Spec => LedgerSpec
  <1>1. Init => Ledger!Init
    BY DEF Ledger!Init, Phase
  <1>2. Inv /\ [Next]_vars => [Ledger!Next]_Phase
    BY LedgerStep
  <1> QED BY <1>1, <1>2, InvAlways, PTL DEF Spec, LedgerSpec, Ledger!Spec

=============================================================================
