---------------------------- MODULE MCDownloads ----------------------------
(* Values for TLC, and the view that leaves out what the code reads no more. *)
EXTENDS Downloads

CONSTANT f1

MCOffsets == <<0, 1>>
MCSlots   == <<2>>

\* What is read no more: the instants of ended rows, a fetch's reservation once
\* it is settled, its outcome once it is told.  Of the rounds' two histories only
\* the difference matters.
Read(fetch) ==
  IF fetch = Idle THEN Idle ELSE
  [fetch EXCEPT
     !.started = IF fetch.stage = "stale" \/ fetch.slot = Unscheduled THEN @ ELSE 0,
     !.billed  = IF fetch.stage \in {"call", "refund"} THEN @ ELSE 0,
     !.page    = IF fetch.stage = "call" THEN @ ELSE 0,
     !.outcome = IF fetch.stage = "tell" THEN @ ELSE "failed",
     !.wake    = IF fetch.stage \in {"tell", "defer"} THEN Largest(@, clock) ELSE 0]

\* Of the recorded tries only the kind of their outcome is read, and of a round's
\* their date only when they stored; of the ids only which is a day's first.
Kind(o) == CASE o = "stored" -> o
             [] o \in {"budget", "ineligible", "unavailable"} -> "ended"
             [] OTHER -> "again"

\* A round that is not over, and a billing day that is not settled.
OpenRound(f, d) ==
  \/ d >= Day(clock)
  \/ IsLive(<<"round", f>>) /\ jobs[<<"round", f>>].slot.date = d

OpenBill(d) ==
  \/ d >= BillingDay(clock)
  \/ \E r \in Runners : run[r] # Idle /\ run[r].stage \in {"call", "refund"}
                        /\ run[r].billed = d

ReadRows ==
  {[feed |-> r.feed, slot |-> r.slot, started |-> r.started, kind |-> Kind(r.outcome),
    date |-> IF r.slot.kind # "round" \/ r.outcome = "stored" THEN r.date ELSE 0]
     : r \in {q \in rows : \/ q.date >= Day(clock) /\ q.outcome = "stored"
                           \/ IF q.slot.kind = "round" THEN OpenRound(q.feed, q.slot.date)
                              ELSE q.date >= Day(clock)}}

Origin(v) ==
  IF \A r \in StoredOn(v.feed, v.date) : v.download <= r.id THEN "first" ELSE "later"

ReadValues ==
  {[v EXCEPT !.download = Origin(v)] : v \in {w \in scored : w.date >= Day(clock)}}

LiveState ==
  <<clock, eligible, upsets, ReadRows, ReadValues,
    [d \in BillingDays |-> IF OpenBill(d) THEN <<calls[d], sent[d]>> ELSE <<0, 0>>],
    [r \in Runners |-> Read(run[r])],
    [q \in Feeds \X Days |-> IF OpenRound(q[1], q[2]) THEN made[q] - redone[q] ELSE 0],
    IF backoff > clock THEN backoff ELSE 0,
    [k \in Keys |->
       [jobs[k] EXCEPT !.due = IF jobs[k].status = "pending" THEN Largest(@, clock) ELSE 0,
                       !.tries = IF jobs[k].status \in Live THEN @ ELSE 0,
                       !.slot = IF jobs[k].status \in Live THEN @ ELSE Unscheduled,
                       !.updated = IF jobs[k].status = "failed" /\ k[1] = "fetch"
                                   THEN @ ELSE 0,
                       !.status = IF \/ jobs[k].status = "completed"
                                     \/ jobs[k].status = "failed" /\ k[1] = "round"
                                  THEN "none" ELSE @]]>>
=============================================================================
