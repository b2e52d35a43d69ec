---------------------------- MODULE MCCloseChain ----------------------------
(* Values for TLC: days of one length, and the view that leaves out what the *)
(* code has stored but reads no more.                                       *)
EXTENDS CloseChain

CONSTANT DayLen  \* the length of every day

MCDayEnd == [d \in Days |-> d * DayLen]

\* f where the code may still read it, 0 elsewhere.
Read(f, live(_)) == [d \in Days |-> IF live(d) THEN f[d] ELSE 0]

InAttempt(d) == state[d] \in {"closing", "retry_due"}

\* No guard and no property reads what this leaves out, so two states with one
\* view have the same futures.
LiveState ==
  <<now, state, attempts, reason, Read(lastStage, InAttempt),
    Read(progressAt, InAttempt),
    Read(retryAt, LAMBDA d : state[d] = "retry_due"),
    pub, Read(pubAttempt, LAMBDA c : pub[c] \in Open),
    Read(pubRetryAt, LAMBDA c : pub[c] = "retry_due"),
    Read(pubStarted, LAMBDA c : pub[c] = "building"),
    swapped, jobs, pc, cur, pc = "run" /\ Stalled,
    IF pc \in Starting THEN 0 ELSE startedAt,
    IF stops < MaxStops \/ pc \in Starting THEN lastLoop ELSE 0, stops>>
=============================================================================
