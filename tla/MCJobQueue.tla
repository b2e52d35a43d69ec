---------------------------- MODULE MCJobQueue -----------------------------
(* Values for TLC: tables an earlier process or an import may have left, and  *)
(* the view that leaves out stamps the code reads no more.                    *)
EXTENDS JobQueue

CONSTANTS s1, s2

MCLimit == [k \in Kinds |-> IF k \in {"close", "publish", "round"} THEN 0 ELSE 1]

Foreign(k, status, tries, limit, readable) ==
  [kind |-> k, site |-> s1, status |-> status, due |-> 0, updated |-> 0,
   tries |-> tries, limit |-> limit, readable |-> readable, born |-> 1,
   fails |-> 0]

\* Nothing; a row left running at the saturated count; a row below zero; one that
\* does not read back; a failure whose stamp does not parse.
MCTables ==
  {<<>>,
   <<Foreign("fetch", "running", MaxRetryCount, MaxRetryCount, TRUE)>>,
   <<Foreign("fetch", "pending", -1, 1, TRUE)>>,
   <<Foreign("wind", "pending", 0, 1, FALSE)>>,
   <<[Foreign("wind", "failed", 1, 1, TRUE) EXCEPT !.updated = Unreadable]>>}

\* An instant is read only while a comparison with the clock can still change.
LiveState ==
  <<clock, sites, closeOn, proc, held, starts, births, ended,
    [i \in DOMAIN jobs |->
       [jobs[i] EXCEPT
          !.due = IF jobs[i].status \in Ended THEN 0 ELSE Largest(@, clock),
          !.updated = IF jobs[i].status \in Active THEN 0 ELSE @,
          !.tries = IF jobs[i].status \in Ended THEN 0 ELSE @]]>>
=============================================================================
