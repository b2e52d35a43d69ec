--------------------------- MODULE MCStationCalls ---------------------------
(* Values for TLC, and the view that leaves out what is read no more: the   *)
(* instants that are past, the rows of a day that is over and its log.      *)
EXTENDS StationCalls, TLC

CONSTANTS s1, s2

TwoStations == Permutations({s1, s2})

Ahead(t) == IF t <= now THEN 0 ELSE t

DayOver == now >= DayEnd /\ main.at \notin {"rows", "told", "calling"}

LiveState ==
  <<now, enabled,
    [s \in Stations |-> IF DayOver THEN <<>>
                        ELSE <<due[s], tried[s], tried[s] # 0 /\ s \in cut>>],
    [s \in Stations |-> Ahead(pollAt[s])],
    IF DayOver THEN 0 ELSE Ahead(wake),
    [k \in Kinds |-> IF DayOver /\ k = "five_minute" THEN 0 ELSE Ahead(hold[k])],
    [k \in Kinds |-> Ahead(refused[k])],
    Ahead(backoff), Ahead(asked), asked > now /\ erased,
    [d \in Days |-> IF d < BillingDay THEN 0 ELSE calls[d]],
    lock, main,
    poller,
    adder, upsets>>
=============================================================================
