----------------------------- MODULE DayLedger ------------------------------
(***************************************************************************)
(* What the daily close promises about one site's days, without jobs,      *)
(* stages, clocks or restarts: every day gets one verdict, closed or       *)
(* missed, in the order of the days; a day is attempted at most twice, one *)
(* day at a time, and a closed day's cutoff alone may be published.        *)
(* CloseChain implements it (CloseChain!LedgerSpec).                       *)
(***************************************************************************)
EXTENDS Integers

CONSTANT Days  \* the site's days, consecutive numbers

VARIABLES
  verdict,  \* "undone", "closed" or "missed", by day
  tries,    \* how often each day's close was begun
  active,   \* the day being closed: a set of at most one
  shown     \* the cutoffs whose scores were published

vars == <<verdict, tries, active, shown>>

Undone(d) == verdict[d] = "undone"

Init ==
  /\ verdict = [d \in Days |-> "undone"]
  /\ tries = [d \in Days |-> 0]
  /\ active = {}
  /\ shown = {}

\* Everything before d has a verdict, or gets one now.
Turn(d, passed) == \A e \in Days : e < d /\ Undone(e) => e \in passed

\* With no close in progress: the oldest undone days are passed over as missed,
\* and the next may be begun.
Walk(passed, begun) ==
  /\ active = {}
  /\ passed \cap begun = {}
  /\ \A d \in passed \cup begun : Undone(d) /\ Turn(d, passed)
  /\ \A d \in begun : tries[d] < 2
  /\ verdict' = [d \in Days |-> IF d \in passed THEN "missed" ELSE verdict[d]]
  /\ tries' = [d \in Days |-> IF d \in begun THEN tries[d] + 1 ELSE tries[d]]
  /\ active' = begun
  /\ UNCHANGED shown

\* The attempt failed and the day keeps its second try.
Fail(d) ==
  /\ active = {d} /\ tries[d] = 1
  /\ active' = {}
  /\ UNCHANGED <<verdict, tries, shown>>

\* The attempt failed for good: a second one, or a first one whose second can
\* no longer be made in time.
GiveUp(d) ==
  /\ active = {d}
  /\ active' = {}
  /\ verdict' = [verdict EXCEPT ![d] = "missed"]
  /\ UNCHANGED <<tries, shown>>

Close(d) ==
  /\ active = {d}
  /\ active' = {}
  /\ verdict' = [verdict EXCEPT ![d] = "closed"]
  /\ UNCHANGED <<tries, shown>>

Publish(c) ==
  /\ verdict[c] = "closed"
  /\ shown' = shown \cup {c}
  /\ UNCHANGED <<verdict, tries, active>>

Next ==
  \/ \E passed, begun \in SUBSET Days : Walk(passed, begun)
  \/ \E d \in Days : Fail(d) \/ GiveUp(d) \/ Close(d) \/ Publish(d)

Spec == Init /\ [][Next]_vars
=============================================================================
