---------------------------- MODULE CloseMonitor ----------------------------
(***************************************************************************)
(* The monitor's alerts about the close of one site, read from the state   *)
(* of CloseChain in one read transaction: alert 1 (a missed day), alert 4  *)
(* (the publication is late) and the failed-attempt alert.                 *)
(*                                                                         *)
(* Source: wxverify/close_monitor.py.  The alerts' texts are left out; an  *)
(* alert is the set of days its lines name.                                *)
(***************************************************************************)
EXTENDS CloseChain

CONSTANT StallLimit  \* CLOSE_STALL_HOURS

-----------------------------------------------------------------------------
(* What the alerts read.                                                   *)

Latest(S) == {c \in S : \A e \in S : e <= c}

\* The number of the day holding now, current_day's date; the days after the
\* model's last have records as soon as that one has.
CurrentDay == Larger(1, 1 + Cardinality({d \in Days : DayEnd[d] <= now}))

HasCurrent == \E d \in Days : state[d] # "none" /\ d >= CurrentDay - 1
                              /\ (CurrentDay \in Days => d >= CurrentDay)

\* active_publication reaches day e: its cutoff is e or later.
Reaches(e) == \E c \in Latest(swapped) : e <= c

\* publication_state: the record with the latest cutoff.
LatestPub == Latest({c \in Days : pub[c] # "none"})

\* The one of them that _late_line goes by: none with a cutoff before e.
PubFor(e) == {c \in LatestPub : c >= e}

\* _stalled_since: a closing day whose attempt has saved nothing for too long.
StalledDay(d) == state[d] = "closing" /\ now - progressAt[d] > StallLimit

\* _undone_days: the records after closed_through, or all with no day done yet.
UndoneDays ==
  {d \in Days : state[d] # "none" /\ \A e \in ClosedThrough(state) : e < d}

-----------------------------------------------------------------------------
(* The alerts.                                                             *)

\* close_day_missed: the site's missed days but the changeover days.  The
\* behaviours end within its window, CLOSE_ALERT_DAYS after each is done.
MissedDays ==
  {d \in Days : /\ \E c \in ClosedThrough(state) : d <= c
                /\ state[d] = "missed" /\ reason[d] # "zone_changeover"}

\* Mutant of LateDays: the site's latest record counts whatever its cutoff.
LateDaysAnyPub(e) ==
  {d \in {e} \cap Days :
     /\ ~Reaches(d)
     /\ state[d] \notin {"none", "missed", "retry_due"}
     /\ \A c \in LatestPub : pub[c] \notin {"retry_due", "failed"}
     /\ ~StalledDay(d)}

\* publication_late, for the expected day e: not for a day another alert names.
LateDays(e) ==
  {d \in {e} \cap Days :
     /\ ~Reaches(d)
     /\ state[d] \notin {"none", "missed", "retry_due"}
     /\ \A c \in PubFor(d) : pub[c] \notin {"retry_due", "failed"}
     /\ ~StalledDay(d)}

\* close_stage_failed: days waiting for their retry, stalled days, and the
\* latest publication when it failed and the active one does not reach beyond.
FailedDays ==
  {d \in UndoneDays : state[d] = "retry_due" \/ StalledDay(d)}
    \cup {c \in LatestPub : pub[c] \in {"retry_due", "failed"} /\ ~Reaches(c + 1)}

-----------------------------------------------------------------------------
(* Properties.                                                             *)

\* The day before the current one from the snapshot time on, the one before it
\* until then; the setting puts that time anywhere in the day.
Expected == {CurrentDay - 1, CurrentDay - 2}

\* While the site has a current day and its active publication does not reach
\* the expected day, the owner is told: by the alert of that day, or, when it
\* is closed, of the later cutoff whose publication stands for it.  Only a
\* missed changeover day is passed over in silence.  No day is told twice.
UnpublishedDayIsNamed ==
  HasCurrent =>
    \A e \in Expected \cap Days :
      /\ LateDays(e) \cap FailedDays = {}
      /\ (MissedDays \cap (LateDays(e) \cup FailedDays)) = {}
      /\ (~Reaches(e) /\ reason[e] # "zone_changeover") =>
           \/ e \in LateDays(e) \cup MissedDays \cup FailedDays
           \/ state[e] = "closed" /\ \E c \in FailedDays : e < c
=============================================================================
