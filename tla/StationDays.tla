---------------------------- MODULE StationDays ----------------------------
(***************************************************************************)
(* One site's days as records, and what is written under them: the bounds  *)
(* each day gets when its record is made, zone changes, the stations' log  *)
(* and the list of stations each day saves, the rain check's flags on      *)
(* those lists, the raw readings, the hourly values a close derives from   *)
(* them, the deletion of old readings, and the guard every writer asks.    *)
(*                                                                         *)
(* Sources: wxverify/db/site_days.py, db/station_readings.py (the writer   *)
(* and the retention), worker/day_values.py (the gap fill's store and the  *)
(* hourly values), worker/rain_check.py, the window of                     *)
(* worker/wind_days.py's store, and the station routes.                    *)
(*                                                                         *)
(* The daily close is on.  A day's close is cut down to its stages' writes *)
(* and to the moves of its record, each allowed whenever the record's own  *)
(* checks allow it (CloseChain has when the code makes them).  A reading   *)
(* is its station and instant; the hourly values of a day are the readings *)
(* they were derived from.  One action per transaction.                    *)
(***************************************************************************)
EXTENDS Integers, FiniteSets, Sequences

CONSTANTS
  Stations,
  FirstLog,    \* station_changes of the stations the site starts with
  Zones,
  Ahead,       \* how long before the westernmost zone's midnight a zone's comes
  FirstZone,
  DayLength,
  RetryDelay,  \* site_days.RETRY_DELAY
  RawKeep,     \* site_days.RAW_KEEP
  Lookback,    \* day_values._LOOKBACK
  FutureSlack, \* wind_days._FUTURE_SLACK
  MaxInputs,   \* bound: zone changes, station changes and readings stored
  MaxReadings, \* bound: readings stored
  MaxTime      \* bound: the clock stops here

ASSUME ConstantsAssumption ==
  /\ FirstLog \in Seq([station : Stations, joins : {TRUE}, from : {0}])
  /\ FirstLog # <<>>
  /\ FirstZone \in Zones /\ Ahead \in [Zones -> Nat]
  /\ DayLength \in Nat \ {0} /\ \A z \in Zones : Ahead[z] < 2 * DayLength
  \* Two zones' offsets are less than a day apart, or more by the look back.
  /\ \A y, z \in Zones : LET span == DayLength + Ahead[y] - Ahead[z]
                         IN  span > 0 => Lookback <= span
  /\ RetryDelay \in Nat /\ RawKeep \in Nat /\ Lookback \in Nat /\ FutureSlack \in Nat
  /\ MaxInputs \in Nat /\ MaxReadings \in Nat /\ MaxTime \in Nat

VARIABLES
  now,
  siteZone,    \* sites.timezone
  zoneLog,     \* site_zone_changes, in the order entered
  days,        \* site_days: the record of each date that has one
  enabled,     \* stations.enabled
  changeLog,   \* station_changes, in the order made
  list,        \* site_day_stations: the stations of each recorded day
  counted,     \* and those of them whose rain counts
  checks,      \* station_rain_checks: who counts after the day, if it was judged
  raw,         \* station_wind_records
  hourly,      \* station_observations of a day: the readings they come from
  stage,       \* what the closing day's attempt does next
  prunedTo,    \* raw_readings_pruned_through
  gone         \* history: readings deleted

recordVars == <<siteZone, zoneLog, days>>
listVars   == <<enabled, changeLog, list, counted, checks>>
dataVars   == <<raw, hourly, stage, prunedTo, gone>>
vars       == <<now, recordVars, listVars, dataVars>>

\* Dates the clock and the zones can reach, and the one after each.
Dates == 0..(MaxTime \div DayLength + 4)

Day == [state : {"open", "closing", "retry_due", "closed", "missed"}, start : Int,
        end : Int, zone : Zones, changeover : BOOLEAN, attempts : 0..2,
        retryAt : Nat, doneAt : Nat]

Done   == {"closed", "missed"}
Undone == {"open", "closing", "retry_due"}

Reading == [station : Stations, at : Nat]

TopOf(S)    == CHOOSE n \in S : \A m \in S : m <= n
BottomOf(S) == CHOOSE n \in S : \A m \in S : n <= m

-----------------------------------------------------------------------------
(* Records: bounds, zones, creation.                                       *)

\* The instant a date starts in a zone, and an instant's date there.
Midnight(d, z)  == d * DayLength - Ahead[z]
LocalDate(t, z) == (t + Ahead[z]) \div DayLength

Holding(recs, t) == {d \in DOMAIN recs : recs[d].start <= t /\ t < recs[d].end}

\* _current_local_date
Current(recs, z) ==
  IF Holding(recs, now) # {} THEN CHOOSE d \in Holding(recs, now) : TRUE
  ELSE LocalDate(now, z)

\* _zone_for_date: the latest change entered that is in effect by the date.
ZoneFor(log, z, d) ==
  LET inEffect == {i \in DOMAIN log : log[i].from <= d}
  IN  IF inEffect = {} THEN z ELSE log[TopOf(inEffect)].zone

NewDay(start, end, zone, changeover) ==
  [state |-> "open", start |-> start, end |-> end, zone |-> zone,
   changeover |-> changeover, attempts |-> 0, retryAt |-> 0, doneAt |-> 0]

\* Mutant of NewStart: a day starts at its own zone's midnight.
NewStartLocal(before, d, zone) == Midnight(d, zone)

\* A new day starts where the day before it ends.
NewStart(before, d, zone) == before.end

\* _insert_record for each date after the latest record, through date n.
Filled(recs, log, z, n) ==
  LET last == TopOf(DOMAIN recs)
      Before(d) == IF d - 1 = last THEN recs[last]
                   ELSE [end |-> Midnight(d, ZoneFor(log, z, d - 1)),
                         zone |-> ZoneFor(log, z, d - 1)]
      New(d, before, zone) ==
        NewDay(NewStart(before, d, zone), Midnight(d + 1, zone), zone,
               zone # before.zone /\ before.end # Midnight(d, zone))
  IN  [d \in DOMAIN recs \cup (last + 1)..n |->
         IF d \in DOMAIN recs THEN recs[d] ELSE New(d, Before(d), ZoneFor(log, z, d))]

\* _start: the first record, of the date after the current one.
Started(recs, log, z) ==
  LET first == LocalDate(now, z) + 1
      zone  == ZoneFor(log, z, first)
  IN  IF DOMAIN recs # {} THEN recs
      ELSE [d \in {first} |->
              NewDay(Midnight(first, zone), Midnight(first + 1, zone), zone, FALSE)]

\* _ensure: every missing date through the one after the current.
Ensured(recs, log, z) ==
  LET begun == Started(recs, log, z)
      last  == TopOf(DOMAIN begun)
      Enough(m) == Current(Filled(begun, log, z, m), z) < m
  IN  IF Current(begun, z) < last THEN begun
      ELSE Filled(begun, log, z, BottomOf({m \in Dates : last < m /\ Enough(m)}))

\* Otherwise _insert_record raises and the transaction is rolled back.
Fits(recs) == \A d \in DOMAIN recs : recs[d].start < recs[d].end

-----------------------------------------------------------------------------
(* The lists of stations and the rain flags.                               *)

\* _station_list: for each station its last change in effect by the date.
StationList(log, d) ==
  {s \in Stations :
     LET own == {i \in DOMAIN log : log[i].station = s /\ log[i].from <= d}
     IN  own # {} /\ log[TopOf(own)].joins}

Judged(d, s) == s \in checks[d].counted \cup checks[d].aside

\* Whether the station's latest check before the date counts it; none does.
Counts(d, s) ==
  LET before == {e \in Dates : e < d /\ Judged(e, s)}
  IN  before = {} \/ s \in checks[TopOf(before)].counted

\* _write_station_list for these dates; a record made again loses its old list.
WriteLists(log, ds, recs) ==
  /\ list' = [d \in DOMAIN recs |-> IF d \in ds THEN StationList(log, d) ELSE list[d]]
  /\ counted' = [d \in DOMAIN recs |-> IF d \in ds
                                       THEN {s \in StationList(log, d) : Counts(d, s)}
                                       ELSE counted[d]]

\* The records a transaction finds once it has made the missing ones.
Here == Ensured(days, zoneLog, siteZone)

NewDates(recs) == DOMAIN recs \ DOMAIN days

Ensure ==
  \E recs \in {Here} :
    /\ Fits(recs)
    /\ days' = recs
    /\ IF recs = days THEN UNCHANGED <<list, counted>>
       ELSE WriteLists(changeLog, NewDates(recs), recs)

KeepSite  == UNCHANGED <<now, siteZone, zoneLog>>
KeepLogs  == UNCHANGED <<enabled, changeLog, checks>>

\* ensure_site_days: the tick's.
Tick ==
  /\ NewDates(Here) # {} /\ Ensure
  /\ KeepSite /\ KeepLogs /\ UNCHANGED dataVars

Stored == Cardinality(raw \cup gone)

Inputs ==
  Len(zoneLog) + Len(changeLog) - Len(FirstLog) + Stored

ChangeDate(recs, zone) ==
  IF Holding(recs, now) # {} THEN Current(recs, siteZone) + 1
  ELSE LocalDate(now, zone) + 1

\* enter_zone_change: the records from the change's date on are made again; with
\* no day begun, all of them.
EnterZoneChange(zone) ==
  /\ Inputs < MaxInputs
  /\ \E here \in {Here} :
     LET from == ChangeDate(here, zone)
         log  == Append(zoneLog, [zone |-> zone, from |-> from])
         held == Holding(here, now) # {}
         kept == [d \in {e \in DOMAIN here : held /\ e < from} |-> here[d]]
         span == Midnight(from + 1, zone) - here[from - 1].end
     IN  /\ Fits(here)
         /\ ZoneFor(zoneLog, siteZone, from) # zone
         /\ IF held THEN 0 < span /\ span < 2 * DayLength
            ELSE \A d \in DOMAIN here : now < here[d].start
         /\ \E made \in {Ensured(kept, log, zone)} :
            /\ Fits(made)
            /\ zoneLog' = log /\ siteZone' = zone /\ days' = made
            /\ WriteLists(changeLog, DOMAIN made \ (DOMAIN kept \cap DOMAIN days), made)
  /\ UNCHANGED now /\ KeepLogs /\ UNCHANGED dataVars

Rewritten(recs, from) == {d \in DOMAIN recs : recs[d].state = "open" /\ from <= d}

\* record_station_change
RecordChange(s, joins) ==
  /\ Inputs < MaxInputs
  /\ \E here \in {Here} :
     LET current == Current(here, siteZone)
         from    == IF joins THEN current + 1 ELSE current
         log     == Append(changeLog, [station |-> s, joins |-> joins, from |-> from])
     IN  /\ Fits(here)
         /\ changeLog' = log /\ days' = here
         /\ WriteLists(log, NewDates(here) \cup Rewritten(here, from), here)
  /\ KeepSite /\ UNCHANGED <<checks, dataVars>>

\* create_station, or update_station turning it on.
TurnOn(s) ==
  /\ s \notin enabled /\ enabled' = enabled \cup {s}
  /\ RecordChange(s, TRUE)

\* current_day_has_other_station reads the records before any is made.
HasOther(s) ==
  \A d \in Holding(days, now) : s \in list[d] => list[d] \ {s} # {}

\* update_station turning it off, or delete_station, of a station off already too.
TurnOff(s) ==
  /\ s \in enabled => Cardinality(enabled) > 1
  /\ \E i \in DOMAIN changeLog : changeLog[i].station = s
  /\ HasOther(s)
  /\ enabled' = enabled \ {s}
  /\ RecordChange(s, FALSE)

-----------------------------------------------------------------------------
(* The guard and its writers.                                              *)

\* Mutant of StateKinds: a closing day still takes readings.
StateKindsOpen(state) ==
  CASE state = "open"    -> {"READING", "HOURLY"}
    [] state = "closing" -> {"READING", "GAP_FILL", "HOURLY"}
    [] OTHER             -> {}

\* _STATE_KINDS, of the kinds that are written here.
StateKinds(state) ==
  CASE state = "open"    -> {"READING", "HOURLY"}
    [] state = "closing" -> {"GAP_FILL", "HOURLY"}
    [] OTHER             -> {}

\* filter_day_writes for one instant.
MayWrite(t, kind) ==
  \E here \in {Here} : \E d \in Holding(here, t) : kind \in StateKinds(here[d].state)

\* store_readings for one reading; a refused one is not stored.
Store(s, t, kind) ==
  /\ Inputs < MaxInputs /\ Stored < MaxReadings
  /\ MayWrite(t, kind)
  /\ raw' = raw \cup {[station |-> s, at |-> t]}
  /\ Ensure
  /\ KeepSite /\ KeepLogs /\ UNCHANGED <<hourly, stage, prunedTo, gone>>

\* _today_window: from the day before's start to today's end, never ahead.
InWindow(t) ==
  \E here \in {Here} : \E d \in Holding(here, now) :
    /\ (IF d - 1 \in DOMAIN here THEN here[d - 1].start ELSE here[d].start) <= t
    /\ t < here[d].end /\ t < now + FutureSlack

\* _persist_day: a download sent for a station that may be off by now.
StoreFiveMinute(s, t) == Store(s, t, "READING") /\ InWindow(t)

\* _store_current_obs_reading: at the station's own instant, whatever it is.
StoreCurrentObs(s, t) == s \in enabled /\ Store(s, t, "READING")

ClosingDay == {d \in DOMAIN days : days[d].state = "closing"}

\* _Fill._store
StoreGapFill(s, t) ==
  /\ stage = "fill"
  /\ \E d \in ClosingDay : s \in list[d] /\ days[d].start <= t /\ t < days[d].end
  /\ Store(s, t, "GAP_FILL")

\* _station_readings of the listed stations: the day's, and those just before it.
DayReadings(d) ==
  {r \in raw : /\ r.station \in list[d]
               /\ days[d].start - Lookback <= r.at /\ r.at < days[d].end}

\* Mutant of Flagged: the next day alone takes the check's result.
FlaggedNext(d, aside) ==
  [e \in DOMAIN days |-> IF e = d + 1
                         THEN (counted[e] \cup (list[d] \cap list[e])) \ aside
                         ELSE counted[e]]

\* set_rain_counted_after, on every later list.
Flagged(d, aside) ==
  [e \in DOMAIN days |-> IF d < e
                         THEN (counted[e] \cup (list[d] \cap list[e])) \ aside
                         ELSE counted[e]]

\* Stage 3, once the fill ends: write_hourly_values and check_station_rain, whose
\* judgement may set aside any of the day's stations.
HourlyStage(d, aside) ==
  /\ stage = "fill" /\ d \in ClosingDay /\ aside \subseteq list[d]
  /\ hourly' = [hourly EXCEPT ![d] = DayReadings(d)]
  /\ checks' = [checks EXCEPT ![d] = [counted |-> list[d] \ aside, aside |-> aside]]
  /\ counted' = Flagged(d, aside)
  /\ stage' = "truth"
  /\ UNCHANGED <<now, recordVars, enabled, changeLog, list, raw, prunedTo, gone>>

\* Stage 4 takes a day only in its zone's own bounds.
InZoneBounds(day, d) ==
  day.start = Midnight(d, day.zone) /\ day.end = Midnight(d + 1, day.zone)

-----------------------------------------------------------------------------
(* The moves of a record.                                                  *)

Move(d, rec, s) ==
  /\ days' = [days EXCEPT ![d] = rec] /\ stage' = s
  /\ UNCHANGED <<now, siteZone, zoneLog, listVars, raw, hourly, prunedTo, gone>>

NoEarlierUndone(d) == \A e \in DOMAIN days : e < d => days[e].state \notin Undone

\* begin_close
BeginClose(d) ==
  /\ \/ /\ days[d].state = "open" /\ days[d].end <= now /\ ~days[d].changeover
        /\ NoEarlierUndone(d)
     \/ days[d].state = "retry_due" /\ days[d].retryAt <= now
  /\ Move(d, [days[d] EXCEPT !.state = "closing", !.attempts = @ + 1], "fill")

\* fail_close, at any stage.
FailClose(d) ==
  /\ days[d].state = "closing"
  /\ Move(d, IF days[d].attempts = 1
             THEN [days[d] EXCEPT !.state = "retry_due", !.retryAt = now + RetryDelay]
             ELSE [days[d] EXCEPT !.state = "missed", !.doneAt = now], "none")

\* finish_close, after the truth stage.
FinishClose(d) ==
  /\ stage = "truth" /\ days[d].state = "closing" /\ InZoneBounds(days[d], d)
  /\ Move(d, [days[d] EXCEPT !.state = "closed", !.doneAt = now], "none")

\* mark_missed: never attempted, a changeover day, or a retry not run.
MarkMissed(d) ==
  /\ \/ days[d].state = "open" /\ days[d].end <= now /\ NoEarlierUndone(d)
     \/ days[d].state = "retry_due" /\ days[d].retryAt <= now
  /\ Move(d, [days[d] EXCEPT !.state = "missed", !.doneAt = now], stage)

\* _raw_prune_due
PruneDue(recs, d) ==
  \A e \in {d, d + 1} : /\ e \in DOMAIN recs /\ recs[e].state \in Done
                        /\ recs[e].doneAt + RawKeep <= now

\* prune_raw_readings: from the day after the last one pruned to the first the
\* guard refuses.
Prune ==
  \E here \in {Here} :
  LET left == {d \in DOMAIN here : prunedTo < d}
      due  == {d \in left : \A e \in left : e <= d => PruneDue(here, e)}
      old  == {r \in raw : \E d \in due : here[d].start <= r.at /\ r.at < here[d].end}
  IN  /\ due # {}
      /\ raw' = raw \ old /\ gone' = gone \cup old
      /\ prunedTo' = TopOf(due)
      /\ Ensure
      /\ KeepSite /\ KeepLogs /\ UNCHANGED <<hourly, stage>>

Clock ==
  /\ now < MaxTime /\ now' = now + 1
  /\ UNCHANGED <<recordVars, listVars, dataVars>>

-----------------------------------------------------------------------------

Init ==
  /\ now = 0
  /\ siteZone = FirstZone /\ zoneLog = <<>>
  /\ days = <<>> /\ list = <<>> /\ counted = <<>>
  /\ changeLog = FirstLog /\ enabled = {FirstLog[i].station : i \in DOMAIN FirstLog}
  /\ checks = [d \in Dates |-> [counted |-> {}, aside |-> {}]]
  /\ raw = {} /\ gone = {} /\ hourly = [d \in Dates |-> {}]
  /\ stage = "none" /\ prunedTo = -1

Next ==
  \/ Tick \/ Prune \/ Clock
  \/ \E z \in Zones : EnterZoneChange(z)
  \/ \E s \in Stations : TurnOn(s) \/ TurnOff(s)
  \/ \E s \in Stations, t \in 0..(MaxTime + 1) :
       StoreFiveMinute(s, t) \/ StoreCurrentObs(s, t) \/ StoreGapFill(s, t)
  \/ \E d \in DOMAIN days :
       \/ BeginClose(d) \/ FailClose(d) \/ FinishClose(d)
       \/ MarkMissed(d)
       \/ \E aside \in SUBSET Stations : HourlyStage(d, aside)

Spec == Init /\ [][Next]_vars

-----------------------------------------------------------------------------
(* Properties.                                                             *)

\* The type invariant; an attempt has a stage exactly while a day is closing,
\* and one day at most is.
TypeOK ==
  /\ now \in 0..MaxTime
  /\ siteZone \in Zones
  /\ \A i \in DOMAIN zoneLog : zoneLog[i] \in [zone : Zones, from : Dates]
  /\ DOMAIN days \subseteq Dates /\ \A d \in DOMAIN days : days[d] \in Day
  /\ enabled \subseteq Stations
  /\ \A i \in DOMAIN changeLog :
       changeLog[i] \in [station : Stations, joins : BOOLEAN, from : Dates]
  /\ DOMAIN list = DOMAIN days /\ DOMAIN counted = DOMAIN days
  /\ \A d \in DOMAIN days : list[d] \subseteq Stations /\ counted[d] \subseteq list[d]
  /\ checks \in [Dates -> [counted : SUBSET Stations, aside : SUBSET Stations]]
  /\ raw \subseteq Reading /\ gone \subseteq Reading
  /\ hourly \in [Dates -> SUBSET Reading]
  /\ prunedTo \in Dates \cup {-1}
  /\ stage \in {"none", "fill", "truth"}
  /\ stage = "none" <=> ClosingDay = {}
  /\ Cardinality(ClosingDay) <= 1

\* From the first record on, the days follow each other without a gap or an
\* overlap, each shorter than two days and, unless it is a changeover day, from
\* midnight to midnight of its zone; and the missing ones can always be made.
\* Through any zone changes, to either side, before or after the first day, and
\* any time the add-on was down.
DaysTile ==
  LET recorded == DOMAIN days
  IN  /\ \A d \in recorded :
           /\ days[d].start < days[d].end /\ days[d].end < days[d].start + 2 * DayLength
           /\ days[d].end = Midnight(d + 1, days[d].zone)
           /\ days[d].changeover <=> days[d].start # Midnight(d, days[d].zone)
      /\ \A d \in recorded : \A e \in recorded :
           d < e => d + 1 \in recorded /\ days[d].end = days[d + 1].start
      /\ Fits(Here)

\* Each day's saved list is what the stations' log says of its date, though a
\* list is written once and corrected only by changes and zone changes while the
\* day is open; and each flag on it is the latest earlier check's, though checks
\* are made, and made again, by closes that fail.
ListsFollowLogs ==
  \A d \in DOMAIN days :
    /\ list[d] = StationList(changeLog, d)
    /\ counted[d] = {s \in list[d] : Counts(d, s)}

\* The hourly values of a closed day come from all the readings its stations ever
\* had for it and just before it: none arrives after they are derived, by any of
\* the three writers, and none is deleted before.
ClosedFromItsReadings ==
  \A d \in DOMAIN days : days[d].state = "closed" =>
    hourly[d] = {r \in raw \cup gone :
                   /\ r.station \in list[d]
                   /\ days[d].start - Lookback <= r.at /\ r.at < days[d].end}
=============================================================================
