------------------------- MODULE StationDays_proofs -------------------------
(***************************************************************************)
(* Theorems about StationDays: its type invariant and its three safety     *)
(* invariants, for any zones, stations and day length, any number of       *)
(* zone changes, station changes and readings.                             *)
(***************************************************************************)
EXTENDS StationDays, FiniteSetTheorems, WellFoundedInduction, TLAPS

-----------------------------------------------------------------------------
(* Greatest and least members.                                             *)

LEMMA HasLeast ==
  ASSUME NEW S \in SUBSET Nat, S # {}
  PROVE  \E m \in S : \A n \in S : m <= n
  <1>1. PICK m \in S : \A n \in S : ~(<<n, m>> \in OpToRel(<, Nat))
    BY NatLessThanWellFounded, WFMin
  <1>2. \A n \in S : ~(n < m)
    BY <1>1 DEF OpToRel
  <1> QED BY <1>2

LEMMA HasGreatest ==
  ASSUME NEW N \in Nat, NEW S \in SUBSET (0..N), S # {}
  PROVE  \E m \in S : \A n \in S : n <= m
  <1> DEFINE T == {N - n : n \in S}
  <1>0. \A n \in S : N - n \in Nat
    OBVIOUS
  <1>1. T \in SUBSET Nat /\ T # {}
    BY <1>0
  <1>2. PICK t \in T : \A u \in T : t <= u
    <2> HIDE DEF T
    <2> QED BY <1>1, HasLeast
  <1>3. PICK m \in S : t = N - m
    OBVIOUS
  <1>4. \A n \in S : N - m <= N - n
    BY <1>2, <1>3
  <1> HIDE DEF T
  <1> QED BY <1>3, <1>4

LEMMA BottomIsLeast ==
  ASSUME NEW S \in SUBSET Nat, S # {}
  PROVE  BottomOf(S) \in S
  BY HasLeast DEF BottomOf

LEMMA TopIsGreatest ==
  ASSUME NEW N \in Nat, NEW S \in SUBSET (0..N), S # {}
  PROVE  TopOf(S) \in S /\ \A m \in S : m <= TopOf(S)
  BY HasGreatest DEF TopOf

LEMMA TopIs ==
  ASSUME NEW N \in Nat, NEW S \in SUBSET (0..N), NEW d \in S, \A n \in S : n <= d
  PROVE  TopOf(S) = d
  <1>1. PICK n \in S : n = TopOf(S) /\ d <= n
    BY TopIsGreatest
  <1>2. n \in Nat /\ d \in Nat /\ n <= d
    BY <1>1
  <1> QED BY <1>1, <1>2

-----------------------------------------------------------------------------
(* Midnights and local dates.                                              *)

LastDate == MaxTime \div DayLength + 4

LEMMA Constants ==
  /\ DayLength \in Nat /\ DayLength > 0 /\ MaxTime \in Nat /\ Lookback \in Nat
  /\ \A z \in Zones : Ahead[z] \in Nat /\ Ahead[z] < 2 * DayLength
  /\ FirstZone \in Zones /\ RawKeep \in Nat /\ RetryDelay \in Nat
  /\ LastDate \in Nat /\ Dates = 0..LastDate /\ Dates \in SUBSET Nat
  <1>1. /\ DayLength \in Nat /\ DayLength > 0 /\ MaxTime \in Nat /\ Lookback \in Nat
        /\ \A z \in Zones : Ahead[z] \in Nat /\ Ahead[z] < 2 * DayLength
        /\ FirstZone \in Zones /\ RawKeep \in Nat /\ RetryDelay \in Nat
    BY ConstantsAssumption
  <1>2. MaxTime \div DayLength \in Nat
    BY <1>1
  <1> QED BY <1>1, <1>2 DEF LastDate, Dates

LEMMA Midnights ==
  ASSUME NEW d \in Int, NEW z \in Zones
  PROVE  /\ Midnight(d, z) \in Int
         /\ Midnight(d + 1, z) = Midnight(d, z) + DayLength
         /\ (d - 2) * DayLength < Midnight(d, z)
         /\ Midnight(d, z) <= d * DayLength
  <1>1. d * DayLength \in Int /\ (d + 1) * DayLength = d * DayLength + DayLength
        /\ (d - 2) * DayLength = d * DayLength - 2 * DayLength
    BY Constants
  <1>2. Ahead[z] \in Nat /\ Ahead[z] < 2 * DayLength
    BY Constants
  <1> QED BY <1>1, <1>2, Constants DEF Midnight

LEMMA MidnightOrder ==
  ASSUME NEW d \in Int, NEW e \in Int, d < e, NEW z \in Zones
  PROVE  Midnight(d + 1, z) <= Midnight(e, z)
  <1>1. (e - d - 1) * DayLength >= 0
    BY Constants
  <1>2. (e - d - 1) * DayLength = e * DayLength - (d + 1) * DayLength
    BY Constants
  <1>3. e * DayLength \in Int /\ (d + 1) * DayLength \in Int /\ Ahead[z] \in Nat
    BY Constants
  <1> QED BY <1>1, <1>2, <1>3 DEF Midnight

LEMMA Division ==
  ASSUME NEW x \in Nat, NEW k \in Nat, k > 0
  PROVE  /\ x \div k \in Nat
         /\ (x \div k) * k <= x /\ x < (x \div k + 1) * k
  OBVIOUS

\* A quotient below m: the number is below m divisors, and the other way round.
LEMMA Quotient ==
  ASSUME NEW x \in Nat, NEW k \in Nat, k > 0, NEW m \in Int
  PROVE  x \div k < m <=> x < m * k
  <1> DEFINE q == x \div k
  <1>1. q \in Nat /\ q * k <= x /\ x < (q + 1) * k
    BY Division
  <1> HIDE DEF q
  <1>2. ASSUME q < m PROVE x < m * k
    <2>1. (m - q - 1) * k >= 0 /\ (m - q - 1) * k = m * k - (q + 1) * k
      BY <1>1, <1>2
    <2>2. m * k \in Int /\ (q + 1) * k \in Int
      BY <1>1
    <2> QED BY <2>1, <2>2, <1>1
  <1>3. ASSUME ~(q < m) PROVE ~(x < m * k)
    <2>1. (q - m) * k >= 0 /\ (q - m) * k = q * k - m * k
      BY <1>1, <1>3
    <2>2. m * k \in Int /\ q * k \in Int
      BY <1>1
    <2> QED BY <2>1, <2>2, <1>1
  <1>4. q < m <=> x < m * k
    BY <1>2, <1>3
  <1> QED BY <1>4 DEF q

LEMMA LocalDates ==
  ASSUME NEW t \in 0..MaxTime, NEW z \in Zones
  PROVE  /\ LocalDate(t, z) \in 0..(LastDate - 2)
         /\ \A m \in Int : LocalDate(t, z) < m <=> t < Midnight(m, z)
  <1>0. Ahead[z] \in Nat /\ Ahead[z] < 2 * DayLength /\ t \in Nat /\ t <= MaxTime
        /\ t + Ahead[z] \in Nat
    BY Constants
  <1>1. \A m \in Int : LocalDate(t, z) < m <=> t + Ahead[z] < m * DayLength
    BY <1>0, Constants, Quotient DEF LocalDate
  <1>2. \A m \in Int : m * DayLength \in Int
    BY Constants
  <1>3. \A m \in Int : LocalDate(t, z) < m <=> t < Midnight(m, z)
    BY <1>0, <1>1, <1>2 DEF Midnight
  <1>4. LocalDate(t, z) \in Nat
    BY <1>0, Constants, Division DEF LocalDate
  <1>5. LocalDate(t, z) < LastDate - 1
    <2> DEFINE q == MaxTime \div DayLength
    <2>1. q \in Nat /\ MaxTime < (q + 1) * DayLength
      BY Constants, Division
    <2>2. LastDate - 1 = q + 3
      BY <2>1 DEF LastDate
    <2> HIDE DEF q
    <2>3. (q + 3) * DayLength = (q + 1) * DayLength + 2 * DayLength
          /\ (q + 1) * DayLength \in Int
      BY <2>1, Constants
    <2>4. t + Ahead[z] < (q + 3) * DayLength
      BY <2>1, <2>3, <1>0, Constants
    <2> QED BY <2>2, <2>4, <1>1, <2>1
  <1> QED BY <1>3, <1>4, <1>5, Constants

\* The clock never comes to the last date.
LEMMA LastDateAhead == MaxTime < (LastDate - 2) * DayLength
  <1> DEFINE q == MaxTime \div DayLength
  <1>1. q \in Nat /\ MaxTime < (q + 1) * DayLength
    BY Constants, Division
  <1>2. LastDate - 2 = q + 2
    BY <1>1 DEF LastDate
  <1> HIDE DEF q
  <1>3. (q + 2) * DayLength = (q + 1) * DayLength + DayLength
        /\ (q + 1) * DayLength \in Int
    BY <1>1, Constants
  <1> QED BY <1>1, <1>2, <1>3, Constants

-----------------------------------------------------------------------------
\* Records whose bounds are right: each day ends at the midnight of its zone, and
\* starts where the day before it ends.
Sound(recs) ==
  /\ DOMAIN recs \subseteq Dates
  /\ \A d \in DOMAIN recs :
       /\ recs[d] \in Day
       /\ recs[d].start < recs[d].end /\ recs[d].start + Lookback <= recs[d].end
       /\ recs[d].end < recs[d].start + 2 * DayLength
       /\ recs[d].end = Midnight(d + 1, recs[d].zone)
       /\ recs[d].changeover <=> recs[d].start # Midnight(d, recs[d].zone)
       /\ (d - 2) * DayLength < recs[d].start
  /\ \A d, e \in DOMAIN recs : d < e =>
       /\ d + 1 \in DOMAIN recs /\ recs[d].end = recs[d + 1].start
       /\ recs[d].end <= recs[e].start

IsLast(recs, d) == d \in DOMAIN recs /\ \A e \in DOMAIN recs : e <= d

-----------------------------------------------------------------------------
(* The logs.                                                               *)

ZoneChange    == [zone : Zones, from : Dates]
StationChange == [station : Stations, joins : BOOLEAN, from : Dates]

LEMMA ZoneForLast ==
  ASSUME NEW log \in Seq(ZoneChange), log # <<>>, NEW z, NEW d \in Dates,
         log[Len(log)].from <= d
  PROVE  ZoneFor(log, z, d) = log[Len(log)].zone
  <1> DEFINE inEffect == {i \in DOMAIN log : log[i].from <= d}
  <1>1. Len(log) \in Nat /\ Len(log) \in DOMAIN log /\ DOMAIN log = 1..Len(log)
    OBVIOUS
  <1>2. inEffect \in SUBSET (0..Len(log)) /\ Len(log) \in inEffect
    BY <1>1
  <1>3. TopOf(inEffect) \in inEffect /\ Len(log) <= TopOf(inEffect)
    <2> HIDE DEF inEffect
    <2> QED BY <1>1, <1>2, TopIsGreatest
  <1>4. TopOf(inEffect) = Len(log)
    BY <1>1, <1>3
  <1> QED BY <1>2, <1>4 DEF ZoneFor

LEMMA ZoneForNone ==
  ASSUME NEW z, NEW d
  PROVE  ZoneFor(<<>>, z, d) = z
  BY DEF ZoneFor

\* A change changes no list of a date before its own.
LEMMA ListBefore ==
  ASSUME NEW log \in Seq(StationChange), NEW c \in StationChange,
         NEW d \in Dates, d < c.from
  PROVE  StationList(Append(log, c), d) = StationList(log, d)
  <1> DEFINE new == Append(log, c)
             Own(l, s) == {i \in DOMAIN l : l[i].station = s /\ l[i].from <= d}
  <1>1. /\ DOMAIN new = 1..(Len(log) + 1) /\ DOMAIN log = 1..Len(log) /\ Len(log) \in Nat
        /\ new[Len(log) + 1] = c /\ \A i \in DOMAIN log : new[i] = log[i]
    OBVIOUS
  <1>2. c.from \in Nat /\ d \in Nat
    BY Constants DEF StationChange
  <1>3. \A s \in Stations : Own(new, s) = Own(log, s)
    BY <1>1, <1>2
  <1>4. ASSUME NEW s \in Stations, Own(log, s) # {}
        PROVE  TopOf(Own(log, s)) \in DOMAIN log
    <2>1. Own(log, s) \in SUBSET (0..Len(log))
      BY <1>1
    <2>2. TopOf(Own(log, s)) \in Own(log, s)
      <3> HIDE DEF Own
      <3> QED BY <2>1, <1>1, <1>4, TopIsGreatest
    <2> QED BY <2>2
  <1> QED BY <1>1, <1>3, <1>4 DEF StationList

-----------------------------------------------------------------------------
(* Records: which day holds an instant, and what _ensure makes.            *)

LEMMA HoldingOne ==
  ASSUME NEW recs, Sound(recs), NEW t \in Nat, NEW d \in Holding(recs, t), NEW e \in DOMAIN recs
  PROVE  /\ e < d => recs[e].end <= t
         /\ d < e => t < recs[e].start
         /\ e \in Holding(recs, t) => e = d
  <1>1. d \in DOMAIN recs /\ recs[d].start <= t /\ t < recs[d].end
        /\ recs[d] \in Day /\ recs[e] \in Day /\ d \in Nat /\ e \in Nat
    BY Constants DEF Holding, Sound
  <1>2. /\ e < d => recs[e].end <= recs[d].start
        /\ d < e => recs[d].end <= recs[e].start
    BY <1>1 DEF Sound
  <1>3. e < d => recs[e].end <= t
    BY <1>1, <1>2 DEF Day
  <1>4. d < e => t < recs[e].start
    BY <1>1, <1>2 DEF Day
  <1>5. e \in Holding(recs, t) => ~(e < d) /\ ~(d < e)
    BY <1>1, <1>3, <1>4 DEF Holding, Day
  <1> QED BY <1>1, <1>3, <1>4, <1>5

LEMMA HoldingExists ==
  ASSUME NEW recs, Sound(recs), NEW t \in Nat, NEW d \in DOMAIN recs, NEW e \in DOMAIN recs,
         recs[d].start <= t, t < recs[e].end
  PROVE  Holding(recs, t) # {}
  <1> DEFINE S == {n \in DOMAIN recs : t < recs[n].end}
  <1>0. \A n \in DOMAIN recs :
          recs[n] \in Day /\ n \in Nat /\ recs[n].start \in Int /\ recs[n].end \in Int
    BY Constants DEF Sound, Day
  <1>1. S \in SUBSET Nat /\ e \in S
    BY <1>0
  <1>2. PICK m \in S : \A n \in S : m <= n
    <2> HIDE DEF S
    <2> QED BY <1>1, HasLeast
  <1>3. m \in DOMAIN recs /\ t < recs[m].end /\ \A n \in DOMAIN recs : t < recs[n].end => m <= n
    BY <1>2
  <1> HIDE DEF S
  <1>4. CASE m <= d
    <2>1. recs[m].start <= recs[d].start
      <3>1. m < d => recs[m].end <= recs[d].start /\ recs[m].start < recs[m].end
        BY <1>3 DEF Sound
      <3> QED BY <3>1, <1>0, <1>3, <1>4
    <2> QED BY <2>1, <1>0, <1>3 DEF Holding
  <1>5. CASE d < m
    <2>1. d < m - 1 => m - 1 \in DOMAIN recs
      <3> DEFINE T == {n \in Nat : n < m /\ n \in DOMAIN recs}
      <3>1. T \in SUBSET (0..m) /\ d \in T /\ m \in Nat
        BY <1>0, <1>3, <1>5
      <3>2. PICK q \in T : \A n \in T : n <= q
        <4> HIDE DEF T
        <4> QED BY <3>1, HasGreatest
      <3>3. q \in DOMAIN recs /\ q < m /\ q \in Nat
        BY <3>2
      <3>4. q + 1 \in DOMAIN recs
        BY <3>3, <1>3 DEF Sound
      <3>5. q + 1 < m => q + 1 \in T
        BY <3>3, <3>4
      <3>6. ~(q + 1 <= q)
        BY <3>3
      <3>7. ~(q + 1 < m)
        BY <3>2, <3>5, <3>6
      <3> QED BY <3>3, <3>7, <1>0, <1>3
    <2>2. m - 1 \in DOMAIN recs
      BY <2>1, <1>0, <1>3, <1>5
    <2>3. recs[m - 1].end = recs[m].start
      <3>1. m - 1 < m /\ (m - 1) + 1 = m
        BY <1>0, <1>3
      <3> QED BY <2>2, <1>3, <3>1 DEF Sound
    <2>4. ~(t < recs[m - 1].end)
      BY <2>2, <1>0, <1>3
    <2> QED BY <2>2, <2>3, <2>4, <1>0, <1>3 DEF Holding
  <1> QED BY <1>0, <1>3, <1>4, <1>5

\* _current_local_date is a day that holds now, or the date by the site's zone.
LEMMA CurrentIs ==
  ASSUME NEW recs, NEW z
  PROVE  /\ Holding(recs, now) # {} => Current(recs, z) \in Holding(recs, now)
         /\ Holding(recs, now) = {} => Current(recs, z) = LocalDate(now, z)
  BY DEF Current
\* The dates after the records are of zone z, by the log.
TailFits(recs, log, z) ==
  \A d \in Dates :
    /\ \A e \in DOMAIN recs : e < d
    /\ DOMAIN recs = {} => LocalDate(now, z) < d
    => ZoneFor(log, z, d) = z

\* The date after the last record, made in zone z, is a day of a lawful length.
NextFits(recs, z) ==
  \A d \in DOMAIN recs : IsLast(recs, d) =>
    /\ recs[d].end < Midnight(d + 2, z)
    /\ recs[d].end + Lookback <= Midnight(d + 2, z)
    /\ Midnight(d + 2, z) < recs[d].end + 2 * DayLength

\* made has recs and, after them, open days of zone z.
Extends(made, recs, z) ==
  /\ Sound(made)
  /\ DOMAIN recs \subseteq DOMAIN made
  /\ \A d \in DOMAIN recs : made[d] = recs[d]
  /\ \A d \in DOMAIN made \ DOMAIN recs :
       /\ made[d].state = "open" /\ made[d].attempts = 0 /\ made[d].zone = z
       /\ \A e \in DOMAIN recs : e < d

LEMMA LookbackFits == Lookback <= DayLength
  <1>1. Ahead[FirstZone] \in Nat /\ DayLength + Ahead[FirstZone] - Ahead[FirstZone] = DayLength
    BY Constants
  <1> QED BY <1>1, Constants, ConstantsAssumption

LEMMA CurrentBelowLastDate ==
  ASSUME NEW recs, Sound(recs), LastDate \in DOMAIN recs, NEW z \in Zones, now \in 0..MaxTime
  PROVE  Current(recs, z) < LastDate
  <1>1. recs[LastDate].start \in Int /\ (LastDate - 2) * DayLength < recs[LastDate].start
    BY DEF Sound, Day
  <1>2. now < recs[LastDate].start
    <2>1. (LastDate - 2) * DayLength \in Int
      BY Constants
    <2> QED BY <1>1, <2>1, LastDateAhead, Constants
  <1>3. CASE Holding(recs, now) = {}
    <2>1. LocalDate(now, z) \in 0..(LastDate - 2)
      BY LocalDates
    <2> QED BY <1>3, <2>1, CurrentIs, Constants
  <1>4. CASE Holding(recs, now) # {}
    <2>1. PICK d \in Holding(recs, now) : d = Current(recs, z)
      BY <1>4, CurrentIs
    <2>2. d \in DOMAIN recs /\ recs[d].start <= now /\ now < recs[d].end
          /\ recs[d] \in Day /\ d \in Nat /\ d <= LastDate
      BY Constants DEF Holding, Sound
    <2>3. d # LastDate
      BY <1>1, <1>2, <2>2 DEF Day
    <2> QED BY <2>1, <2>2, <2>3, Constants
  <1> QED BY <1>3, <1>4

LEMMA StartedIs ==
  ASSUME NEW recs, NEW log, NEW z \in Zones, now \in 0..MaxTime,
         Sound(recs), TailFits(recs, log, z), NextFits(recs, z)
  PROVE  LET begun == Started(recs, log, z)
         IN  /\ Extends(begun, recs, z) /\ DOMAIN begun # {} /\ NextFits(begun, z)
             /\ DOMAIN recs # {} => begun = recs
             /\ DOMAIN recs = {} => DOMAIN begun = {LocalDate(now, z) + 1}
  <1> DEFINE begun == Started(recs, log, z)
  <1>1. CASE DOMAIN recs # {}
    BY <1>1 DEF Started, Extends
  <1>2. CASE DOMAIN recs = {}
    <2> DEFINE first == LocalDate(now, z) + 1
    <2>1. LocalDate(now, z) \in 0..(LastDate - 2)
      BY LocalDates
    <2>2. first \in Dates /\ LocalDate(now, z) < first /\ first \in Int
      BY <2>1, Constants
    <2> HIDE DEF first
    <2>3. ZoneFor(log, z, first) = z
      BY <1>2, <2>2 DEF TailFits
    <2>4. begun = [d \in {first} |-> NewDay(Midnight(first, z), Midnight(first + 1, z), z, FALSE)]
      BY <1>2, <2>3 DEF Started, first
    <2>5. DOMAIN begun = {first}
          /\ begun[first] = NewDay(Midnight(first, z), Midnight(first + 1, z), z, FALSE)
      BY <2>4
    <2> HIDE DEF begun
    <2>6. /\ Midnight(first, z) \in Int
          /\ Midnight(first + 1, z) = Midnight(first, z) + DayLength
          /\ (first - 2) * DayLength < Midnight(first, z)
      BY <2>2, Midnights
    <2>7. Midnight(first + 2, z) = Midnight(first + 1, z) + DayLength
      <3>1. first + 1 \in Int /\ (first + 1) + 1 = first + 2
        BY <2>2
      <3> QED BY <3>1, Midnights
    <2>8. begun[first] \in Day /\ begun[first].start = Midnight(first, z)
          /\ begun[first].end = Midnight(first + 1, z) /\ begun[first].zone = z
          /\ begun[first].changeover = FALSE /\ begun[first].state = "open"
          /\ begun[first].attempts = 0
      BY <2>5, <2>6, Constants DEF NewDay, Day
    <2>9. Sound(begun)
      <3>1. begun[first].start < begun[first].end /\ begun[first].start + Lookback <= begun[first].end
            /\ begun[first].end < begun[first].start + 2 * DayLength
        BY <2>6, <2>8, LookbackFits, Constants
      <3>2. \A d \in DOMAIN begun : d = first
        BY <2>5
      <3>3. begun[first].end = Midnight(first + 1, begun[first].zone)
            /\ (begun[first].changeover <=> begun[first].start # Midnight(first, begun[first].zone))
        BY <2>8
      <3>4. (first - 2) * DayLength < begun[first].start
        BY <2>6, <2>8
      <3>5. ASSUME NEW d \in DOMAIN begun, NEW e \in DOMAIN begun, d < e
            PROVE  FALSE
        BY <3>2, <3>5, <2>2
      <3> QED BY <2>2, <2>5, <2>8, <3>1, <3>2, <3>3, <3>4, <3>5, Zenon DEF Sound
    <2>10. NextFits(begun, z)
      <3>1. \A d \in DOMAIN begun : d = first
        BY <2>5
      <3>2. /\ begun[first].end < Midnight(first + 2, z)
            /\ begun[first].end + Lookback <= Midnight(first + 2, z)
            /\ Midnight(first + 2, z) < begun[first].end + 2 * DayLength
        BY <2>6, <2>7, <2>8, LookbackFits, Constants
      <3> QED BY <3>1, <3>2, Zenon DEF NextFits
    <2> QED BY <1>2, <2>2, <2>5, <2>8, <2>9, <2>10 DEF Extends, first, begun
  <1> QED BY <1>1, <1>2

\* What _insert_record makes for each missing date through n.
LEMMA FilledIs ==
  ASSUME NEW recs, NEW log, NEW z \in Zones,
         Sound(recs), TailFits(recs, log, z), NextFits(recs, z),
         NEW last, IsLast(recs, last), NEW n \in Dates, last < n
  PROVE  LET made == Filled(recs, log, z, n)
         IN  /\ Extends(made, recs, z)
             /\ DOMAIN made = DOMAIN recs \cup (last + 1)..n
             /\ IsLast(made, n)
  <1> DEFINE made == Filled(recs, log, z, n)
  <1>0. last \in DOMAIN recs /\ last \in Dates /\ last \in Nat /\ n \in Nat
        /\ \A d \in DOMAIN recs : d \in Nat /\ d <= last
    BY Constants DEF IsLast, Sound
  <1>1. TopOf(DOMAIN recs) = last
    <2>1. DOMAIN recs \in SUBSET (0..LastDate) /\ DOMAIN recs # {} /\ LastDate \in Nat
      BY <1>0, Constants DEF Sound
    <2>2. TopOf(DOMAIN recs) \in DOMAIN recs /\ \A m \in DOMAIN recs : m <= TopOf(DOMAIN recs)
      BY <2>1, TopIsGreatest
    <2> QED BY <2>2, <1>0
  <1>2. \A d \in (last + 1)..n : d \in Dates /\ d \in Nat /\ d \notin DOMAIN recs
    BY <1>0, Constants
  <1>3. \A d \in (last + 1)..n : ZoneFor(log, z, d) = z
    BY <1>0, <1>2 DEF TailFits
  <1>4. /\ DOMAIN made = DOMAIN recs \cup (last + 1)..n
        /\ \A d \in DOMAIN recs : made[d] = recs[d]
    BY <1>1 DEF Filled
  <1>5. made[last + 1] = NewDay(recs[last].end, Midnight(last + 2, z), z,
            z # recs[last].zone /\ recs[last].end # Midnight(last + 1, z))
    <2>1. last + 1 \in (last + 1)..n /\ (last + 1) - 1 = last /\ (last + 1) + 1 = last + 2
      BY <1>0
    <2>2. ZoneFor(log, z, last + 1) = z /\ last + 1 \notin DOMAIN recs
      BY <1>2, <1>3, <2>1
    <2> QED BY <1>1, <2>1, <2>2 DEF Filled, NewStart
  <1>6. ASSUME NEW d \in (last + 2)..n
        PROVE  made[d] = NewDay(Midnight(d, z), Midnight(d + 1, z), z, FALSE)
    <2>1. d \in (last + 1)..n /\ d - 1 \in (last + 1)..n /\ d - 1 # last
      BY <1>0
    <2>2. ZoneFor(log, z, d) = z /\ ZoneFor(log, z, d - 1) = z /\ d \notin DOMAIN recs
      BY <1>2, <1>3, <2>1
    <2>3. made[d] = NewDay(Midnight(d, z), Midnight(d + 1, z), z,
                           z # z /\ Midnight(d, z) # Midnight(d, z))
      BY <1>1, <2>1, <2>2 DEF Filled, NewStart
    <2>4. (z # z /\ Midnight(d, z) # Midnight(d, z)) = FALSE
      OBVIOUS
    <2> QED BY <2>3, <2>4
  <1> HIDE DEF made
  <1>7. recs[last] \in Day /\ recs[last].end = Midnight(last + 1, recs[last].zone)
    BY <1>0 DEF Sound
  <1>8. /\ recs[last].end < Midnight(last + 2, z)
        /\ recs[last].end + Lookback <= Midnight(last + 2, z)
        /\ Midnight(last + 2, z) < recs[last].end + 2 * DayLength
    BY <1>0 DEF NextFits
  <1>9. ASSUME NEW d \in (last + 1)..n
        PROVE  /\ made[d] \in Day
               /\ made[d].start < made[d].end /\ made[d].start + Lookback <= made[d].end
               /\ made[d].end < made[d].start + 2 * DayLength
               /\ made[d].end = Midnight(d + 1, z) /\ made[d].zone = z
               /\ made[d].changeover <=> made[d].start # Midnight(d, z)
               /\ (d - 2) * DayLength < made[d].start
               /\ made[d].state = "open" /\ made[d].attempts = 0
               /\ d = last + 1 => made[d].start = recs[last].end
               /\ d # last + 1 => made[d].start = Midnight(d, z)
    <2>1. CASE d = last + 1
      <3>1. Midnight(last + 2, z) \in Int /\ recs[last].end \in Int
        <4>1. last + 2 \in Int
          BY <1>0
        <4>2. Midnight(last + 2, z) \in Int
          BY <4>1, Midnights
        <4> QED BY <4>2, <1>7 DEF Day
      <3>2. (d - 2) * DayLength < recs[last].end
        <4>1. recs[last].zone \in Zones /\ last + 1 \in Int
          BY <1>0, <1>7 DEF Day
        <4>2. ((last + 1) - 2) * DayLength < Midnight(last + 1, recs[last].zone)
          BY <4>1, Midnights
        <4> QED BY <4>2, <1>7, <2>1
      <3>3. DEFINE co == z # recs[last].zone /\ recs[last].end # Midnight(last + 1, z)
      <3>4. co <=> recs[last].end # Midnight(last + 1, z)
        BY <1>7
      <3>5. co \in BOOLEAN
        OBVIOUS
      <3>6. made[d] = NewDay(recs[last].end, Midnight(last + 2, z), z, co)
        BY <1>5, <2>1
      <3> HIDE DEF co
      <3>7. /\ made[d] \in Day /\ made[d].start = recs[last].end /\ made[d].end = Midnight(last + 2, z)
            /\ made[d].zone = z /\ made[d].changeover = co
            /\ made[d].state = "open" /\ made[d].attempts = 0
        BY <3>1, <3>5, <3>6, Constants DEF NewDay, Day
      <3>8. d + 1 = last + 2
        BY <2>1, <1>0
      <3>9. /\ made[d].start < made[d].end /\ made[d].start + Lookback <= made[d].end
            /\ made[d].end < made[d].start + 2 * DayLength
        BY <1>8, <3>7
      <3>10. made[d].changeover <=> made[d].start # Midnight(d, z)
        BY <2>1, <3>4, <3>7
      <3> QED BY <2>1, <3>2, <3>7, <3>8, <3>9, <3>10, Zenon
    <2>2. CASE d # last + 1
      <3>1. d \in (last + 2)..n /\ d \in Int
        BY <1>0, <2>2
      <3>2. /\ Midnight(d, z) \in Int /\ Midnight(d + 1, z) = Midnight(d, z) + DayLength
        BY <3>1, Midnights
      <3>5. (d - 2) * DayLength < Midnight(d, z)
        BY <3>1, Midnights
      <3>6. Midnight(d, z) \in Int /\ Midnight(d + 1, z) \in Int
        BY <3>2, Constants
      <3>3. /\ made[d] \in Day /\ made[d].start = Midnight(d, z) /\ made[d].end = Midnight(d + 1, z)
            /\ made[d].zone = z /\ made[d].changeover = FALSE
            /\ made[d].state = "open" /\ made[d].attempts = 0
        <4>1. made[d] = NewDay(Midnight(d, z), Midnight(d + 1, z), z, FALSE)
          BY <1>6, <3>1
        <4> QED BY <4>1, <3>6 DEF NewDay, Day
      <3>4. /\ made[d].start < made[d].end /\ made[d].start + Lookback <= made[d].end
            /\ made[d].end < made[d].start + 2 * DayLength
        BY <3>2, <3>3, LookbackFits, Constants
      <3> QED BY <2>2, <3>5, <3>3, <3>4
    <2> QED BY <2>1, <2>2
  <1>10. Sound(made)
    <2>1. DOMAIN made \subseteq Dates
      BY <1>2, <1>4 DEF Sound
    <2>2. ASSUME NEW d \in DOMAIN made
          PROVE  /\ made[d] \in Day
                 /\ made[d].start < made[d].end /\ made[d].start + Lookback <= made[d].end
                 /\ made[d].end < made[d].start + 2 * DayLength
                 /\ made[d].end = Midnight(d + 1, made[d].zone)
                 /\ made[d].changeover <=> made[d].start # Midnight(d, made[d].zone)
                 /\ (d - 2) * DayLength < made[d].start
      <3>1. CASE d \in DOMAIN recs
        BY <3>1, <1>4 DEF Sound
      <3>2. CASE d \in (last + 1)..n
        BY <3>2, <1>9
      <3> QED BY <3>1, <3>2, <1>4
    <2>3. ASSUME NEW d \in DOMAIN made, NEW e \in DOMAIN made, d < e
          PROVE  /\ d + 1 \in DOMAIN made /\ made[d].end = made[d + 1].start
                 /\ made[d].end <= made[e].start
      <3>0. d \in Nat /\ e \in Nat /\ made[d].end \in Int /\ made[e].start \in Int
        BY <2>1, <2>2, Constants DEF Day
      <3>1. CASE e \in DOMAIN recs
        <4>1. d \in DOMAIN recs
          BY <1>0, <1>4, <3>0, <3>1, <2>3
        <4> QED BY <4>1, <3>1, <1>4, <2>3 DEF Sound
      <3>2. CASE e \in (last + 1)..n
        <4>1. recs[last].end <= made[e].start
          <5>1. CASE e = last + 1
            BY <5>1, <3>2, <1>9, <1>7 DEF Day
          <5>2. CASE e # last + 1
            <6>1. made[e].start = Midnight(e, z)
              BY <5>2, <3>2, <1>9
            <6>2. Midnight(last + 2, z) <= Midnight(e, z)
              <7>1. last + 1 \in Int /\ last + 1 < e /\ (last + 1) + 1 = last + 2
                BY <1>0, <3>2, <5>2
              <7> QED BY <7>1, <3>0, MidnightOrder
            <6>3. Midnight(last + 2, z) \in Int
              BY <1>0, Midnights
            <6> QED BY <6>1, <6>2, <6>3, <1>8, <1>7, <3>0 DEF Day
          <5> QED BY <5>1, <5>2
        <4>2. CASE d \in DOMAIN recs /\ d # last
          <5>1. d < last
            BY <4>2, <1>0
          <5>2. /\ d + 1 \in DOMAIN recs /\ recs[d].end = recs[d + 1].start
                /\ recs[d].end <= recs[last].start /\ recs[last].start < recs[last].end
            BY <4>2, <5>1, <1>0 DEF Sound
          <5> QED BY <4>1, <4>2, <5>2, <1>4, <1>7, <3>0 DEF Day
        <4>3. CASE d = last
          <5>1. last + 1 \in (last + 1)..n
            BY <1>0
          <5>2. made[last + 1].start = recs[last].end
            BY <5>1, <1>9
          <5> QED BY <4>1, <4>3, <5>1, <5>2, <1>0, <1>4
        <4>4. CASE d \in (last + 1)..n
          <5>1. d + 1 \in (last + 1)..n /\ d + 1 # last + 1 /\ e # last + 1
            BY <4>4, <3>2, <1>0, <2>3, <3>0
          <5>2. made[d].end = Midnight(d + 1, z) /\ made[d + 1].start = Midnight(d + 1, z)
                /\ made[e].start = Midnight(e, z)
            BY <4>4, <5>1, <3>2, <1>9
          <5>3. Midnight(d + 1, z) <= Midnight(e, z)
            BY <3>0, <2>3, MidnightOrder
          <5> QED BY <5>1, <5>2, <5>3, <1>4
        <4> QED BY <4>2, <4>3, <4>4, <1>4
      <3> QED BY <3>1, <3>2, <1>4
    <2> QED BY <2>1, <2>2, <2>3 DEF Sound
  <1>11. \A d \in DOMAIN made \ DOMAIN recs :
           /\ made[d].state = "open" /\ made[d].attempts = 0 /\ made[d].zone = z
           /\ \A e \in DOMAIN recs : e < d
    BY <1>0, <1>4, <1>9
  <1>12. IsLast(made, n)
    BY <1>0, <1>4 DEF IsLast
  <1> QED BY <1>4, <1>10, <1>11, <1>12 DEF Extends, made
LEMMA EnsuredIs ==
  ASSUME NEW recs, NEW log, NEW z \in Zones, now \in 0..MaxTime,
         Sound(recs), TailFits(recs, log, z), NextFits(recs, z)
  PROVE  LET made == Ensured(recs, log, z)
         IN  /\ Extends(made, recs, z) /\ DOMAIN made # {} /\ Fits(made)
             /\ \A d : IsLast(made, d) => Current(made, z) < d
             /\ DOMAIN recs = {} => LocalDate(now, z) + 1 \in DOMAIN made
  <1> DEFINE begun == Started(recs, log, z)
             last  == TopOf(DOMAIN begun)
             made  == Ensured(recs, log, z)
             Later == {m \in Dates : last < m /\ Current(Filled(begun, log, z, m), z) < m}
  <1>1. /\ Extends(begun, recs, z) /\ DOMAIN begun # {} /\ NextFits(begun, z)
        /\ DOMAIN recs # {} => begun = recs
        /\ DOMAIN recs = {} => DOMAIN begun = {LocalDate(now, z) + 1}
    BY StartedIs
  <1> HIDE DEF begun
  <1>2. Sound(begun) /\ DOMAIN begun \in SUBSET (0..LastDate) /\ LastDate \in Nat
    BY <1>1, Constants DEF Extends, Sound
  <1>3. IsLast(begun, last) /\ last \in 0..LastDate
    <2>1. last \in DOMAIN begun /\ \A m \in DOMAIN begun : m <= last
      BY <1>1, <1>2, TopIsGreatest
    <2> QED BY <2>1, <1>2 DEF IsLast
  <1>4. TailFits(begun, log, z)
    <2>1. ASSUME NEW d \in Dates, \A e \in DOMAIN begun : e < d
          PROVE  (\A e \in DOMAIN recs : e < d) /\ (DOMAIN recs = {} => LocalDate(now, z) < d)
      <3>1. \A e \in DOMAIN recs : e < d
        BY <1>1, <2>1 DEF Extends
      <3>2. DOMAIN recs = {} => LocalDate(now, z) < d
        <4>1. LocalDate(now, z) \in 0..(LastDate - 2) /\ d \in Int
          BY LocalDates, Constants
        <4> QED BY <4>1, <1>1, <2>1
      <3> QED BY <3>1, <3>2
    <2> QED BY <2>1 DEF TailFits
  <1>5. made = IF Current(begun, z) < last THEN begun
               ELSE Filled(begun, log, z, BottomOf(Later))
    BY DEF Ensured, begun
  <1>6. CASE Current(begun, z) < last
    <2>1. made = begun
      BY <1>5, <1>6
    <2>2. \A d : IsLast(begun, d) => d = last
      BY <1>2, <1>3 DEF IsLast
    <2>3. Fits(begun)
      BY <1>2 DEF Fits, Sound
    <2>4. DOMAIN recs = {} => LocalDate(now, z) + 1 \in DOMAIN begun
      BY <1>1
    <2> HIDE DEF made, last
    <2> QED BY <1>1, <1>6, <2>1, <2>2, <2>3, <2>4 DEF made
  <1>7. CASE ~(Current(begun, z) < last)
    <2>1. last < LastDate
      <3>1. last # LastDate
        BY <1>2, <1>3, <1>7, CurrentBelowLastDate DEF IsLast
      <3> QED BY <1>2, <1>3, <3>1
    <2>2. LastDate \in Later
      <3>1. LastDate \in Dates
        BY Constants
      <3>2. LET full == Filled(begun, log, z, LastDate)
            IN  Extends(full, begun, z) /\ IsLast(full, LastDate)
        <4> HIDE DEF last
        <4> QED BY <1>1, <1>2, <1>3, <1>4, <2>1, <3>1, FilledIs
      <3>3. Current(Filled(begun, log, z, LastDate), z) < LastDate
        BY <3>2, CurrentBelowLastDate DEF Extends, IsLast
      <3> QED BY <2>1, <3>1, <3>3
    <2> DEFINE n == BottomOf(Later)
    <2>3. n \in Later
      <3>1. Later \in SUBSET Nat
        BY Constants
      <3> HIDE DEF Later
      <3> QED BY <2>2, <3>1, BottomIsLeast
    <2>4. n \in Dates /\ last < n /\ Current(Filled(begun, log, z, n), z) < n
      BY <2>3
    <2>5. made = Filled(begun, log, z, n)
      BY <1>5, <1>7
    <2> HIDE DEF n, Later, last, made
    <2>6. /\ Extends(made, begun, z)
          /\ DOMAIN made = DOMAIN begun \cup (last + 1)..n /\ IsLast(made, n)
      <3>1. LET full == Filled(begun, log, z, n)
            IN  /\ Extends(full, begun, z)
                /\ DOMAIN full = DOMAIN begun \cup (last + 1)..n /\ IsLast(full, n)
        BY <1>1, <1>2, <1>3, <1>4, <2>4, FilledIs
      <3> QED BY <3>1, <2>5
    <2>7. Extends(made, recs, z)
      <3>1. ASSUME NEW d \in DOMAIN made \ DOMAIN recs
            PROVE  /\ made[d].state = "open" /\ made[d].attempts = 0 /\ made[d].zone = z
                   /\ \A e \in DOMAIN recs : e < d
        <4>1. CASE d \in DOMAIN begun
          BY <4>1, <2>6, <1>1 DEF Extends
        <4>2. CASE d \notin DOMAIN begun
          BY <4>2, <2>6, <1>1 DEF Extends
        <4> QED BY <4>1, <4>2
      <3>2. \A d \in DOMAIN recs : d \in DOMAIN made /\ made[d] = recs[d]
        BY <2>6, <1>1 DEF Extends
      <3> QED BY <3>1, <3>2, <2>6 DEF Extends
    <2>8. \A d : IsLast(made, d) => d = n
      <3>1. DOMAIN made \subseteq Nat
        BY <2>6, Constants DEF Extends, Sound
      <3> QED BY <2>6, <3>1 DEF IsLast
    <2>9. Fits(made)
      BY <2>6 DEF Fits, Sound, Extends
    <2>10. DOMAIN recs = {} => LocalDate(now, z) + 1 \in DOMAIN made
      BY <1>1, <2>6 DEF Extends
    <2>11. DOMAIN made # {}
      BY <2>6 DEF IsLast
    <2> QED BY <2>4, <2>5, <2>7, <2>8, <2>9, <2>10, <2>11 DEF made
  <1> QED BY <1>6, <1>7

-----------------------------------------------------------------------------
(* The inductive invariant.                                               *)

\* The dates without a record yet are the site's zone's.
ZoneTail ==
  /\ DOMAIN days = {} => zoneLog = <<>>
  /\ \A d \in Dates : IsLast(days, d) => days[d].zone = siteZone
  /\ zoneLog # <<>> => /\ zoneLog[Len(zoneLog)].zone = siteZone
                       /\ \E d \in DOMAIN days : zoneLog[Len(zoneLog)].from <= d

\* Days are closed in order, each once it has ended.
MovesFit ==
  \A d \in DOMAIN days :
    /\ days[d].state = "open" => days[d].attempts = 0
    /\ days[d].state = "closing" => days[d].attempts \in 1..2
    /\ days[d].state = "retry_due" => days[d].attempts = 1
    /\ days[d].state # "open" =>
         /\ days[d].end <= now
         /\ \A e \in DOMAIN days : e < d => days[e].state \in Done

\* A check judges the day's own list, and only a day that was begun has one.
ChecksFit ==
  \A d \in Dates : checks[d].counted \cup checks[d].aside # {} =>
    /\ d \in DOMAIN days /\ days[d].state # "open"
    /\ checks[d].counted \cup checks[d].aside = list[d]
    /\ checks[d].counted \cap checks[d].aside = {}

Sources(d) ==
  {r \in raw \cup gone : /\ r.station \in list[d]
                         /\ days[d].start - Lookback <= r.at /\ r.at < days[d].end}

\* So do the values of a day still closing, from their derivation on.
SourcesFit ==
  \A d \in DOMAIN days :
    days[d].state = "closed" \/ (days[d].state = "closing" /\ stage = "truth")
      => hourly[d] = Sources(d)

\* A deleted reading's day is done, and the day after it too.
GoneFit ==
  \A r \in gone : \E d \in DOMAIN days :
    /\ days[d].start <= r.at /\ r.at < days[d].end /\ d + 1 \in DOMAIN days
    /\ days[d].state \in Done /\ days[d + 1].state \in Done

RecordsFit == /\ now \in 0..MaxTime /\ siteZone \in Zones /\ zoneLog \in Seq(ZoneChange)
              /\ Sound(days) /\ ZoneTail

DataFit ==
  /\ enabled \subseteq Stations /\ changeLog \in Seq(StationChange)
  /\ DOMAIN list = DOMAIN days /\ DOMAIN counted = DOMAIN days
  /\ checks \in [Dates -> [counted : SUBSET Stations, aside : SUBSET Stations]]
  /\ raw \subseteq Reading /\ gone \subseteq Reading
  /\ hourly \in [Dates -> SUBSET Reading]
  /\ prunedTo \in Dates \cup {-1} /\ stage \in {"none", "fill", "truth"}

StageFit == stage = "none" <=> ClosingDay = {}

Inv == /\ RecordsFit /\ MovesFit /\ DataFit /\ StageFit
       /\ ListsFollowLogs /\ ChecksFit /\ SourcesFit /\ GoneFit

-----------------------------------------------------------------------------
(* What a step does to the records.                                        *)

\* The records a transaction finds, in any state that has the invariant.
LEMMA HereIs ==
  ASSUME RecordsFit
  PROVE  /\ Extends(Here, days, siteZone) /\ Sound(Here) /\ DOMAIN Here # {} /\ Fits(Here)
         /\ \A d : IsLast(Here, d) => Current(Here, siteZone) < d /\ Here[d].zone = siteZone
  <1>0. siteZone \in Zones /\ now \in 0..MaxTime /\ Sound(days) /\ ZoneTail
    BY DEF RecordsFit
  <1>1. TailFits(days, zoneLog, siteZone)
    <2>1. ASSUME NEW d \in Dates, \A e \in DOMAIN days : e < d
          PROVE  ZoneFor(zoneLog, siteZone, d) = siteZone
      <3>1. CASE zoneLog = <<>>
        BY <3>1, ZoneForNone
      <3>2. CASE zoneLog # <<>>
        <4>1. PICK e \in DOMAIN days : zoneLog[Len(zoneLog)].from <= e
          BY <1>0, <3>2 DEF ZoneTail
        <4>2. /\ zoneLog \in Seq(ZoneChange) /\ zoneLog[Len(zoneLog)].from \in Nat
              /\ e \in Nat /\ d \in Nat
          <5>1. zoneLog \in Seq(ZoneChange) /\ Len(zoneLog) \in DOMAIN zoneLog
            BY <3>2 DEF RecordsFit
          <5>2. zoneLog[Len(zoneLog)] \in ZoneChange
            BY <5>1
          <5> QED BY <5>1, <5>2, <1>0, Constants DEF ZoneChange, Sound
        <4>3. zoneLog[Len(zoneLog)].from <= d
          BY <4>1, <4>2, <2>1
        <4> QED BY <4>2, <4>3, <3>2, <1>0, ZoneForLast DEF ZoneTail
      <3> QED BY <3>1, <3>2
    <2> QED BY <2>1 DEF TailFits
  <1>2. NextFits(days, siteZone)
    <2> SUFFICES ASSUME NEW d \in DOMAIN days, IsLast(days, d)
                 PROVE  /\ days[d].end < Midnight(d + 2, siteZone)
                        /\ days[d].end + Lookback <= Midnight(d + 2, siteZone)
                        /\ Midnight(d + 2, siteZone) < days[d].end + 2 * DayLength
      BY DEF NextFits
    <2>1. d \in Dates /\ d \in Nat /\ days[d].zone = siteZone
          /\ days[d].end = Midnight(d + 1, siteZone)
      BY <1>0, Constants DEF Sound, ZoneTail
    <2>2. d + 1 \in Int /\ (d + 1) + 1 = d + 2
      BY <2>1
    <2>3. Midnight(d + 1, siteZone) \in Int
          /\ Midnight(d + 2, siteZone) = Midnight(d + 1, siteZone) + DayLength
      BY <2>2, <1>0, Midnights
    <2> QED BY <2>1, <2>3, LookbackFits, Constants
  <1>3. /\ Extends(Here, days, siteZone) /\ DOMAIN Here # {} /\ Fits(Here)
        /\ \A d : IsLast(Here, d) => Current(Here, siteZone) < d
    BY <1>0, <1>1, <1>2, EnsuredIs DEF Here
  <1>4. ASSUME NEW d, IsLast(Here, d) PROVE Here[d].zone = siteZone
    <2>1. d \in DOMAIN Here /\ Sound(Here)
      BY <1>3, <1>4 DEF IsLast, Extends
    <2>2. CASE d \in DOMAIN days
      <3>1. IsLast(days, d) /\ d \in Dates
        BY <1>0, <2>2, <1>3, <1>4 DEF IsLast, Extends, Sound
      <3>2. Here[d] = days[d]
        BY <2>2, <1>3 DEF Extends
      <3> QED BY <3>1, <3>2, <1>0 DEF ZoneTail
    <2>3. CASE d \notin DOMAIN days
      BY <2>1, <2>3, <1>3 DEF Extends
    <2> QED BY <2>2, <2>3
  <1> QED BY <1>3, <1>4 DEF Extends

\* The days begun are the same before and after.
SameBegun ==
  /\ \A d \in DOMAIN days : days[d].state # "open" =>
       d \in DOMAIN days' /\ days'[d] = days[d]
  /\ \A d \in DOMAIN days' : days'[d].state # "open" =>
       d \in DOMAIN days /\ days[d].state # "open"

LEMMA BegunAreHere ==
  ASSUME RecordsFit, NEW d \in DOMAIN Here, Here[d].state # "open"
  PROVE  d \in DOMAIN days /\ Here[d] = days[d]
  BY HereIs DEF Extends

\* A transaction that only makes the missing records.
LEMMA GrowFits ==
  ASSUME RecordsFit, MovesFit, days' = Here, UNCHANGED <<now, siteZone, zoneLog>>
  PROVE  RecordsFit' /\ MovesFit' /\ SameBegun /\ DOMAIN days \subseteq DOMAIN days'
  <1>1. /\ Extends(Here, days, siteZone) /\ Sound(Here) /\ DOMAIN Here # {}
        /\ \A d : IsLast(Here, d) => Here[d].zone = siteZone
    BY HereIs
  <1>2. /\ DOMAIN days \subseteq DOMAIN Here
        /\ \A d \in DOMAIN days : Here[d] = days[d]
        /\ \A d \in DOMAIN Here \ DOMAIN days :
             Here[d].state = "open" /\ Here[d].attempts = 0 /\ \A e \in DOMAIN days : e < d
    BY <1>1 DEF Extends
  <1>3. ZoneTail'
    <2>1. zoneLog # <<>> => /\ zoneLog[Len(zoneLog)].zone = siteZone
                            /\ \E d \in DOMAIN days : zoneLog[Len(zoneLog)].from <= d
      BY DEF RecordsFit, ZoneTail
    <2> HIDE DEF Here
    <2> QED BY <1>1, <1>2, <2>1 DEF ZoneTail
  <1>4. RecordsFit'
    BY <1>1, <1>3 DEF RecordsFit
  <1>5. MovesFit'
    <2> SUFFICES ASSUME NEW d \in DOMAIN Here
                 PROVE  /\ Here[d].state = "open" => Here[d].attempts = 0
                        /\ Here[d].state = "closing" => Here[d].attempts \in 1..2
                        /\ Here[d].state = "retry_due" => Here[d].attempts = 1
                        /\ Here[d].state # "open" =>
                             /\ Here[d].end <= now
                             /\ \A e \in DOMAIN Here : e < d => Here[e].state \in Done
      BY DEF MovesFit
    <2>1. CASE d \in DOMAIN days
      <3>1. \A e \in DOMAIN Here : e < d => e \in DOMAIN days
        <4>1. \A e \in DOMAIN Here : e \in Nat
          BY <1>1, Constants DEF Sound
        <4> QED BY <4>1, <1>2, <2>1
      <3> QED BY <1>2, <2>1, <3>1 DEF MovesFit
    <2>2. CASE d \notin DOMAIN days
      BY <2>2, <1>2
    <2> QED BY <2>1, <2>2
  <1>6. SameBegun
    BY <1>2 DEF SameBegun
  <1> QED BY <1>2, <1>4, <1>5, <1>6

\* The part of a zone change that makes the records again.
LEMMA RemadeFits ==
  ASSUME RecordsFit, MovesFit, NEW zone \in Zones, NEW from \in Dates, NEW kept,
         DOMAIN kept \subseteq DOMAIN Here, \A d \in DOMAIN kept : kept[d] = Here[d] /\ d < from,
         Sound(kept), NextFits(kept, zone),
         \A d \in DOMAIN kept : IsLast(kept, d) => d + 1 = from /\ d \in Holding(kept, now),
         DOMAIN kept = {} => from = LocalDate(now, zone) + 1,
         \A d \in DOMAIN days : days[d].state # "open" => d \in DOMAIN kept,
         zoneLog' = Append(zoneLog, [zone |-> zone, from |-> from]),
         siteZone' = zone, now' = now,
         days' = Ensured(kept, Append(zoneLog, [zone |-> zone, from |-> from]), zone)
  PROVE  RecordsFit' /\ MovesFit' /\ SameBegun
  <1> DEFINE log == Append(zoneLog, [zone |-> zone, from |-> from])
  <1>0. /\ now \in 0..MaxTime /\ zoneLog \in Seq(ZoneChange) /\ Sound(Here) /\ from \in Nat
        /\ \A d \in DOMAIN Here : d \in Nat
    BY HereIs, Constants DEF RecordsFit, Sound
  <1>1. /\ log \in Seq(ZoneChange) /\ log # <<>>
        /\ log[Len(log)] = [zone |-> zone, from |-> from]
    BY <1>0 DEF ZoneChange
  <1>2. \A d \in Dates : from <= d => ZoneFor(log, zone, d) = zone
    <2> HIDE DEF log
    <2> QED BY <1>1, ZoneForLast
  <1>3. TailFits(kept, log, zone)
    <2> SUFFICES ASSUME NEW d \in Dates, \A e \in DOMAIN kept : e < d,
                        DOMAIN kept = {} => LocalDate(now, zone) < d
                 PROVE  ZoneFor(log, zone, d) = zone
      BY DEF TailFits
    <2>0. d \in Nat /\ from \in Nat /\ LocalDate(now, zone) \in Nat
      <3>1. LocalDate(now, zone) \in 0..(LastDate - 2)
        BY <1>0, LocalDates
      <3> QED BY <3>1, Constants
    <2>1. from <= d
      <3>1. CASE DOMAIN kept = {}
        BY <3>1, <2>0
      <3>2. CASE DOMAIN kept # {}
        <4>1. DOMAIN kept \in SUBSET (0..LastDate) /\ LastDate \in Nat
          BY Constants DEF Sound
        <4>2. PICK e \in DOMAIN kept : \A m \in DOMAIN kept : m <= e
          BY <3>2, <4>1, HasGreatest
        <4>3. e + 1 = from /\ e < d /\ e \in Nat
          BY <4>1, <4>2 DEF IsLast
        <4> QED BY <4>3, <2>0
      <3> QED BY <3>1, <3>2
    <2> HIDE DEF log
    <2> QED BY <2>1, <1>2
  <1> HIDE DEF log
  <1>4. /\ Extends(days', kept, zone) /\ DOMAIN days' # {}
        /\ \A d : IsLast(days', d) => Current(days', zone) < d
        /\ DOMAIN kept = {} => LocalDate(now, zone) + 1 \in DOMAIN days'
    <2>1. days' = Ensured(kept, log, zone)
      BY DEF log
    <2>2. LET made == Ensured(kept, log, zone)
          IN  /\ Extends(made, kept, zone) /\ DOMAIN made # {}
              /\ \A d : IsLast(made, d) => Current(made, zone) < d
              /\ DOMAIN kept = {} => LocalDate(now, zone) + 1 \in DOMAIN made
      BY <1>0, <1>3, EnsuredIs
    <2> QED BY <2>1, <2>2
  <1>5. /\ Sound(days') /\ DOMAIN kept \subseteq DOMAIN days'
        /\ \A d \in DOMAIN kept : days'[d] = kept[d]
        /\ \A d \in DOMAIN days' \ DOMAIN kept :
             /\ days'[d].state = "open" /\ days'[d].attempts = 0 /\ days'[d].zone = zone
             /\ \A e \in DOMAIN kept : e < d
        /\ \A d \in DOMAIN days' : d \in Nat
    BY <1>4, Constants DEF Extends, Sound
  <1>6. ASSUME NEW d, IsLast(days', d) PROVE days'[d].zone = zone /\ from <= d
    <2>0. d \in DOMAIN days' /\ d \in Nat
      BY <1>5, <1>6 DEF IsLast
    <2>1. d \notin DOMAIN kept
      <3> SUFFICES ASSUME d \in DOMAIN kept PROVE FALSE
        OBVIOUS
      <3>1. IsLast(kept, d)
        BY <1>5, <1>6 DEF IsLast
      <3>2. d \in Holding(days', now)
        BY <1>5, <3>1 DEF Holding
      <3>3. Current(days', zone) \in Holding(days', now)
        BY <3>2, CurrentIs
      <3>4. Current(days', zone) = d
        <4>1. Current(days', zone) \in DOMAIN days' /\ now \in Nat
          BY <3>3, <1>0, Constants DEF Holding
        <4> QED BY <3>2, <3>3, <4>1, <1>5, HoldingOne
      <3>5. Current(days', zone) < d
        BY <1>4, <1>6
      <3> QED BY <3>4, <3>5, <2>0
    <2>2. from <= d
      <3>1. CASE DOMAIN kept = {}
        BY <3>1, <1>4, <1>6 DEF IsLast
      <3>2. CASE DOMAIN kept # {}
        <4>1. DOMAIN kept \in SUBSET (0..LastDate) /\ LastDate \in Nat
          BY Constants DEF Sound
        <4>2. PICK e \in DOMAIN kept : \A m \in DOMAIN kept : m <= e
          BY <3>2, <4>1, HasGreatest
        <4>3. e + 1 = from /\ e < d /\ e \in Nat
          BY <4>1, <4>2, <2>0, <2>1, <1>5 DEF IsLast
        <4> QED BY <4>3, <2>0, <1>0
      <3> QED BY <3>1, <3>2
    <2> QED BY <2>0, <2>1, <2>2, <1>5
  <1>7. ZoneTail'
    <2>1. \E d \in DOMAIN days' : from <= d
      <3>1. DOMAIN days' \in SUBSET (0..LastDate) /\ LastDate \in Nat
        BY <1>5, Constants DEF Sound
      <3>2. PICK e \in DOMAIN days' : \A m \in DOMAIN days' : m <= e
        BY <1>4, <3>1, HasGreatest
      <3> QED BY <3>2, <1>6 DEF IsLast
    <2>2. zoneLog' = log
      BY DEF log
    <2> QED BY <1>1, <1>4, <1>6, <2>1, <2>2 DEF ZoneTail
  <1>8. RecordsFit'
    BY <1>0, <1>1, <1>5, <1>7 DEF RecordsFit, log
  <1>9. ASSUME NEW d \in DOMAIN kept
        PROVE  kept[d].state # "open" => d \in DOMAIN days /\ kept[d] = days[d]
    BY BegunAreHere
  <1>10. SameBegun
    <2>1. ASSUME NEW d \in DOMAIN days, days[d].state # "open"
          PROVE  d \in DOMAIN days' /\ days'[d] = days[d]
      <3>1. d \in DOMAIN kept /\ kept[d] = Here[d] /\ Here[d] = days[d]
        BY <2>1, HereIs DEF Extends
      <3> QED BY <3>1, <1>5
    <2>2. ASSUME NEW d \in DOMAIN days', days'[d].state # "open"
          PROVE  d \in DOMAIN days /\ days[d].state # "open"
      <3>1. d \in DOMAIN kept /\ days'[d] = kept[d]
        BY <2>2, <1>5
      <3> QED BY <3>1, <2>2, <1>9
    <2> QED BY <2>1, <2>2 DEF SameBegun
  <1>11. MovesFit'
    <2> SUFFICES ASSUME NEW d \in DOMAIN days'
                 PROVE  /\ days'[d].state = "open" => days'[d].attempts = 0
                        /\ days'[d].state = "closing" => days'[d].attempts \in 1..2
                        /\ days'[d].state = "retry_due" => days'[d].attempts = 1
                        /\ days'[d].state # "open" =>
                             /\ days'[d].end <= now
                             /\ \A e \in DOMAIN days' : e < d => days'[e].state \in Done
      BY DEF MovesFit
    <2>1. CASE days'[d].state # "open"
      <3>1. d \in DOMAIN kept /\ d \in DOMAIN days /\ days'[d] = days[d] /\ days[d].state # "open"
        BY <2>1, <1>5, <1>9
      <3>2. ASSUME NEW e \in DOMAIN days', e < d PROVE days'[e].state \in Done
        <4>1. e \in DOMAIN kept
          BY <3>1, <3>2, <1>5
        <4>2. e \in DOMAIN days
          <5>1. e \in DOMAIN Here /\ e \notin DOMAIN days => d < e
            BY <3>1, HereIs DEF Extends
          <5> QED BY <4>1, <5>1, <3>2, <3>1, <1>5
        <4>3. days'[e] = days[e]
          BY <4>1, <4>2, <1>5, HereIs DEF Extends
        <4> QED BY <4>2, <4>3, <3>1, <3>2 DEF MovesFit
      <3> QED BY <2>1, <3>1, <3>2 DEF MovesFit
    <2>2. CASE days'[d].state = "open"
      <3>1. CASE d \in DOMAIN kept
        <4>1. days'[d] = Here[d] /\ d \in DOMAIN Here
          BY <3>1, <1>5
        <4>2. Here[d].attempts = 0
          BY <4>1, <2>2, HereIs DEF Extends, MovesFit
        <4> QED BY <4>1, <4>2, <2>2
      <3>2. CASE d \notin DOMAIN kept
        BY <3>2, <2>2, <1>5
      <3> QED BY <3>1, <3>2
    <2> QED BY <2>1, <2>2
  <1> QED BY <1>8, <1>10, <1>11

LEMMA ZoneChangeFits ==
  ASSUME RecordsFit, MovesFit, NEW zone \in Zones, EnterZoneChange(zone)
  PROVE  RecordsFit' /\ MovesFit' /\ SameBegun
  <1> DEFINE from == ChangeDate(Here, zone)
             log  == Append(zoneLog, [zone |-> zone, from |-> from])
             held == Holding(Here, now) # {}
             kept == [d \in {e \in DOMAIN Here : held /\ e < from} |-> Here[d]]
             span == Midnight(from + 1, zone) - Here[from - 1].end
  <1>1. /\ IF held THEN 0 < span /\ span < 2 * DayLength
           ELSE \A d \in DOMAIN Here : now < Here[d].start
        /\ zoneLog' = log /\ siteZone' = zone /\ now' = now
        /\ days' = Ensured(kept, log, zone)
    BY DEF EnterZoneChange
  <1>2. /\ Sound(Here) /\ Extends(Here, days, siteZone) /\ DOMAIN Here # {}
        /\ \A d : IsLast(Here, d) => Current(Here, siteZone) < d
        /\ now \in 0..MaxTime /\ now \in Nat /\ \A d \in DOMAIN Here : d \in Nat /\ Here[d] \in Day
    <2>1. /\ Sound(Here) /\ Extends(Here, days, siteZone) /\ DOMAIN Here # {}
          /\ \A d : IsLast(Here, d) => Current(Here, siteZone) < d
      BY HereIs
    <2>2. now \in 0..MaxTime /\ now \in Nat
      BY Constants DEF RecordsFit
    <2>3. \A d \in DOMAIN Here : d \in Nat /\ Here[d] \in Day
      BY <2>1, Constants DEF Sound
    <2> QED BY <2>1, <2>2, <2>3
  <1>3. /\ DOMAIN kept \subseteq DOMAIN Here /\ \A d \in DOMAIN kept : kept[d] = Here[d] /\ d < from
        /\ DOMAIN kept = {e \in DOMAIN Here : held /\ e < from}
    OBVIOUS
  <1>4. CASE held
    <2> DEFINE c == Current(Here, siteZone)
    <2>1. c \in Holding(Here, now) /\ c \in DOMAIN Here /\ c \in Nat
          /\ Here[c].start <= now /\ now < Here[c].end
      <3>1. c \in Holding(Here, now)
        BY <1>4, CurrentIs
      <3> QED BY <3>1, <1>2 DEF Holding
    <2>2. from = c + 1
      BY <1>4 DEF ChangeDate
    <2> HIDE DEF c
    <2>3. from \in Dates
      <3>1. DOMAIN Here \in SUBSET (0..LastDate) /\ LastDate \in Nat /\ Dates = 0..LastDate
        BY <1>2, Constants DEF Sound
      <3>2. PICK m \in DOMAIN Here : \A n \in DOMAIN Here : n <= m
        BY <1>2, <3>1, HasGreatest
      <3>3. c < m
        BY <3>2, <1>2 DEF IsLast, c
      <3> QED BY <2>1, <2>2, <3>1, <3>3
    <2>4. IsLast(kept, c) /\ \A d : IsLast(kept, d) => d = c
      <3>1. DOMAIN kept = {e \in DOMAIN Here : e <= c}
        BY <1>2, <1>3, <1>4, <2>1, <2>2
      <3> HIDE DEF kept
      <3> QED BY <3>1, <2>1, <1>2 DEF IsLast
    <2>5. Sound(kept)
      <3>1. \A d \in DOMAIN kept : d <= c /\ d \in DOMAIN Here
        BY <1>2, <2>1, <2>2
      <3>2. \A d \in DOMAIN Here : d <= c => d \in DOMAIN kept
        BY <1>2, <1>4, <2>1, <2>2
      <3>3. \A d, e \in DOMAIN kept : d < e => d + 1 \in DOMAIN kept
        <4> SUFFICES ASSUME NEW d \in DOMAIN kept, NEW e \in DOMAIN kept, d < e
                     PROVE  d + 1 \in DOMAIN kept
          OBVIOUS
        <4>1. d + 1 \in DOMAIN Here
          BY <3>1, <1>2 DEF Sound
        <4>2. d + 1 <= c
          BY <3>1, <1>2, <2>1
        <4> QED BY <4>1, <4>2, <3>2
      <3> HIDE DEF kept
      <3> QED BY <3>1, <3>3, <1>2, <1>3 DEF Sound
    <2>6. NextFits(kept, zone)
      <3>1. kept[c] = Here[c]
        BY <2>4, <1>3 DEF IsLast
      <3>2. from + 1 = c + 2 /\ from - 1 = c
        BY <2>1, <2>2
      <3>3. Here[c].zone \in Zones /\ Here[c].end \in Int /\ Here[c].end = Midnight(c + 1, Here[c].zone)
        BY <1>2, <2>1 DEF Sound, Day
      <3>4. Midnight(c + 2, zone) - Here[c].end = DayLength + Ahead[Here[c].zone] - Ahead[zone]
        <4>1. (c + 2) * DayLength = (c + 1) * DayLength + DayLength /\ (c + 1) * DayLength \in Int
          BY <2>1, Constants
        <4>2. Ahead[Here[c].zone] \in Nat /\ Ahead[zone] \in Nat
          BY <3>3, Constants
        <4> QED BY <3>3, <4>1, <4>2, Constants DEF Midnight
      <3>5. 0 < Midnight(c + 2, zone) - Here[c].end /\ Midnight(c + 2, zone) - Here[c].end < 2 * DayLength
        BY <1>1, <1>4, <3>2
      <3>6. Lookback <= Midnight(c + 2, zone) - Here[c].end
        <4>1. Ahead[Here[c].zone] \in Nat /\ Ahead[zone] \in Nat
          BY <3>3, Constants
        <4> QED BY <3>3, <3>4, <3>5, <4>1, ConstantsAssumption
      <3>7. c + 2 \in Int /\ Midnight(c + 2, zone) \in Int
        <4>1. c + 2 \in Int
          BY <2>1
        <4> QED BY <4>1, Midnights
      <3>8. /\ kept[c].end < Midnight(c + 2, zone)
            /\ kept[c].end + Lookback <= Midnight(c + 2, zone)
            /\ Midnight(c + 2, zone) < kept[c].end + 2 * DayLength
        BY <3>1, <3>3, <3>5, <3>6, <3>7, Constants
      <3> HIDE DEF kept
      <3> QED BY <2>4, <3>8 DEF NextFits
    <2>7. c \in Holding(kept, now)
      BY <2>1, <2>4, <1>3 DEF Holding, IsLast
    <2>8. ASSUME NEW d \in DOMAIN days, days[d].state # "open" PROVE d \in DOMAIN kept
      <3>1. d \in DOMAIN Here /\ Here[d] = days[d]
        BY <1>2 DEF Extends
      <3>2. Here[d].end <= now
        BY <2>8, <3>1 DEF MovesFit
      <3>3. Here[d].start < Here[d].end /\ Here[d].start \in Int /\ Here[d].end \in Int
        BY <1>2, <3>1 DEF Sound, Day
      <3>4. ~(c < d)
        BY <1>2, <2>1, <3>1, <3>2, <3>3, HoldingOne
      <3>5. d < from
        BY <3>1, <3>4, <2>1, <2>2, <1>2
      <3> QED BY <1>4, <3>1, <3>5
    <2>9. DOMAIN kept # {}
      BY <2>4 DEF IsLast
    <2> HIDE DEF kept, from
    <2> QED BY <1>1, <1>3, <2>2, <2>3, <2>4, <2>5, <2>6, <2>7, <2>8, <2>9, RemadeFits
  <1>5. CASE ~held
    <2>1. DOMAIN kept = {} /\ from = LocalDate(now, zone) + 1
      BY <1>5 DEF ChangeDate
    <2>2. from \in Dates
      <3>1. LocalDate(now, zone) \in 0..(LastDate - 2)
        BY <1>2, LocalDates
      <3> QED BY <2>1, <3>1, Constants
    <2>3. Sound(kept) /\ NextFits(kept, zone)
      <3> HIDE DEF kept
      <3> QED BY <2>1 DEF Sound, NextFits
    <2>4. ASSUME NEW d \in DOMAIN days, days[d].state # "open" PROVE FALSE
      <3>1. d \in DOMAIN Here /\ Here[d] = days[d]
        BY <1>2 DEF Extends
      <3>2. Here[d].end <= now
        BY <2>4, <3>1 DEF MovesFit
      <3>3. Here[d].start < Here[d].end /\ Here[d].start \in Int /\ Here[d].end \in Int
        BY <1>2, <3>1 DEF Sound, Day
      <3>4. now < Here[d].start
        BY <1>1, <1>5, <3>1
      <3> QED BY <3>2, <3>3, <3>4, <1>2
    <2> HIDE DEF kept, from
    <2> QED BY <1>1, <1>3, <2>1, <2>2, <2>3, <2>4, RemadeFits
  <1> QED BY <1>4, <1>5

-----------------------------------------------------------------------------
(* The lists and the flags.                                                *)

\* Counts, of any checks.
CountsIn(chk, d, s) ==
  LET before == {e \in Dates : e < d /\ s \in chk[e].counted \cup chk[e].aside}
  IN  before = {} \/ s \in chk[TopOf(before)].counted

ListFits(log, chk, d, saved, flagged) ==
  saved = StationList(log, d) /\ flagged = {s \in saved : CountsIn(chk, d, s)}

LEMMA ListsAre ==
  /\ ListsFollowLogs <=>
       \A d \in DOMAIN days : ListFits(changeLog, checks, d, list[d], counted[d])
  /\ ListsFollowLogs' <=>
       \A d \in DOMAIN days' : ListFits(changeLog', checks', d, list'[d], counted'[d])
  BY DEF ListsFollowLogs, ListFits, CountsIn, Counts, Judged

LEMMA EnsureLists ==
  ASSUME RecordsFit, DataFit, ListsFollowLogs, Ensure, KeepLogs
  PROVE  /\ ListsFollowLogs' /\ DOMAIN list' = DOMAIN days' /\ DOMAIN counted' = DOMAIN days'
         /\ days' = Here
  <1>1. /\ days' = Here
        /\ IF Here = days THEN UNCHANGED <<list, counted>>
           ELSE WriteLists(changeLog, NewDates(Here), Here)
    BY DEF Ensure
  <1>2. DOMAIN days \subseteq DOMAIN Here /\ checks' = checks /\ changeLog' = changeLog
    BY HereIs DEF Extends, KeepLogs
  <1>3. \A d \in DOMAIN days : ListFits(changeLog, checks, d, list[d], counted[d])
    BY ListsAre
  <1>4. CASE Here = days
    <2>1. list' = list /\ counted' = counted /\ days' = days
      BY <1>1, <1>4
    <2> QED BY <2>1, <1>1, <1>2, <1>3, ListsAre DEF DataFit
  <1>5. CASE Here # days
    <2>1. /\ DOMAIN list' = DOMAIN Here /\ DOMAIN counted' = DOMAIN Here
          /\ \A d \in DOMAIN Here : d \notin DOMAIN days =>
               /\ list'[d] = StationList(changeLog, d)
               /\ counted'[d] = {s \in StationList(changeLog, d) : CountsIn(checks, d, s)}
          /\ \A d \in DOMAIN days : list'[d] = list[d] /\ counted'[d] = counted[d]
      BY <1>1, <1>2, <1>5 DEF WriteLists, NewDates, Counts, CountsIn, Judged
    <2>2. \A d \in DOMAIN days' : ListFits(changeLog', checks', d, list'[d], counted'[d])
      BY <1>1, <1>2, <1>3, <2>1 DEF ListFits
    <2> QED BY <1>1, <2>1, <2>2, ListsAre
  <1> QED BY <1>4, <1>5

LEMMA ZoneChangeLists ==
  ASSUME RecordsFit, DataFit, ListsFollowLogs, NEW zone \in Zones, EnterZoneChange(zone)
  PROVE  ListsFollowLogs' /\ DOMAIN list' = DOMAIN days' /\ DOMAIN counted' = DOMAIN days'
  <1>1. PICK ds : /\ WriteLists(changeLog, ds, days')
                  /\ \A d \in DOMAIN days' : d \notin ds => d \in DOMAIN days
    <2> DEFINE from == ChangeDate(Here, zone)
               log  == Append(zoneLog, [zone |-> zone, from |-> from])
               held == Holding(Here, now) # {}
               kept == [d \in {e \in DOMAIN Here : held /\ e < from} |-> Here[d]]
    <2>1. WriteLists(changeLog, DOMAIN days' \ (DOMAIN kept \cap DOMAIN days), days')
      BY DEF EnterZoneChange
    <2> HIDE DEF kept
    <2> QED BY <2>1
  <1>2. checks' = checks /\ changeLog' = changeLog
    BY DEF EnterZoneChange, KeepLogs
  <1>3. \A d \in DOMAIN days : ListFits(changeLog, checks, d, list[d], counted[d])
    BY ListsAre
  <1>4. /\ DOMAIN list' = DOMAIN days' /\ DOMAIN counted' = DOMAIN days'
        /\ \A d \in DOMAIN days' : d \in ds =>
             /\ list'[d] = StationList(changeLog, d)
             /\ counted'[d] = {s \in StationList(changeLog, d) : CountsIn(checks, d, s)}
        /\ \A d \in DOMAIN days' : d \notin ds => list'[d] = list[d] /\ counted'[d] = counted[d]
    BY <1>1 DEF WriteLists, Counts, CountsIn, Judged
  <1>5. \A d \in DOMAIN days' : ListFits(changeLog', checks', d, list'[d], counted'[d])
    BY <1>1, <1>2, <1>3, <1>4 DEF ListFits
  <1> QED BY <1>4, <1>5, ListsAre

\* The current date is one after every day begun, and has a day after it.
LEMMA CurrentIsOpen ==
  ASSUME RecordsFit, MovesFit
  PROVE  /\ Current(Here, siteZone) \in Dates /\ Current(Here, siteZone) + 1 \in Dates
         /\ \A d \in DOMAIN Here : Here[d].state # "open" => d < Current(Here, siteZone)
  <1> DEFINE c == Current(Here, siteZone)
  <1>1. /\ Sound(Here) /\ Extends(Here, days, siteZone) /\ DOMAIN Here # {}
        /\ \A d : IsLast(Here, d) => c < d /\ Here[d].zone = siteZone
    BY HereIs
  <1>2. now \in 0..MaxTime /\ now \in Nat /\ siteZone \in Zones
    BY Constants DEF RecordsFit
  <1>3. \A d \in DOMAIN Here : d \in Nat /\ d <= LastDate /\ Here[d] \in Day
    BY <1>1, Constants DEF Sound
  <1>4. PICK m : IsLast(Here, m)
    <2>1. DOMAIN Here \in SUBSET (0..LastDate) /\ LastDate \in Nat
      BY <1>1, Constants DEF Sound
    <2>2. PICK m \in DOMAIN Here : \A n \in DOMAIN Here : n <= m
      BY <1>1, <2>1, HasGreatest
    <2> QED BY <2>2 DEF IsLast
  <1>5. m \in DOMAIN Here /\ c < m /\ Here[m].zone = siteZone /\ m \in Nat /\ m <= LastDate
    BY <1>1, <1>3, <1>4 DEF IsLast
  <1>6. c \in Nat
    <2>1. CASE Holding(Here, now) # {}
      BY <2>1, <1>3, CurrentIs DEF Holding
    <2>2. CASE Holding(Here, now) = {}
      <3>1. LocalDate(now, siteZone) \in 0..(LastDate - 2)
        BY <1>2, LocalDates
      <3> QED BY <2>2, <3>1, CurrentIs
    <2> QED BY <2>1, <2>2
  <1>7. ASSUME NEW d \in DOMAIN Here, Here[d].state # "open" PROVE d < c
    <2>1. Here[d].end <= now
      BY <1>7, BegunAreHere DEF MovesFit
    <2>2. Here[d].start < Here[d].end /\ Here[d].start \in Int /\ Here[d].end \in Int /\ d \in Nat
      BY <1>1, <1>3 DEF Sound, Day
    <2>3. CASE Holding(Here, now) # {}
      <3>1. c \in Holding(Here, now) /\ now < Here[c].end
        BY <2>3, CurrentIs DEF Holding
      <3>2. ~(c < d)
        BY <1>1, <1>2, <2>1, <2>2, <3>1, HoldingOne
      <3>3. c # d
        BY <2>1, <2>2, <3>1, <1>2
      <3> HIDE DEF c
      <3> QED BY <3>2, <3>3, <2>2, <1>6
    <2>4. CASE Holding(Here, now) = {}
      <3>1. c = LocalDate(now, siteZone)
        BY <2>4, CurrentIs
      <3>2. now < Midnight(m, siteZone)
        <4>1. m \in Int /\ LocalDate(now, siteZone) < m
          BY <3>1, <1>5
        <4> QED BY <4>1, <1>2, LocalDates
      <3>3. now < Here[m].end
        <4>1. Here[m].end = Midnight(m + 1, siteZone)
          BY <1>1, <1>5 DEF Sound
        <4>2. Midnight(m, siteZone) \in Int /\ Midnight(m + 1, siteZone) = Midnight(m, siteZone) + DayLength
          <5>1. m \in Int
            BY <1>5
          <5> QED BY <5>1, <1>2, Midnights
        <4> QED BY <3>2, <4>1, <4>2, <1>2, Constants
      <3>4. Here[d].start <= now
        BY <2>1, <2>2, <1>2
      <3>5. FALSE
        BY <1>1, <1>2, <1>5, <2>4, <3>3, <3>4, HoldingExists
      <3> QED BY <3>5
    <2> QED BY <2>3, <2>4
  <1>8. c \in Dates /\ c + 1 \in Dates
    <2> HIDE DEF c
    <2> QED BY <1>5, <1>6, Constants
  <1> QED BY <1>7, <1>8

LEMMA StationChangeLists ==
  ASSUME RecordsFit, MovesFit, DataFit, ListsFollowLogs,
         NEW s \in Stations, NEW joins \in BOOLEAN, RecordChange(s, joins)
  PROVE  /\ ListsFollowLogs' /\ DOMAIN list' = DOMAIN days' /\ DOMAIN counted' = DOMAIN days'
         /\ days' = Here /\ changeLog' \in Seq(StationChange)
         /\ \A d \in DOMAIN days : days[d].state # "open" => list'[d] = list[d]
  <1> DEFINE c    == Current(Here, siteZone)
             from == IF joins THEN c + 1 ELSE c
             new  == [station |-> s, joins |-> joins, from |-> from]
             ds   == NewDates(Here) \cup Rewritten(Here, from)
  <1>1. /\ changeLog' = Append(changeLog, new) /\ days' = Here
        /\ WriteLists(Append(changeLog, new), ds, Here)
    BY DEF RecordChange
  <1>2. /\ c \in Dates /\ c + 1 \in Dates
        /\ \A d \in DOMAIN Here : Here[d].state # "open" => d < c
    BY CurrentIsOpen
  <1>3. from \in Dates /\ c <= from /\ c \in Nat
    <2> HIDE DEF c
    <2> QED BY <1>2, Constants
  <1> HIDE DEF c, from
  <1>4. new \in StationChange
    BY <1>3 DEF StationChange
  <1> HIDE DEF new
  <1>5. changeLog \in Seq(StationChange) /\ checks' = checks
    BY DEF DataFit, RecordChange
  <1>6. \A d \in DOMAIN Here : d \in Dates /\ d \in Nat
    BY HereIs, Constants DEF Sound
  <1>7. \A d \in DOMAIN Here : d < from => StationList(changeLog', d) = StationList(changeLog, d)
    <2>1. new.from = from
      BY DEF new
    <2> QED BY <1>1, <1>4, <1>5, <1>6, <2>1, ListBefore
  <1>8. \A d \in DOMAIN Here : d \notin ds => d \in DOMAIN days /\ d < from
    <2> SUFFICES ASSUME NEW d \in DOMAIN Here, d \notin ds PROVE d \in DOMAIN days /\ d < from
      OBVIOUS
    <2>1. d \in DOMAIN days
      BY DEF NewDates
    <2>2. Here[d].state = "open" => ~(from <= d)
      BY DEF Rewritten
    <2>3. Here[d].state # "open" => d < from
      BY <1>2, <1>3, <1>6, Constants
    <2> QED BY <2>1, <2>2, <2>3, <1>3, <1>6, Constants
  <1> HIDE DEF ds
  <1>9. /\ DOMAIN list' = DOMAIN Here /\ DOMAIN counted' = DOMAIN Here
        /\ \A d \in DOMAIN Here : d \in ds =>
             /\ list'[d] = StationList(changeLog', d)
             /\ counted'[d] = {r \in StationList(changeLog', d) : CountsIn(checks, d, r)}
        /\ \A d \in DOMAIN Here : d \notin ds => list'[d] = list[d] /\ counted'[d] = counted[d]
    BY <1>1 DEF WriteLists, Counts, CountsIn, Judged
  <1>10. \A d \in DOMAIN days : ListFits(changeLog, checks, d, list[d], counted[d])
    BY ListsAre
  <1>11. \A d \in DOMAIN days' : ListFits(changeLog', checks', d, list'[d], counted'[d])
    BY <1>1, <1>5, <1>7, <1>8, <1>9, <1>10 DEF ListFits
  <1>12. ASSUME NEW d \in DOMAIN days, days[d].state # "open" PROVE list'[d] = list[d]
    <2>1. d \in DOMAIN Here /\ Here[d] = days[d]
      BY HereIs DEF Extends
    <2>2. d < from
      BY <2>1, <1>2, <1>3, <1>6, <1>12, Constants
    <2> QED BY <2>1, <2>2, <1>1, <1>7, <1>10, <1>11 DEF ListFits
  <1>13. changeLog' \in Seq(StationChange)
    BY <1>1, <1>4, <1>5
  <1> QED BY <1>1, <1>9, <1>11, <1>12, <1>13, ListsAre

\* A check of the closing day is every later day's latest.
LEMMA CheckLists ==
  ASSUME RecordsFit, MovesFit, DataFit, ListsFollowLogs, ChecksFit,
         NEW d \in ClosingDay, NEW aside \in SUBSET list[d],
         checks' = [checks EXCEPT ![d] = [counted |-> list[d] \ aside, aside |-> aside]],
         counted' = Flagged(d, aside), UNCHANGED <<days, list, changeLog>>
  PROVE  ListsFollowLogs'
  <1> DEFINE In(chk, e, s) == {f \in Dates : f < e /\ s \in chk[f].counted \cup chk[f].aside}
  <1>1. d \in DOMAIN days /\ d \in Dates /\ days[d].state = "closing" /\ \A e \in Dates : e \in Nat
    BY Constants DEF ClosingDay, RecordsFit, Sound
  <1>2. \A e \in DOMAIN days : ListFits(changeLog, checks, e, list[e], counted[e])
    BY ListsAre
  <1>3. /\ \A f \in Dates : f # d => checks'[f] = checks[f]
        /\ checks'[d].counted = list[d] \ aside /\ checks'[d].aside = aside
    BY <1>1 DEF DataFit
  <1>4. \A f \in Dates : \A s : s \in checks[f].counted \cup checks[f].aside => f <= d
    <2> SUFFICES ASSUME NEW f \in Dates, NEW s, s \in checks[f].counted \cup checks[f].aside
                 PROVE  ~(d < f)
      BY <1>1
    <2>1. f \in DOMAIN days /\ days[f].state # "open"
      BY DEF ChecksFit
    <2> QED BY <2>1, <1>1 DEF MovesFit, Done
  <1>5. \A s : s \in checks[d].counted \cup checks[d].aside => s \in list[d]
    BY <1>1 DEF ChecksFit
  <1>6. ASSUME NEW e \in DOMAIN days, NEW s, ~(d < e) \/ s \notin list[d]
        PROVE  CountsIn(checks', e, s) <=> CountsIn(checks, e, s)
    <2>1. e \in Nat /\ e \in Dates /\ d \in Nat
      BY <1>1 DEF RecordsFit, Sound
    <2>2. In(checks', e, s) = In(checks, e, s) /\ d \notin In(checks, e, s)
      <3>1. d \notin In(checks, e, s) /\ d \notin In(checks', e, s)
        BY <1>3, <1>5, <1>6, <2>1
      <3> QED BY <3>1, <1>3
    <2>3. In(checks, e, s) # {} => TopOf(In(checks, e, s)) \in In(checks, e, s)
      <3>1. In(checks, e, s) \in SUBSET (0..LastDate) /\ LastDate \in Nat
        BY Constants
      <3> HIDE DEF In
      <3> QED BY <3>1, TopIsGreatest
    <2>4. In(checks, e, s) # {} => checks'[TopOf(In(checks, e, s))] = checks[TopOf(In(checks, e, s))]
      <3>1. In(checks, e, s) \subseteq Dates
        OBVIOUS
      <3> HIDE DEF In
      <3> QED BY <3>1, <2>2, <2>3, <1>3
    <2>5. \A chk : CountsIn(chk, e, s) <=> In(chk, e, s) = {} \/ s \in chk[TopOf(In(chk, e, s))].counted
      BY DEF CountsIn
    <2> HIDE DEF In
    <2> QED BY <2>2, <2>4, <2>5
  <1>7. ASSUME NEW e \in DOMAIN days, d < e, NEW s \in list[d]
        PROVE  CountsIn(checks', e, s) <=> s \notin aside
    <2>1. e \in Nat /\ e \in Dates /\ d \in Nat
      BY <1>1 DEF RecordsFit, Sound
    <2>2. d \in In(checks', e, s)
      BY <1>1, <1>3, <1>7
    <2>3. \A f \in In(checks', e, s) : f <= d
      BY <1>3, <1>4, <2>1
    <2>4. TopOf(In(checks', e, s)) = d
      <3>1. In(checks', e, s) \in SUBSET (0..LastDate) /\ LastDate \in Nat
        BY Constants
      <3> HIDE DEF In
      <3> QED BY <2>2, <2>3, <3>1, TopIs
    <2>5. CountsIn(checks', e, s) <=>
            In(checks', e, s) = {} \/ s \in checks'[TopOf(In(checks', e, s))].counted
      BY DEF CountsIn
    <2> HIDE DEF In
    <2> QED BY <1>3, <1>7, <2>2, <2>4, <2>5
  <1>8. ASSUME NEW e \in DOMAIN days PROVE counted'[e] = {s \in list[e] : CountsIn(checks', e, s)}
    <2>1. counted[e] = {s \in list[e] : CountsIn(checks, e, s)}
      BY <1>2 DEF ListFits
    <2>2. CASE ~(d < e)
      <3>1. counted'[e] = counted[e]
        BY <2>2 DEF Flagged
      <3> QED BY <3>1, <2>1, <2>2, <1>6
    <2>3. CASE d < e
      <3>1. counted'[e] = (counted[e] \cup (list[d] \cap list[e])) \ aside
        BY <2>3 DEF Flagged
      <3>2. ASSUME NEW s \in list[e] PROVE s \in counted'[e] <=> CountsIn(checks', e, s)
        <4>1. CASE s \in list[d]
          BY <4>1, <3>1, <2>3, <1>7
        <4>2. CASE s \notin list[d]
          BY <4>2, <3>1, <2>1, <1>6
        <4> QED BY <4>1, <4>2
      <3>3. counted'[e] \subseteq list[e]
        BY <3>1, <2>1
      <3> QED BY <3>2, <3>3
    <2> QED BY <2>2, <2>3
  <1>9. \A e \in DOMAIN days' : ListFits(changeLog', checks', e, list'[e], counted'[e])
    BY <1>2, <1>8 DEF ListFits
  <1> QED BY <1>9, ListsAre

-----------------------------------------------------------------------------
(* What a step does to the rest.                                           *)

\* The lists of the days begun are the same before and after.
BegunListsKept ==
  \A d \in DOMAIN days : days[d].state # "open" => list'[d] = list[d]

LEMMA ListsKept ==
  ASSUME ListsFollowLogs, ListsFollowLogs', SameBegun, changeLog' = changeLog
  PROVE  BegunListsKept
  <1> SUFFICES ASSUME NEW d \in DOMAIN days, days[d].state # "open"
               PROVE  list'[d] = list[d]
    BY DEF BegunListsKept
  <1>1. d \in DOMAIN days'
    BY DEF SameBegun
  <1>2. list[d] = StationList(changeLog, d)
    BY DEF ListsFollowLogs
  <1>3. list'[d] = StationList(changeLog', d)
    BY <1>1, ListsAre DEF ListFits
  <1> QED BY <1>2, <1>3

\* A day whose hourly values are final: it is closed, or about to be.
Final(d) == days[d].state = "closed" \/ (days[d].state = "closing" /\ stage = "truth")

\* A step that begins and ends no day, and whose readings are for no final one.
LEMMA SteadyFits ==
  ASSUME ChecksFit, SourcesFit, StageFit, SameBegun, BegunListsKept,
         UNCHANGED <<checks, hourly, stage>>,
         raw \cup gone \subseteq raw' \cup gone',
         \A r \in raw' \cup gone', d \in DOMAIN days : Final(d) =>
           \/ r \in raw \cup gone
           \/ ~(days[d].start - Lookback <= r.at /\ r.at < days[d].end)
  PROVE  ChecksFit' /\ SourcesFit' /\ StageFit'
  <1>1. ChecksFit'
    <2> SUFFICES ASSUME NEW d \in Dates, checks[d].counted \cup checks[d].aside # {}
                 PROVE  /\ d \in DOMAIN days' /\ days'[d].state # "open"
                        /\ checks[d].counted \cup checks[d].aside = list'[d]
                        /\ checks[d].counted \cap checks[d].aside = {}
      BY DEF ChecksFit
    <2>1. /\ d \in DOMAIN days /\ days[d].state # "open"
          /\ checks[d].counted \cup checks[d].aside = list[d]
          /\ checks[d].counted \cap checks[d].aside = {}
      BY DEF ChecksFit
    <2> QED BY <2>1 DEF SameBegun, BegunListsKept
  <1>2. SourcesFit'
    <2> SUFFICES ASSUME NEW d \in DOMAIN days',
                        days'[d].state = "closed" \/ (days'[d].state = "closing" /\ stage = "truth")
                 PROVE  hourly[d] = {r \in raw' \cup gone' :
                           /\ r.station \in list'[d]
                           /\ days'[d].start - Lookback <= r.at /\ r.at < days'[d].end}
      BY DEF SourcesFit, Sources
    <2>1. d \in DOMAIN days /\ days[d].state # "open"
      BY DEF SameBegun
    <2>2. days'[d] = days[d] /\ list'[d] = list[d]
      BY <2>1 DEF SameBegun, BegunListsKept
    <2>3. Final(d)
      BY <2>2 DEF Final
    <2>4. hourly[d] = Sources(d)
      BY <2>1, <2>3 DEF SourcesFit, Final
    <2>5. \A r \in raw' \cup gone' :
            days[d].start - Lookback <= r.at /\ r.at < days[d].end => r \in raw \cup gone
      BY <2>1, <2>3
    <2> QED BY <2>2, <2>4, <2>5 DEF Sources
  <1>3. StageFit'
    <2>1. \A d : d \in ClosingDay <=> d \in ClosingDay'
      BY DEF SameBegun, ClosingDay
    <2> QED BY <2>1 DEF StageFit
  <1> QED BY <1>1, <1>2, <1>3

LEMMA GoneKept ==
  ASSUME GoneFit, SameBegun, NEW r \in gone
  PROVE  \E d \in DOMAIN days' :
           /\ days'[d].start <= r.at /\ r.at < days'[d].end /\ d + 1 \in DOMAIN days'
           /\ days'[d].state \in Done /\ days'[d + 1].state \in Done
  <1>1. PICK d \in DOMAIN days :
           /\ days[d].start <= r.at /\ r.at < days[d].end /\ d + 1 \in DOMAIN days
           /\ days[d].state \in Done /\ days[d + 1].state \in Done
    BY DEF GoneFit
  <1>2. d \in DOMAIN days' /\ days'[d] = days[d]
    BY <1>1 DEF SameBegun, Done
  <1>3. d + 1 \in DOMAIN days' /\ days'[d + 1] = days[d + 1]
    BY <1>1 DEF SameBegun, Done
  <1> QED BY <1>1, <1>2, <1>3

\* A transaction that makes the missing records and their lists.
LEMMA EnsureFits ==
  ASSUME Inv, Ensure, KeepSite, KeepLogs
  PROVE  /\ RecordsFit' /\ MovesFit' /\ ListsFollowLogs' /\ SameBegun /\ BegunListsKept
         /\ DOMAIN list' = DOMAIN days' /\ DOMAIN counted' = DOMAIN days' /\ days' = Here
  <1>1. /\ ListsFollowLogs' /\ DOMAIN list' = DOMAIN days' /\ DOMAIN counted' = DOMAIN days'
        /\ days' = Here
    BY EnsureLists DEF Inv
  <1>2. RecordsFit' /\ MovesFit' /\ SameBegun
    BY <1>1, GrowFits DEF Inv, KeepSite
  <1>3. BegunListsKept
    BY <1>1, <1>2, ListsKept DEF Inv, KeepLogs
  <1> QED BY <1>1, <1>2, <1>3

LEMMA TickFits ==
  ASSUME Inv, Tick
  PROVE  Inv'
  <1>1. /\ RecordsFit' /\ MovesFit' /\ ListsFollowLogs' /\ SameBegun /\ BegunListsKept
        /\ DOMAIN list' = DOMAIN days' /\ DOMAIN counted' = DOMAIN days'
    BY EnsureFits DEF Tick
  <1>2. UNCHANGED <<enabled, changeLog, checks, raw, hourly, stage, prunedTo, gone>>
    BY DEF Tick, KeepLogs, dataVars
  <1>3. DataFit'
    BY <1>1, <1>2 DEF Inv, DataFit
  <1>4. ChecksFit' /\ SourcesFit' /\ StageFit'
    BY <1>1, <1>2, SteadyFits DEF Inv
  <1>5. GoneFit'
    BY <1>1, <1>2, GoneKept DEF Inv, GoneFit
  <1> QED BY <1>1, <1>3, <1>4, <1>5 DEF Inv

LEMMA EnterZoneChangeFits ==
  ASSUME Inv, NEW zone \in Zones, EnterZoneChange(zone)
  PROVE  Inv'
  <1>1. RecordsFit' /\ MovesFit' /\ SameBegun
    BY ZoneChangeFits DEF Inv
  <1>2. ListsFollowLogs' /\ DOMAIN list' = DOMAIN days' /\ DOMAIN counted' = DOMAIN days'
    BY ZoneChangeLists DEF Inv
  <1>3. UNCHANGED <<enabled, changeLog, checks, raw, hourly, stage, prunedTo, gone>>
    BY DEF EnterZoneChange, KeepLogs, dataVars
  <1>4. BegunListsKept
    BY <1>1, <1>2, <1>3, ListsKept DEF Inv
  <1>5. DataFit'
    BY <1>2, <1>3 DEF Inv, DataFit
  <1>6. ChecksFit' /\ SourcesFit' /\ StageFit'
    BY <1>1, <1>3, <1>4, SteadyFits DEF Inv
  <1>7. GoneFit'
    BY <1>1, <1>3, GoneKept DEF Inv, GoneFit
  <1> QED BY <1>1, <1>2, <1>5, <1>6, <1>7 DEF Inv

\* The logs of stations: one turned on, off, or deleted.
LEMMA RecordChangeFits ==
  ASSUME Inv, NEW s \in Stations, NEW joins \in BOOLEAN, RecordChange(s, joins),
         enabled' \subseteq Stations
  PROVE  Inv'
  <1>1. /\ ListsFollowLogs' /\ DOMAIN list' = DOMAIN days' /\ DOMAIN counted' = DOMAIN days'
        /\ days' = Here /\ changeLog' \in Seq(StationChange) /\ BegunListsKept
    BY StationChangeLists DEF Inv, BegunListsKept
  <1>2. /\ UNCHANGED <<now, siteZone, zoneLog>>
        /\ UNCHANGED <<checks, raw, hourly, stage, prunedTo, gone>>
    BY DEF RecordChange, KeepSite, dataVars
  <1>3. RecordsFit' /\ MovesFit' /\ SameBegun
    BY <1>1, <1>2, GrowFits DEF Inv
  <1>4. DataFit'
    BY <1>1, <1>2 DEF Inv, DataFit
  <1>5. ChecksFit' /\ SourcesFit' /\ StageFit'
    BY <1>1, <1>2, <1>3, SteadyFits DEF Inv
  <1>6. GoneFit'
    BY <1>2, <1>3, GoneKept DEF Inv, GoneFit
  <1> QED BY <1>1, <1>3, <1>4, <1>5, <1>6 DEF Inv

LEMMA StationsFit ==
  ASSUME Inv, NEW s \in Stations, TurnOn(s) \/ TurnOff(s)
  PROVE  Inv'
  <1>0. enabled \subseteq Stations
    BY DEF Inv, DataFit
  <1>1. CASE TurnOn(s)
    BY <1>0, <1>1, RecordChangeFits DEF TurnOn
  <1>2. CASE TurnOff(s)
    BY <1>0, <1>2, RecordChangeFits DEF TurnOff
  <1> QED BY <1>1, <1>2

\* A reading is taken only for a day that is not final.
LEMMA StoreFits ==
  ASSUME Inv, NEW s \in Stations, NEW t \in Nat, NEW kind \in {"READING", "GAP_FILL"},
         kind = "GAP_FILL" => stage = "fill", Store(s, t, kind)
  PROVE  Inv'
  <1> DEFINE r == [station |-> s, at |-> t]
  <1>1. /\ RecordsFit' /\ MovesFit' /\ ListsFollowLogs' /\ SameBegun /\ BegunListsKept
        /\ DOMAIN list' = DOMAIN days' /\ DOMAIN counted' = DOMAIN days'
    BY EnsureFits DEF Store
  <1>2. UNCHANGED <<enabled, changeLog, checks, hourly, stage, prunedTo, gone>>
    BY DEF Store, KeepLogs
  <1>3. raw' = raw \cup {r} /\ r \in Reading /\ r.at = t
    BY DEF Store, Reading
  <1> HIDE DEF r
  <1>4. PICK d \in Holding(Here, t) : kind \in StateKinds(Here[d].state)
    BY DEF Store, MayWrite
  <1>5. /\ d \in DOMAIN Here
        /\ \/ kind = "READING" /\ Here[d].state = "open"
           \/ kind = "GAP_FILL" /\ Here[d].state = "closing"
    BY <1>4 DEF Holding, StateKinds
  <1>6. ASSUME NEW e \in DOMAIN days, Final(e)
        PROVE  ~(days[e].start - Lookback <= t /\ t < days[e].end)
    <2>1. e \in DOMAIN Here /\ Here[e] = days[e] /\ Sound(Here) /\ days[e].state # "open"
      BY <1>6, HereIs DEF Inv, Extends, Final
    <2>2. d # e
      BY <1>5, <1>6, <2>1 DEF Final
    <2>3. d \in Nat /\ e \in Nat /\ Here[e] \in Day
      BY <1>5, <2>1, Constants DEF Sound
    <2>4. ~(d < e)
      <3>1. Here[d].state \notin Done
        BY <1>5 DEF Done
      <3>2. d \in DOMAIN days => days[d] = Here[d]
        BY HereIs DEF Inv, Extends
      <3>3. d \notin DOMAIN days => e < d
        BY <1>5, HereIs DEF Inv, Extends
      <3>4. d \in DOMAIN days /\ d < e => days[d].state \in Done
        BY <2>1 DEF Inv, MovesFit
      <3> QED BY <3>1, <3>2, <3>3, <3>4, <2>3
    <2>5. Here[e].end <= t
      BY <2>1, <2>2, <2>3, <2>4, HoldingOne
    <2> QED BY <2>1, <2>3, <2>5 DEF Day
  <1>7. DataFit'
    BY <1>1, <1>2, <1>3 DEF Inv, DataFit
  <1>8. ChecksFit' /\ SourcesFit' /\ StageFit'
    <2>1. raw \cup gone \subseteq raw' \cup gone'
      BY <1>2, <1>3
    <2>2. \A q \in raw' \cup gone', e \in DOMAIN days : Final(e) =>
            \/ q \in raw \cup gone
            \/ ~(days[e].start - Lookback <= q.at /\ q.at < days[e].end)
      BY <1>2, <1>3, <1>6
    <2> QED BY <1>1, <1>2, <2>1, <2>2, SteadyFits DEF Inv
  <1>9. GoneFit'
    BY <1>1, <1>2, GoneKept DEF Inv, GoneFit
  <1> QED BY <1>1, <1>7, <1>8, <1>9 DEF Inv

LEMMA PruneFits ==
  ASSUME Inv, Prune
  PROVE  Inv'
  <1> DEFINE left == {d \in DOMAIN Here : prunedTo < d}
             due  == {d \in left : \A e \in left : e <= d => PruneDue(Here, e)}
             old  == {r \in raw : \E d \in due : Here[d].start <= r.at /\ r.at < Here[d].end}
  <1>1. /\ due # {} /\ raw' = raw \ old /\ gone' = gone \cup old /\ prunedTo' = TopOf(due)
        /\ Ensure /\ KeepSite /\ KeepLogs /\ UNCHANGED <<hourly, stage>>
    BY DEF Prune
  <1>2. /\ RecordsFit' /\ MovesFit' /\ ListsFollowLogs' /\ SameBegun /\ BegunListsKept
        /\ DOMAIN list' = DOMAIN days' /\ DOMAIN counted' = DOMAIN days' /\ days' = Here
    BY <1>1, EnsureFits
  <1>3. UNCHANGED <<enabled, changeLog, checks, hourly, stage>>
    BY <1>1 DEF KeepLogs
  <1>4. due \in SUBSET (0..LastDate) /\ LastDate \in Nat /\ Dates = 0..LastDate
    BY HereIs, Constants DEF Inv, Sound
  <1>5. \A d \in due : PruneDue(Here, d)
    BY <1>4
  <1>6. old \subseteq raw
    OBVIOUS
  <1>7. \A r \in old : \E d \in due : Here[d].start <= r.at /\ r.at < Here[d].end
    OBVIOUS
  <1>8. due \subseteq DOMAIN Here
    OBVIOUS
  <1> HIDE DEF old, due, left
  <1>9. TopOf(due) \in Dates
    BY <1>1, <1>4, TopIsGreatest
  <1>10. DataFit'
    BY <1>1, <1>2, <1>3, <1>6, <1>9 DEF Inv, DataFit
  <1>11. ChecksFit' /\ SourcesFit' /\ StageFit'
    <2>1. raw' \cup gone' = raw \cup gone
      BY <1>1, <1>6
    <2> QED BY <1>2, <1>3, <2>1, SteadyFits DEF Inv
  <1>12. GoneFit'
    <2>1. ASSUME NEW r \in old
          PROVE  \E d \in DOMAIN days' :
                   /\ days'[d].start <= r.at /\ r.at < days'[d].end /\ d + 1 \in DOMAIN days'
                   /\ days'[d].state \in Done /\ days'[d + 1].state \in Done
      <3>1. PICK d \in due : Here[d].start <= r.at /\ r.at < Here[d].end
        BY <1>7
      <3>2. /\ d + 1 \in DOMAIN Here /\ Here[d].state \in Done /\ Here[d + 1].state \in Done
        BY <1>5 DEF PruneDue
      <3> QED BY <3>1, <3>2, <1>2, <1>8
    <2>2. ASSUME NEW r \in gone
          PROVE  \E d \in DOMAIN days' :
                   /\ days'[d].start <= r.at /\ r.at < days'[d].end /\ d + 1 \in DOMAIN days'
                   /\ days'[d].state \in Done /\ days'[d + 1].state \in Done
      BY <1>2, GoneKept DEF Inv
    <2> QED BY <1>1, <2>1, <2>2 DEF GoneFit
  <1> QED BY <1>2, <1>10, <1>11, <1>12 DEF Inv

\* What a close derives a day's values from is all there ever was for the day.
LEMMA HourlyStageFits ==
  ASSUME Inv, NEW d \in DOMAIN days, NEW aside \in SUBSET Stations, HourlyStage(d, aside)
  PROVE  Inv'
  <1>1. /\ d \in ClosingDay /\ aside \in SUBSET list[d]
        /\ hourly' = [hourly EXCEPT ![d] = DayReadings(d)]
        /\ checks' = [checks EXCEPT ![d] = [counted |-> list[d] \ aside, aside |-> aside]]
        /\ counted' = Flagged(d, aside) /\ stage' = "truth"
        /\ UNCHANGED <<now, siteZone, zoneLog, days, enabled, changeLog, list, raw, prunedTo, gone>>
    BY DEF HourlyStage, recordVars
  <1>2. /\ d \in Dates /\ d \in Nat /\ days[d].state = "closing"
        /\ \A e \in DOMAIN days : e \in Nat /\ e \in Dates /\ days[e] \in Day
    BY <1>1, Constants DEF Inv, RecordsFit, Sound, ClosingDay
  <1>3. RecordsFit'
    <2>1. RecordsFit
      BY DEF Inv
    <2>2. now' = now /\ siteZone' = siteZone /\ zoneLog' = zoneLog /\ days' = days
      BY <1>1
    <2> QED BY <2>1, <2>2 DEF RecordsFit, ZoneTail
  <1>4. MovesFit'
    BY <1>1 DEF Inv, MovesFit
  <1>5. ListsFollowLogs'
    BY <1>1, CheckLists DEF Inv
  <1>6. DataFit'
    <2>1. list[d] \subseteq Stations
      BY DEF Inv, ListsFollowLogs, StationList
    <2>2. DayReadings(d) \subseteq Reading
      BY DEF Inv, DataFit, DayReadings
    <2>3. checks' \in [Dates -> [counted : SUBSET Stations, aside : SUBSET Stations]]
      <3>1. [counted |-> list[d] \ aside, aside |-> aside]
              \in [counted : SUBSET Stations, aside : SUBSET Stations]
        BY <2>1
      <3> QED BY <3>1, <1>1 DEF Inv, DataFit
    <2>4. hourly' \in [Dates -> SUBSET Reading]
      BY <2>2, <1>1 DEF Inv, DataFit
    <2>5. DOMAIN counted' = DOMAIN days
      BY <1>1 DEF Flagged
    <2> QED BY <1>1, <2>3, <2>4, <2>5 DEF Inv, DataFit
  <1>7. StageFit'
    BY <1>1 DEF StageFit, ClosingDay
  <1>8. ChecksFit'
    <2>1. /\ \A e \in Dates : e # d => checks'[e] = checks[e]
          /\ checks'[d].counted = list[d] \ aside /\ checks'[d].aside = aside
      BY <1>1, <1>2 DEF Inv, DataFit
    <2>2. ASSUME NEW e \in Dates, e # d, checks'[e].counted \cup checks'[e].aside # {}
          PROVE  /\ e \in DOMAIN days /\ days[e].state # "open"
                 /\ checks'[e].counted \cup checks'[e].aside = list[e]
                 /\ checks'[e].counted \cap checks'[e].aside = {}
      BY <2>1, <2>2 DEF Inv, ChecksFit
    <2>3. /\ checks'[d].counted \cup checks'[d].aside = list[d]
          /\ checks'[d].counted \cap checks'[d].aside = {}
      BY <1>1, <2>1
    <2> QED BY <1>1, <1>2, <2>2, <2>3 DEF ChecksFit
  <1>9. GoneFit'
    BY <1>1 DEF Inv, GoneFit
  <1>10. DayReadings(d) = Sources(d)
    <2> SUFFICES ASSUME NEW r \in gone, days[d].start - Lookback <= r.at, r.at < days[d].end
                 PROVE  FALSE
      BY DEF DayReadings, Sources
    <2>1. PICK g \in DOMAIN days :
             /\ r.at < days[g].end /\ g + 1 \in DOMAIN days
             /\ days[g].state \in Done /\ days[g + 1].state \in Done
      BY DEF Inv, GoneFit
    <2>2. g # d /\ g + 1 # d /\ g \in Nat
      BY <1>2, <2>1 DEF Done
    <2>3. ~(d < g)
      BY <1>2, <2>1 DEF Inv, MovesFit, Done
    <2>4. g < g + 1 /\ g + 1 < d
      BY <1>2, <2>2, <2>3
    <2>5. /\ days[g].end = days[g + 1].start /\ days[g + 1].end <= days[d].start
          /\ days[g + 1].start + Lookback <= days[g + 1].end
      BY <2>1, <2>4 DEF Inv, RecordsFit, Sound
    <2>6. days[g].end \in Int /\ days[g + 1].start \in Int /\ days[g + 1].end \in Int
          /\ days[d].start \in Int /\ r.at \in Nat
      <3>1. r \in Reading
        BY DEF Inv, DataFit
      <3> QED BY <1>2, <2>1, <3>1 DEF Day, Reading
    <2> QED BY <2>1, <2>5, <2>6, Constants
  <1>11. SourcesFit'
    <2> SUFFICES ASSUME NEW e \in DOMAIN days, days[e].state = "closed" \/ days[e].state = "closing"
                 PROVE  hourly'[e] = Sources(e)
      BY <1>1 DEF SourcesFit, Sources
    <2>1. CASE e = d
      BY <2>1, <1>1, <1>2, <1>10 DEF Inv, DataFit
    <2>2. CASE e # d
      <3>1. days[e].state = "closed"
        <4>1. ~(e < d /\ days[e].state = "closing") /\ ~(d < e /\ days[e].state = "closing")
          BY <1>2 DEF Inv, MovesFit, Done
        <4> QED BY <4>1, <1>2, <2>2
      <3>2. hourly[e] = Sources(e)
        BY <3>1 DEF Inv, SourcesFit
      <3>3. hourly'[e] = hourly[e]
        BY <1>1, <1>2, <2>2 DEF Inv, DataFit
      <3> QED BY <3>2, <3>3
    <2> QED BY <2>1, <2>2
  <1> QED BY <1>3, <1>4, <1>5, <1>6, <1>7, <1>8, <1>9, <1>11 DEF Inv

\* Only the day being closed can be closing, and every day after it is open.
LEMMA UndoneDay ==
  ASSUME Inv, NEW d \in DOMAIN days, days[d].state \notin Done,
         \A e \in DOMAIN days : e < d => days[e].state \in Done
  PROVE  \A e \in DOMAIN days : days[e].state = "closing" => e = d
  <1> SUFFICES ASSUME NEW e \in DOMAIN days, days[e].state = "closing", e # d
               PROVE  FALSE
    OBVIOUS
  <1>1. d \in Nat /\ e \in Nat
    BY Constants DEF Inv, RecordsFit, Sound
  <1>2. ~(e < d)
    BY DEF Done
  <1>3. ~(d < e)
    BY DEF Inv, MovesFit
  <1> QED BY <1>1, <1>2, <1>3

\* A move of the first day not yet done: it has ended, and every day before is done.
LEMMA MoveFits ==
  ASSUME Inv, NEW d \in DOMAIN days, NEW rec \in Day, NEW s, Move(d, rec, s),
         rec.start = days[d].start, rec.end = days[d].end, rec.zone = days[d].zone,
         rec.changeover = days[d].changeover,
         days[d].state \notin Done, days[d].end <= now,
         \A e \in DOMAIN days : e < d => days[e].state \in Done,
         rec.state # "open", rec.state = "closing" => rec.attempts \in 1..2 /\ s = "fill",
         rec.state = "retry_due" => rec.attempts = 1,
         rec.state = "closed" => days[d].state = "closing" /\ stage = "truth",
         rec.state # "closing" => s = "none"
  PROVE  Inv'
  <1>1. /\ DOMAIN days' = DOMAIN days /\ days'[d] = rec
        /\ \A e \in DOMAIN days : e # d => days'[e] = days[e]
    BY DEF Move
  <1>2. /\ stage' = s
        /\ UNCHANGED <<now, siteZone, zoneLog, enabled, changeLog, list, counted, checks,
                       raw, hourly, prunedTo, gone>>
    BY DEF Move, listVars
  <1>3. \A e \in DOMAIN days :
          /\ days'[e].start = days[e].start /\ days'[e].end = days[e].end
          /\ days'[e].zone = days[e].zone /\ days'[e].changeover = days[e].changeover
          /\ days'[e] \in Day
    BY <1>1 DEF Inv, RecordsFit, Sound
  <1>4. \A e \in DOMAIN days : e \in Nat /\ e \in Dates
    BY Constants DEF Inv, RecordsFit, Sound
  <1>5. RecordsFit'
    <2>1. Sound(days')
      <3>1. Sound(days)
        BY DEF Inv, RecordsFit
      <3>2. DOMAIN days' \subseteq Dates
        BY <1>1, <1>4
      <3>3. ASSUME NEW e \in DOMAIN days'
            PROVE  /\ days'[e] \in Day
                   /\ days'[e].start < days'[e].end /\ days'[e].start + Lookback <= days'[e].end
                   /\ days'[e].end < days'[e].start + 2 * DayLength
                   /\ days'[e].end = Midnight(e + 1, days'[e].zone)
                   /\ days'[e].changeover <=> days'[e].start # Midnight(e, days'[e].zone)
                   /\ (e - 2) * DayLength < days'[e].start
        <4>1. /\ days'[e].start = days[e].start /\ days'[e].end = days[e].end
              /\ days'[e].zone = days[e].zone /\ days'[e].changeover = days[e].changeover
              /\ days'[e] \in Day /\ e \in DOMAIN days
          BY <1>1, <1>3
        <4>2. /\ days[e].start < days[e].end /\ days[e].start + Lookback <= days[e].end
              /\ days[e].end < days[e].start + 2 * DayLength
              /\ days[e].end = Midnight(e + 1, days[e].zone)
              /\ days[e].changeover <=> days[e].start # Midnight(e, days[e].zone)
              /\ (e - 2) * DayLength < days[e].start
          BY <3>1, <4>1, Zenon DEF Sound
        <4> QED BY <4>1, <4>2
      <3>4. ASSUME NEW e \in DOMAIN days', NEW f \in DOMAIN days', e < f
            PROVE  /\ e + 1 \in DOMAIN days' /\ days'[e].end = days'[e + 1].start
                   /\ days'[e].end <= days'[f].start
        BY <3>1, <3>4, <1>1, <1>3 DEF Sound
      <3> QED BY <3>2, <3>3, <3>4 DEF Sound
    <2>2. ZoneTail'
      <3>1. /\ DOMAIN days = {} => zoneLog = <<>>
            /\ \A e \in Dates : IsLast(days, e) => days[e].zone = siteZone
            /\ zoneLog # <<>> => /\ zoneLog[Len(zoneLog)].zone = siteZone
                                 /\ \E e \in DOMAIN days : zoneLog[Len(zoneLog)].from <= e
        BY DEF Inv, RecordsFit, ZoneTail
      <3>2. \A e \in Dates : IsLast(days', e) => IsLast(days, e) /\ e \in DOMAIN days
        BY <1>1 DEF IsLast
      <3> QED BY <3>1, <3>2, <1>1, <1>2, <1>3 DEF ZoneTail
    <2> QED BY <2>1, <2>2, <1>2 DEF Inv, RecordsFit
  <1>6. MovesFit'
    <2> SUFFICES ASSUME NEW e \in DOMAIN days
                 PROVE  /\ days'[e].state = "open" => days'[e].attempts = 0
                        /\ days'[e].state = "closing" => days'[e].attempts \in 1..2
                        /\ days'[e].state = "retry_due" => days'[e].attempts = 1
                        /\ days'[e].state # "open" =>
                             /\ days'[e].end <= now
                             /\ \A f \in DOMAIN days : f < e => days'[f].state \in Done
      BY <1>1, <1>2 DEF MovesFit
    <2>1. CASE e = d
      <3>1. \A f \in DOMAIN days : f < d => days'[f].state \in Done
        BY <1>1, <1>4
      <3> QED BY <2>1, <3>1, <1>1
    <2>2. CASE e # d
      <3>1. days'[e] = days[e]
        BY <2>2, <1>1
      <3>2. /\ days[e].state = "open" => days[e].attempts = 0
            /\ days[e].state = "closing" => days[e].attempts \in 1..2
            /\ days[e].state = "retry_due" => days[e].attempts = 1
            /\ days[e].state # "open" =>
                 /\ days[e].end <= now
                 /\ \A f \in DOMAIN days : f < e => days[f].state \in Done
        BY DEF Inv, MovesFit
      <3>3. days[e].state # "open" => ~(d < e)
        BY <3>2
      <3>4. days[e].state # "open" => \A f \in DOMAIN days : f < e => days'[f].state \in Done
        BY <3>2, <3>3, <1>1
      <3> QED BY <3>1, <3>2, <3>4
    <2> QED BY <2>1, <2>2
  <1>7. ListsFollowLogs'
    <2>1. \A e \in DOMAIN days : ListFits(changeLog, checks, e, list[e], counted[e])
      BY ListsAre DEF Inv
    <2> QED BY <2>1, <1>1, <1>2, ListsAre
  <1>8. DataFit'
    <2>1. s \in {"none", "fill", "truth"}
      OBVIOUS
    <2> QED BY <2>1, <1>1, <1>2 DEF Inv, DataFit
  <1>9. ChecksFit'
    BY <1>1, <1>2 DEF Inv, ChecksFit
  <1>10. GoneFit'
    <2> SUFFICES ASSUME NEW r \in gone
                 PROVE  \E e \in DOMAIN days :
                          /\ days'[e].start <= r.at /\ r.at < days'[e].end /\ e + 1 \in DOMAIN days
                          /\ days'[e].state \in Done /\ days'[e + 1].state \in Done
      BY <1>1, <1>2 DEF GoneFit
    <2>1. PICK e \in DOMAIN days :
             /\ days[e].start <= r.at /\ r.at < days[e].end /\ e + 1 \in DOMAIN days
             /\ days[e].state \in Done /\ days[e + 1].state \in Done
      BY DEF Inv, GoneFit
    <2> QED BY <2>1, <1>1
  <1>11. \A e \in DOMAIN days : days[e].state = "closing" => e = d
    BY UndoneDay
  <1>12. StageFit'
    <2>1. rec.state = "closing" => d \in ClosingDay' /\ s # "none"
      BY <1>1 DEF ClosingDay
    <2>2. rec.state # "closing" => ClosingDay' = {} /\ s = "none"
      <3>1. ASSUME rec.state # "closing", NEW e \in DOMAIN days' PROVE days'[e].state # "closing"
        BY <3>1, <1>1, <1>11
      <3> QED BY <3>1 DEF ClosingDay
    <2> QED BY <2>1, <2>2, <1>2 DEF StageFit
  <1>13. SourcesFit'
    <2> SUFFICES ASSUME NEW e \in DOMAIN days,
                        days'[e].state = "closed" \/ (days'[e].state = "closing" /\ s = "truth")
                 PROVE  hourly[e] = Sources(e)
      BY <1>1, <1>2, <1>3 DEF SourcesFit, Sources
    <2>1. CASE e = d
      BY <2>1, <1>1 DEF Inv, SourcesFit
    <2>2. CASE e # d
      BY <2>2, <1>1, <1>11 DEF Inv, SourcesFit
    <2> QED BY <2>1, <2>2
  <1> QED BY <1>5, <1>6, <1>7, <1>8, <1>9, <1>10, <1>12, <1>13 DEF Inv

LEMMA MovesFitToo ==
  ASSUME Inv, NEW d \in DOMAIN days,
         BeginClose(d) \/ FailClose(d) \/ FinishClose(d) \/ MarkMissed(d)
  PROVE  Inv'
  <1>0. days[d] \in Day /\ now \in Nat /\ RetryDelay \in Nat
    BY Constants DEF Inv, RecordsFit, Sound
  <1>1. /\ days[d].state = "open" => days[d].attempts = 0
        /\ days[d].state = "closing" => days[d].attempts \in 1..2
        /\ days[d].state = "retry_due" => days[d].attempts = 1
        /\ days[d].state # "open" =>
             /\ days[d].end <= now
             /\ \A e \in DOMAIN days : e < d => days[e].state \in Done
    BY DEF Inv, MovesFit
  <1>2. NoEarlierUndone(d) => \A e \in DOMAIN days : e < d => days[e].state \in Done
    <2>1. \A e \in DOMAIN days : days[e].state \notin Undone => days[e].state \in Done
      BY DEF Inv, RecordsFit, Sound, Day, Done, Undone
    <2> QED BY <2>1 DEF NoEarlierUndone
  <1>3. CASE BeginClose(d)
    <2> DEFINE rec == [days[d] EXCEPT !.state = "closing", !.attempts = @ + 1]
    <2>1. Move(d, rec, "fill")
      BY <1>3 DEF BeginClose
    <2>2. /\ days[d].state \in {"open", "retry_due"} /\ days[d].end <= now
          /\ \A e \in DOMAIN days : e < d => days[e].state \in Done
      BY <1>1, <1>2, <1>3 DEF BeginClose
    <2>3. /\ rec \in Day /\ rec.state = "closing" /\ rec.attempts \in 1..2
          /\ rec.start = days[d].start /\ rec.end = days[d].end
          /\ rec.zone = days[d].zone /\ rec.changeover = days[d].changeover
      <3>1. days[d].attempts \in 0..1
        BY <1>1, <2>2
      <3>2. days[d].attempts + 1 \in 1..2 /\ days[d].attempts + 1 \in 0..2
        BY <3>1
      <3>3. rec \in Day
        BY <1>0, <3>2 DEF Day
      <3>4. rec.state = "closing" /\ rec.attempts = days[d].attempts + 1
        BY <1>0 DEF Day
      <3>5. /\ rec.start = days[d].start /\ rec.end = days[d].end
            /\ rec.zone = days[d].zone /\ rec.changeover = days[d].changeover
        BY <1>0 DEF Day
      <3> HIDE DEF rec
      <3> QED BY <3>2, <3>3, <3>4, <3>5
    <2> HIDE DEF rec
    <2> QED BY <2>1, <2>2, <2>3, MoveFits DEF Done
  <1>4. CASE FailClose(d)
    <2>1. CASE days[d].attempts = 1
      <3> DEFINE rec == [days[d] EXCEPT !.state = "retry_due", !.retryAt = now + RetryDelay]
      <3>1. Move(d, rec, "none")
        BY <1>4, <2>1 DEF FailClose
      <3>2. days[d].state = "closing"
        BY <1>4 DEF FailClose
      <3>3. /\ rec \in Day /\ rec.state = "retry_due" /\ rec.attempts = 1
            /\ rec.start = days[d].start /\ rec.end = days[d].end
            /\ rec.zone = days[d].zone /\ rec.changeover = days[d].changeover
        <4>1. now + RetryDelay \in Nat
          BY <1>0
        <4>2. rec \in Day
          BY <1>0, <4>1 DEF Day
        <4>3. /\ rec.state = "retry_due" /\ rec.attempts = 1
              /\ rec.start = days[d].start /\ rec.end = days[d].end
              /\ rec.zone = days[d].zone /\ rec.changeover = days[d].changeover
          BY <1>0, <2>1 DEF Day
        <4> HIDE DEF rec
        <4> QED BY <4>2, <4>3
      <3> HIDE DEF rec
      <3> QED BY <1>1, <3>1, <3>2, <3>3, MoveFits DEF Done
    <2>2. CASE days[d].attempts # 1
      <3> DEFINE rec == [days[d] EXCEPT !.state = "missed", !.doneAt = now]
      <3>1. Move(d, rec, "none")
        BY <1>4, <2>2 DEF FailClose
      <3>2. days[d].state = "closing"
        BY <1>4 DEF FailClose
      <3>3. /\ rec \in Day /\ rec.state = "missed"
            /\ rec.start = days[d].start /\ rec.end = days[d].end
            /\ rec.zone = days[d].zone /\ rec.changeover = days[d].changeover
        BY <1>0 DEF Day
      <3> HIDE DEF rec
      <3> QED BY <1>1, <3>1, <3>2, <3>3, MoveFits DEF Done
    <2> QED BY <2>1, <2>2
  <1>5. CASE FinishClose(d)
    <2> DEFINE rec == [days[d] EXCEPT !.state = "closed", !.doneAt = now]
    <2>1. Move(d, rec, "none") /\ days[d].state = "closing" /\ stage = "truth"
      BY <1>5 DEF FinishClose
    <2>2. /\ rec \in Day /\ rec.state = "closed"
          /\ rec.start = days[d].start /\ rec.end = days[d].end
          /\ rec.zone = days[d].zone /\ rec.changeover = days[d].changeover
      BY <1>0 DEF Day
    <2> HIDE DEF rec
    <2> QED BY <1>1, <2>1, <2>2, MoveFits DEF Done
  <1>6. CASE MarkMissed(d)
    <2> DEFINE rec == [days[d] EXCEPT !.state = "missed", !.doneAt = now]
    <2>1. Move(d, rec, stage)
      BY <1>6 DEF MarkMissed
    <2>2. /\ days[d].state \in {"open", "retry_due"} /\ days[d].end <= now
          /\ \A e \in DOMAIN days : e < d => days[e].state \in Done
      BY <1>1, <1>2, <1>6 DEF MarkMissed
    <2>3. stage = "none"
      <3>1. \A e \in DOMAIN days : days[e].state = "closing" => e = d
        BY <2>2, UndoneDay DEF Done
      <3>2. ClosingDay = {}
        BY <2>2, <3>1 DEF ClosingDay
      <3> QED BY <3>2 DEF Inv, StageFit
    <2>4. /\ rec \in Day /\ rec.state = "missed"
          /\ rec.start = days[d].start /\ rec.end = days[d].end
          /\ rec.zone = days[d].zone /\ rec.changeover = days[d].changeover
      BY <1>0 DEF Day
    <2> HIDE DEF rec
    <2> QED BY <2>1, <2>2, <2>3, <2>4, MoveFits DEF Done
  <1> QED BY <1>3, <1>4, <1>5, <1>6

LEMMA ClockFits ==
  ASSUME Inv, Clock
  PROVE  Inv'
  <1>1. /\ now' = now + 1 /\ now < MaxTime
        /\ UNCHANGED <<siteZone, zoneLog, days, enabled, changeLog, list, counted, checks,
                       raw, hourly, stage, prunedTo, gone>>
    BY DEF Clock, recordVars, listVars, dataVars
  <1>2. RecordsFit'
    <2>1. now \in 0..MaxTime /\ MaxTime \in Nat
      BY Constants DEF Inv, RecordsFit
    <2>2. now' \in 0..MaxTime
      BY <1>1, <2>1
    <2>3. ZoneTail'
      <3>1. ZoneTail
        BY DEF Inv, RecordsFit
      <3> QED BY <3>1, <1>1 DEF ZoneTail
    <2>4. siteZone \in Zones /\ zoneLog \in Seq(ZoneChange) /\ Sound(days)
      BY DEF Inv, RecordsFit
    <2> QED BY <2>2, <2>3, <2>4, <1>1 DEF RecordsFit
  <1>3. MovesFit'
    <2>1. now \in Nat /\ \A d \in DOMAIN days : days[d].end \in Int
      BY Constants DEF Inv, RecordsFit, Sound, Day
    <2>2. \A d \in DOMAIN days : days[d].end <= now => days[d].end <= now'
      BY <2>1, <1>1
    <2> QED BY <2>2, <1>1 DEF Inv, MovesFit
  <1>4. ListsFollowLogs'
    <2>1. \A e \in DOMAIN days : ListFits(changeLog, checks, e, list[e], counted[e])
      BY ListsAre DEF Inv
    <2> QED BY <2>1, <1>1, ListsAre
  <1>5. DataFit' /\ StageFit'
    BY <1>1 DEF Inv, DataFit, StageFit, ClosingDay
  <1>6. ChecksFit' /\ SourcesFit' /\ GoneFit'
    BY <1>1 DEF Inv, ChecksFit, SourcesFit, Sources, GoneFit
  <1> QED BY <1>2, <1>3, <1>4, <1>5, <1>6 DEF Inv

LEMMA UnchangedFits ==
  ASSUME Inv, UNCHANGED vars
  PROVE  Inv'
  <1>1. UNCHANGED <<now, siteZone, zoneLog, days, enabled, changeLog, list, counted, checks,
                    raw, hourly, stage, prunedTo, gone>>
    BY DEF vars, recordVars, listVars, dataVars
  <1>2. RecordsFit'
    <2>1. ZoneTail'
      BY <1>1 DEF Inv, RecordsFit, ZoneTail
    <2> QED BY <2>1, <1>1 DEF Inv, RecordsFit
  <1>3. ListsFollowLogs'
    <2>1. \A e \in DOMAIN days : ListFits(changeLog, checks, e, list[e], counted[e])
      BY ListsAre DEF Inv
    <2> QED BY <2>1, <1>1, ListsAre
  <1>4. MovesFit' /\ DataFit' /\ StageFit'
    BY <1>1 DEF Inv, MovesFit, DataFit, StageFit, ClosingDay
  <1>5. ChecksFit' /\ SourcesFit' /\ GoneFit'
    BY <1>1 DEF Inv, ChecksFit, SourcesFit, Sources, GoneFit
  <1> QED BY <1>2, <1>3, <1>4, <1>5 DEF Inv

-----------------------------------------------------------------------------
(* The invariant, and what follows from it.                                *)

LEMMA InitFits == Init => Inv
  <1> SUFFICES ASSUME Init PROVE Inv
    OBVIOUS
  <1>0. DOMAIN days = {} /\ zoneLog = <<>> /\ now = 0 /\ siteZone = FirstZone /\ DOMAIN list = {}
        /\ DOMAIN counted = {} /\ stage = "none" /\ raw = {} /\ gone = {}
    BY DEF Init
  <1>1. RecordsFit
    <2>1. Sound(days) /\ ZoneTail
      BY <1>0 DEF Sound, ZoneTail, IsLast
    <2>2. <<>> \in Seq(ZoneChange)
      OBVIOUS
    <2> QED BY <1>0, <2>1, <2>2, Constants DEF RecordsFit
  <1>2. MovesFit /\ ListsFollowLogs /\ SourcesFit /\ GoneFit
    BY <1>0 DEF MovesFit, ListsFollowLogs, SourcesFit, GoneFit
  <1>3. StageFit
    BY <1>0 DEF StageFit, ClosingDay
  <1>4. ChecksFit
    BY DEF Init, ChecksFit
  <1>5. DataFit
    <2>1. FirstLog \in Seq(StationChange)
      <3>1. 0 \in Dates
        BY Constants
      <3>2. [station : Stations, joins : {TRUE}, from : {0}] \subseteq StationChange
        BY <3>1 DEF StationChange
      <3> DEFINE firsts == [station : Stations, joins : {TRUE}, from : {0}]
      <3>3. FirstLog \in Seq(firsts)
        BY ConstantsAssumption
      <3>4. firsts \subseteq StationChange
        BY <3>2
      <3> HIDE DEF firsts
      <3>5. \A i \in 1..Len(FirstLog) : FirstLog[i] \in StationChange
        BY <3>3, <3>4
      <3> QED BY <3>3, <3>5
    <2>2. enabled \subseteq Stations
      <3>1. enabled = {FirstLog[i].station : i \in DOMAIN FirstLog}
        BY DEF Init
      <3>2. \A i \in DOMAIN FirstLog : FirstLog[i] \in StationChange
        BY <2>1
      <3> QED BY <3>1, <3>2 DEF StationChange
    <2>3. checks \in [Dates -> [counted : SUBSET Stations, aside : SUBSET Stations]]
          /\ hourly \in [Dates -> SUBSET Reading] /\ prunedTo = -1 /\ changeLog = FirstLog
      BY DEF Init
    <2> QED BY <1>0, <2>1, <2>2, <2>3 DEF DataFit
  <1> QED BY <1>1, <1>2, <1>3, <1>4, <1>5 DEF Inv

LEMMA StepFits == Inv /\ [Next]_vars => Inv'
  <1> SUFFICES ASSUME Inv, [Next]_vars PROVE Inv'
    OBVIOUS
  <1>1. CASE Tick
    BY <1>1, TickFits
  <1>2. CASE Prune
    BY <1>2, PruneFits
  <1>3. CASE Clock
    BY <1>3, ClockFits
  <1>4. CASE \E z \in Zones : EnterZoneChange(z)
    BY <1>4, EnterZoneChangeFits
  <1>5. CASE \E s \in Stations : TurnOn(s) \/ TurnOff(s)
    BY <1>5, StationsFit
  <1>6. ASSUME NEW s \in Stations, NEW t \in 0..(MaxTime + 1),
               StoreFiveMinute(s, t) \/ StoreCurrentObs(s, t) \/ StoreGapFill(s, t)
        PROVE  Inv'
    <2>1. t \in Nat
      BY Constants
    <2>2. \/ Store(s, t, "READING")
          \/ stage = "fill" /\ Store(s, t, "GAP_FILL")
      BY <1>6 DEF StoreFiveMinute, StoreCurrentObs, StoreGapFill
    <2> QED BY <2>1, <2>2, StoreFits
  <1>7. ASSUME NEW d \in DOMAIN days,
               BeginClose(d) \/ FailClose(d) \/ FinishClose(d) \/ MarkMissed(d)
        PROVE  Inv'
    BY <1>7, MovesFitToo
  <1>8. ASSUME NEW d \in DOMAIN days, NEW aside \in SUBSET Stations, HourlyStage(d, aside)
        PROVE  Inv'
    BY <1>8, HourlyStageFits
  <1>9. CASE UNCHANGED vars
    BY <1>9, UnchangedFits
  <1> QED BY <1>1, <1>2, <1>3, <1>4, <1>5, <1>6, <1>7, <1>8, <1>9 DEF Next

LEMMA InvAlways == Spec => []Inv
  BY InitFits, StepFits, PTL DEF Spec

LEMMA InvTyped == Inv => TypeOK
  <1> SUFFICES ASSUME Inv PROVE TypeOK
    OBVIOUS
  <1>1. \A i \in DOMAIN zoneLog : zoneLog[i] \in [zone : Zones, from : Dates]
    <2>1. zoneLog \in Seq(ZoneChange)
      BY DEF Inv, RecordsFit
    <2>2. \A i \in DOMAIN zoneLog : zoneLog[i] \in ZoneChange
      BY <2>1
    <2> QED BY <2>2 DEF ZoneChange
  <1>2. \A i \in DOMAIN changeLog :
          changeLog[i] \in [station : Stations, joins : BOOLEAN, from : Dates]
    <2>1. changeLog \in Seq(StationChange)
      BY DEF Inv, DataFit
    <2>2. \A i \in DOMAIN changeLog : changeLog[i] \in StationChange
      BY <2>1
    <2> QED BY <2>2 DEF StationChange
  <1>3. DOMAIN days \subseteq Dates /\ \A d \in DOMAIN days : days[d] \in Day
    BY DEF Inv, RecordsFit, Sound
  <1>4. \A d \in DOMAIN days : list[d] \subseteq Stations /\ counted[d] \subseteq list[d]
    BY DEF Inv, ListsFollowLogs, StationList
  <1>5. Cardinality(ClosingDay) <= 1
    <2>1. CASE ClosingDay = {}
      BY <2>1, FS_EmptySet
    <2>2. CASE ClosingDay # {}
      <3>1. PICK d \in ClosingDay : TRUE
        BY <2>2
      <3>2. \A e \in ClosingDay : e = d
        BY <3>1, UndoneDay DEF Inv, MovesFit, ClosingDay, Done
      <3>3. ClosingDay = {d}
        BY <3>1, <3>2
      <3> QED BY <3>3, FS_Singleton
    <2> QED BY <2>1, <2>2
  <1> QED BY <1>1, <1>2, <1>3, <1>4, <1>5 DEF Inv, RecordsFit, DataFit, StageFit, TypeOK

LEMMA InvTiles == Inv => DaysTile
  <1> SUFFICES ASSUME Inv PROVE DaysTile
    OBVIOUS
  <1>1. Sound(days) /\ Fits(Here)
    BY HereIs DEF Inv, RecordsFit
  <1> QED BY <1>1, Zenon DEF DaysTile, Sound

\* Type correctness: what each table of site days, stations and readings holds, and
\* that a stage is under way exactly while one day, never two, is closing.
THEOREM TypeCorrect == Spec => []TypeOK
  BY InvAlways, InvTyped, PTL

\* The recorded days follow each other without a gap or an overlap and have their
\* zones' midnights, and the missing ones can always be made, through any number of
\* zone changes and however long the add-on was down (site_days._ensure).
THEOREM DaysDoTile == Spec => []DaysTile
  BY InvAlways, InvTiles, PTL

\* Each day's saved list and flags are what the logs of stations and checks say of
\* its date (_write_station_list, set_rain_counted_after).
THEOREM ListsAreTheLogs == Spec => []ListsFollowLogs
  <1>1. Inv => ListsFollowLogs
    BY DEF Inv
  <1> QED BY <1>1, InvAlways, PTL

\* A closed day's hourly values come from every reading its stations ever had for it
\* and just before it (filter_day_writes, prune_raw_readings, write_hourly_values).
THEOREM ClosedDaysAreWhole == Spec => []ClosedFromItsReadings
  <1>1. Inv => ClosedFromItsReadings
    BY DEF Inv, SourcesFit, Sources, ClosedFromItsReadings
  <1> QED BY <1>1, InvAlways, PTL
=============================================================================
