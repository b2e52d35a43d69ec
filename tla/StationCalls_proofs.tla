------------------------- MODULE StationCalls_proofs -------------------------
(* Proofs about the calls to weather.com of one site: that recorded pauses   *)
(* and refusals are heeded by every later call, but for a pause that a       *)
(* station's addition erased, that an evening slot is tried again only after *)
(* a try that was cut short, and that a try never moves its row over a slot  *)
(* it had to keep; for any stations, slots, waits and budgets.               *)
EXTENDS StationCalls, WellFoundedInduction, TLAPS

USE DEF pauses, holds, tries

-----------------------------------------------------------------------------
(* The day's clock.                                                         *)

\* A set of numbers that is not empty has a least one.
LEMMA LeastIs ==
  ASSUME NEW S \in SUBSET Nat, S # {}
  PROVE  Least(S) \in S /\ \A y \in S : Least(S) <= y
  <1>1. PICK m \in S : \A u \in S : ~(<<u, m>> \in OpToRel(<, Nat))
    BY NatLessThanWellFounded, WFMin
  <1>2. \A u \in S : ~(u < m)
    BY <1>1 DEF OpToRel
  <1>3. \A u \in S : m <= u
    BY <1>2
  <1> QED BY <1>3 DEF Least

\* One below a bound has a largest one.
LEMMA LargestIs ==
  ASSUME NEW n \in Nat, NEW S \in SUBSET (0..n), S # {}
  PROVE  \E m \in S : \A x \in S : x <= m
  <1> DEFINE T == {n - x : x \in S}
  <1>0. \A x \in S : n - x \in Nat
    OBVIOUS
  <1>1. T \in SUBSET Nat /\ T # {}
    BY <1>0
  <1>2. Least(T) \in T /\ \A y \in T : Least(T) <= y
    <2> HIDE DEF T
    <2> QED BY <1>1, LeastIs
  <1>3. PICK m \in S : Least(T) = n - m
    BY <1>2
  <1>4. \A x \in S : n - m <= n - x
    BY <1>2, <1>3
  <1> QED BY <1>4

LEMMA ClockFacts ==
  /\ DayEnd \in Nat /\ Interval \in Nat /\ Defer \in Nat /\ MaxDelay \in Nat
  /\ Cap \in Nat /\ Cap <= DayEnd
  /\ \A q \in Slots : q \in Nat /\ q < DayEnd /\ Cap <= q
  /\ LateSlots \subseteq Slots
  /\ Done \in Nat /\ Done = DayEnd + 1
  <1>1. DayEnd \in Nat /\ Interval \in Nat /\ Defer \in Nat /\ MaxDelay \in Nat
    BY ConstantsAssumption
  <1>2. \A q \in Slots : q \in Nat /\ q < DayEnd
    BY <1>1, ConstantsAssumption
  <1>3. Slots # {} => Least(Slots) \in Slots /\ \A q \in Slots : Least(Slots) <= q
    BY <1>2, LeastIs
  <1>4. Cap \in Nat /\ Cap <= DayEnd /\ \A q \in Slots : Cap <= q
    <2>1. CASE Slots = {}
      BY <1>1, <2>1 DEF Cap
    <2>2. CASE Slots # {}
      <3>1. Cap = Least(Slots)
        BY <2>2 DEF Cap
      <3>2. Cap \in Slots /\ \A q \in Slots : Cap <= q
        BY <1>3, <2>2, <3>1
      <3> QED BY <1>1, <1>2, <3>2
    <2> QED BY <2>1, <2>2
  <1> QED BY <1>1, <1>2, <1>4 DEF LateSlots, Done

\* A try is logged under the latest slot at its row's instant, if there is one.
LEMMA SlotLabelIs ==
  ASSUME NEW d \in Nat, NEW t \in Nat, d <= t
  PROVE  /\ SlotLabel(d, t) \in {0} \cup Slots
         /\ SlotLabel(d, t) <= t
         /\ t < Cap => SlotLabel(d, t) = 0
         /\ d \in Slots /\ d # 0 => SlotLabel(d, t) = d
         /\ d # 0 => SlotLabel(d, t) <= d
         /\ \A q \in Slots : q <= t /\ (d = 0 \/ q <= d) => q <= SlotLabel(d, t)
  <1> DEFINE at   == IF d = 0 THEN t ELSE d
             upTo == {q \in Slots : q <= at}
             P(q) == \A p \in upTo : p <= q
  <1>1. at \in Nat /\ at <= t /\ (d # 0 => at = d)
    OBVIOUS
  <1>a. \A q \in Slots : q <= t /\ (d = 0 \/ q <= d) => q \in upTo
    OBVIOUS
  <1>2. CASE upTo = {}
    <2>1. SlotLabel(d, t) = 0
      BY <1>2 DEF SlotLabel
    <2>2. \A q \in Slots : ~(q <= t /\ (d = 0 \/ q <= d))
      <3> HIDE DEF upTo
      <3> QED BY <1>2, <1>a
    <2> QED BY <1>2, <2>1, <2>2
  <1>3. CASE upTo # {}
    <2> DEFINE top == CHOOSE q \in upTo : P(q)
    <2>1. upTo \in SUBSET (0..at)
      BY <1>1, ClockFacts
    <2>2. \E m \in upTo : P(m)
      <3> HIDE DEF at, upTo
      <3> QED BY <1>1, <1>3, <2>1, LargestIs
    <2>3. top \in upTo /\ P(top)
      <3> HIDE DEF P
      <3> QED BY <2>2
    <2>4. SlotLabel(d, t) = top
      BY <1>3 DEF SlotLabel
    <2> HIDE DEF top
    <2>5. top \in Slots /\ top <= at
      BY <2>3
    <2>6. d \in Slots /\ d # 0 => top = d
      BY <2>3, ClockFacts
    <2>7. \A q \in Slots : q <= t /\ (d = 0 \/ q <= d) => q <= top
      <3> HIDE DEF upTo
      <3> QED BY <2>3, <1>a
    <2> HIDE DEF at, upTo, P
    <2> QED BY <1>1, <2>4, <2>5, <2>6, <2>7, ClockFacts
  <1> QED BY <1>2, <1>3

\* Where the evening goes on after a try at t.
LEMMA WindowNextIs ==
  ASSUME NEW t \in Nat, NEW success \in BOOLEAN, NEW nb \in Nat
  PROVE  LET w == WindowNext(t, success, nb)
         IN  /\ w \in Slots \cup {Done}
             /\ w \in Slots => t < w
             /\ \A q \in Slots : t < q /\ q < w =>
                  \/ success /\ (q \in LateSlots => q # Least(LateSlots))
                  \/ ~success /\ q < nb
  <1> DEFINE after == {q \in Slots : q > t /\ q >= nb}
             w     == WindowNext(t, success, nb)
  <1>1. LateSlots # {} => Least(LateSlots) \in LateSlots
    BY ClockFacts, LeastIs
  <1>2. after # {} => Least(after) \in after /\ \A q \in after : Least(after) <= q
    BY ClockFacts, LeastIs
  <1>3. CASE success
    <2>1. CASE LateSlots # {} /\ t < Least(LateSlots)
      <3>1. w = Least(LateSlots)
        BY <1>3, <2>1 DEF WindowNext
      <3>2. w \in Slots /\ t < w
        BY <1>1, <2>1, <3>1, ClockFacts
      <3>3. \A q \in Slots : q < w => q # Least(LateSlots)
        BY <3>1, <3>2, ClockFacts
      <3> QED BY <1>3, <3>2, <3>3
    <2>2. CASE ~(LateSlots # {} /\ t < Least(LateSlots))
      <3>1. w = Done
        BY <1>3, <2>2 DEF WindowNext
      <3>2. Done \notin Slots
        BY ClockFacts
      <3>3. \A q \in Slots : t < q /\ q \in LateSlots => q # Least(LateSlots)
        BY <2>2
      <3> QED BY <1>3, <3>1, <3>2, <3>3
    <2> QED BY <2>1, <2>2
  <1>4. CASE ~success
    <2>1. CASE after = {}
      <3>1. w = Done
        BY <1>4, <2>1 DEF WindowNext
      <3>2. Done \notin Slots
        BY ClockFacts
      <3>3. \A q \in Slots : t < q => q < nb
        BY <2>1, ClockFacts
      <3> QED BY <1>4, <3>1, <3>2, <3>3
    <2>2. CASE after # {}
      <3>1. w = Least(after)
        BY <1>4, <2>2 DEF WindowNext
      <3>2. w \in Slots /\ t < w
        BY <1>2, <2>2, <3>1
      <3>3. \A q \in Slots : t < q /\ q < w => q < nb
        <4> SUFFICES ASSUME NEW q \in Slots, t < q, q < w, ~(q < nb) PROVE FALSE
          OBVIOUS
        <4>1. q \in Nat /\ w \in Nat
          BY <3>2, ClockFacts
        <4>2. q \in after
          BY <4>1
        <4> HIDE DEF after, w
        <4> QED BY <1>2, <2>2, <3>1, <4>1, <4>2
      <3> QED BY <1>4, <3>2, <3>3
    <2> QED BY <2>1, <2>2
  <1> QED BY <1>3, <1>4

\* Where a row goes after a try at t: in the daytime at most to the first slot,
\* in the evening to a later slot or to none.
LEMMA NextTryIs ==
  ASSUME NEW t \in Nat, NEW success \in BOOLEAN, NEW deferred \in SUBSET Nat,
         deferred = {} \/ \E d \in Nat : deferred = {d}, NEW nb \in Nat
  PROVE  LET n == NextTry(t, success, deferred, nb)
         IN  /\ n \in 0..(DayEnd + 1)
             /\ t < Cap => n <= Cap
             /\ t >= Cap => n \in Slots \cup {Done} /\ (n \in Slots => t < n)
             /\ \A q \in Slots : t < q /\ q < n =>
                  \/ success /\ (q \in LateSlots => q # Least(LateSlots))
                  \/ ~success /\ q < nb
  <1> DEFINE n    == NextTry(t, success, deferred, nb)
             wait == IF deferred = {} THEN t + Interval ELSE Least(deferred)
  <1>1. CASE t < Cap
    <2>1. wait \in Nat
      BY ClockFacts, LeastIs
    <2>2. n = Lesser(wait, Cap)
      BY <1>1 DEF NextTry
    <2> HIDE DEF wait
    <2>3. n \in Nat /\ n <= Cap
      BY <2>1, <2>2, ClockFacts DEF Lesser
    <2>4. n \in 0..(DayEnd + 1) /\ \A q \in Slots : ~(q < n)
      BY <2>3, ClockFacts
    <2>5. ~(t >= Cap)
      BY <1>1, ClockFacts
    <2> QED BY <1>1, <2>3, <2>4, <2>5
  <1>2. CASE ~(t < Cap)
    <2>1. n = WindowNext(t, success, nb)
      BY <1>2 DEF NextTry
    <2>2. /\ n \in Slots \cup {Done}
          /\ n \in Slots => t < n
          /\ \A q \in Slots : t < q /\ q < n =>
               \/ success /\ (q \in LateSlots => q # Least(LateSlots))
               \/ ~success /\ q < nb
      BY <2>1, WindowNextIs
    <2>3. n \in 0..(DayEnd + 1)
      BY <2>2, ClockFacts
    <2> QED BY <1>2, <2>2, <2>3
  <1> QED BY <1>1, <1>2

-----------------------------------------------------------------------------
(* The gates.                                                               *)

LEMMA GateFacts ==
  ASSUME TypeOK
  PROVE  /\ now \in Nat /\ backoff \in Nat
         /\ \A k \in Kinds : hold[k] \in Nat
         /\ \A s \in Stations : due[s] \in Nat /\ pollAt[s] \in Nat
         /\ BillingDay \in Days /\ NextBilling \in Nat
         /\ \A d \in Days : calls[d] \in 0..Limit
  <1>1. {MaxTime, MaxDelay, Hold, BillAt, Limit} \subseteq Nat
    BY ConstantsAssumption
  <1>2. now \in Nat /\ backoff \in Nat
    BY <1>1 DEF TypeOK, Instants
  <1>3. \A k \in Kinds : hold[k] \in Nat
    BY <1>1 DEF TypeOK
  <1>4. \A s \in Stations : due[s] \in Nat /\ pollAt[s] \in Nat
    BY DEF TypeOK
  <1>5. BillingDay \in Days
    BY DEF BillingDay, Days
  <1>6. NextBilling \in Nat
    BY <1>1 DEF NextBilling
  <1>7. \A d \in Days : calls[d] \in 0..Limit
    BY DEF TypeOK
  <1> QED BY <1>2, <1>3, <1>4, <1>5, <1>6, <1>7

\* A call goes through the gates only while nothing bars it, and one that is
\* turned away learns an instant.
LEMMA RefusalIs ==
  ASSUME TypeOK, NEW kind \in Kinds
  PROVE  /\ Refusal(kind) = {} => ~BackedOff /\ ~Held(kind) /\ ~OverBudget
         /\ \A r \in Refusal(kind) : r.end \in Nat
  <1>0. backoff \in Nat /\ hold[kind] \in Nat /\ NextBilling \in Nat
    BY GateFacts
  <1>1. CASE BackedOff
    <2>1. Refusal(kind) = {[why |-> "backoff", end |-> backoff]}
      BY <1>1 DEF Refusal
    <2>2. Refusal(kind) # {} /\ \A r \in Refusal(kind) : r.end = backoff
      BY <2>1
    <2> QED BY <1>0, <2>2
  <1>2. CASE ~BackedOff /\ Held(kind)
    <2>1. Refusal(kind) = {[why |-> "held", end |-> hold[kind]]}
      BY <1>2 DEF Refusal
    <2>2. Refusal(kind) # {} /\ \A r \in Refusal(kind) : r.end = hold[kind]
      BY <2>1
    <2> QED BY <1>0, <2>2
  <1>3. CASE ~BackedOff /\ ~Held(kind) /\ OverBudget
    <2>1. Refusal(kind) = {[why |-> "limit", end |-> NextBilling]}
      BY <1>3 DEF Refusal
    <2>2. Refusal(kind) # {} /\ \A r \in Refusal(kind) : r.end = NextBilling
      BY <2>1
    <2> QED BY <1>0, <2>2
  <1>4. CASE ~BackedOff /\ ~Held(kind) /\ ~OverBudget
    <2>1. Refusal(kind) = {}
      BY <1>4 DEF Refusal
    <2> QED BY <1>4, <2>1
  <1> QED BY <1>1, <1>2, <1>3, <1>4

\* A call within the limit may be counted, and given back later.
LEMMA CountedCalls ==
  ASSUME TypeOK
  PROVE  /\ ~OverBudget /\ Reserve => calls' \in [Days -> 0..Limit]
         /\ \A d \in Days : Refund(d) => calls' \in [Days -> 0..Limit]
  <1>0. Limit \in Nat /\ BillingDay \in Days
    BY ConstantsAssumption, GateFacts
  <1>1. calls \in [Days -> 0..Limit]
    BY DEF TypeOK
  <1>2. ~OverBudget => calls[BillingDay] + 1 \in 0..Limit
    BY <1>0, <1>1 DEF OverBudget
  <1>3. \A d \in Days : (IF calls[d] = 0 THEN 0 ELSE calls[d] - 1) \in 0..Limit
    BY <1>0, <1>1
  <1>4. ~OverBudget /\ Reserve => calls' \in [Days -> 0..Limit]
    <2> HIDE DEF OverBudget, BillingDay
    <2> QED BY <1>0, <1>1, <1>2 DEF Reserve
  <1>5. ASSUME NEW d \in Days, Refund(d) PROVE calls' \in [Days -> 0..Limit]
    BY <1>1, <1>3, <1>5 DEF Refund
  <1> QED BY <1>4, <1>5

\* The instants a pause or a refusal lasts to.
LEMMA PausesFit ==
  ASSUME TypeOK
  PROVE  /\ \A d \in Delays : now + d \in 0..(MaxTime + MaxDelay)
         /\ \A k \in Kinds : Refuse(k) \/ Grant(k) =>
              /\ hold' \in [Kinds -> 0..(MaxTime + Hold)]
              /\ refused' \in [Kinds -> 0..(MaxTime + Hold)]
  <1>0. MaxTime \in Nat /\ MaxDelay \in Nat /\ Hold \in Nat /\ now \in 0..MaxTime
    BY ConstantsAssumption DEF TypeOK, Instants
  <1>1. \A d \in Delays : now + d \in 0..(MaxTime + MaxDelay)
    BY <1>0 DEF Delays
  <1>2. now + Hold \in 0..(MaxTime + Hold) /\ 0 \in 0..(MaxTime + Hold)
    BY <1>0
  <1>3. /\ hold \in [Kinds -> 0..(MaxTime + Hold)]
        /\ refused \in [Kinds -> 0..(MaxTime + Hold)]
    BY DEF TypeOK
  <1>4. \A k \in Kinds : Refuse(k) => /\ hold' \in [Kinds -> 0..(MaxTime + Hold)]
                                      /\ refused' \in [Kinds -> 0..(MaxTime + Hold)]
    BY <1>2, <1>3 DEF Refuse
  <1>5. \A k \in Kinds : Grant(k) => /\ hold' \in [Kinds -> 0..(MaxTime + Hold)]
                                     /\ refused' \in [Kinds -> 0..(MaxTime + Hold)]
    BY <1>2, <1>3 DEF Grant
  <1> QED BY <1>1, <1>4, <1>5

-----------------------------------------------------------------------------
(* The inductive invariant.                                                *)

\* What the lanes hold at each place of theirs.
LanesFit ==
  /\ main.at \in {"rows", "told", "calling", "fill", "filling"} => main.todo \subseteq Stations
  /\ main.at \in {"rows", "told", "calling"} => main.calls \in Nat
  /\ main.at \in {"told", "calling", "filling"} => main.st \in main.todo
  /\ main.at = "told" => main.end \in Nat
  /\ main.at \in {"calling", "filling"} => main.day \in Days
  /\ poller.at = "calling" => poller.st \in Stations /\ poller.day \in Days

\* A row of a chunk that is not done yet is as due as it was when the chunk
\* began, before the day's end.
TodoFits ==
  main.at \in {"rows", "told", "calling"} =>
    \A s \in main.todo : due[s] <= now /\ due[s] < DayEnd

\* A call goes on under no pause and no hold that is stored.
GatesOpen ==
  /\ main.at = "calling"   => ~BackedOff /\ ~Held("five_minute")
  /\ main.at = "filling"   => ~BackedOff /\ ~Held("hourly")
  /\ poller.at = "calling" => ~BackedOff /\ ~Held("current_obs")
  /\ adder = "calling"     => ~BackedOff

\* What was last recorded is still what is stored while it lasts, except a pause
\* that an addition erased.
Remembered ==
  /\ asked > now => erased \/ backoff = asked
  /\ \A k \in Kinds : refused[k] > now => hold[k] = refused[k]

InTry(s) == main.at \in {"told", "calling"} /\ main.st = s

\* Once an evening slot of it was tried, a row waits for a later slot or for
\* none; while the try goes on, or when it was cut short, for no earlier one.
SlotsFit ==
  \A s \in Stations : tried[s] # 0 =>
    /\ tried[s] <= now
    /\ InTry(s) \/ s \in cut => due[s] = 0 \/ tried[s] <= due[s]
    /\ ~(InTry(s) \/ s \in cut) => due[s] \in Slots \cup {Done} /\ tried[s] < due[s]

Inv ==
  /\ TypeOK
  /\ LanesFit
  /\ GatesOpen
  /\ Remembered
  /\ TodoFits
  /\ SlotsFit

-----------------------------------------------------------------------------
(* What a step does to the rows and their log: the outcome of a try moves    *)
(* the row it was of and logs the try, and no other step changes either.     *)

\* The row of s moves as a try at this instant moves it.
RowMoves(s, success, nb) ==
  /\ due' \in [Stations -> 0..(MaxTime + Interval + Defer + MaxDelay + DayEnd + 1)]
  /\ \A r \in Stations : r # s => due'[r] = due[r]
  /\ now < Cap => due'[s] <= Cap
  /\ now >= Cap => due'[s] \in Slots \cup {Done} /\ (due'[s] \in Slots => now < due'[s])
  /\ \A q \in Slots : now < q /\ q < due'[s] =>
       \/ success /\ (q \in LateSlots => q # Least(LateSlots))
       \/ ~success /\ q < nb

Outcome ==
  \/ WindDeclined \/ WindAnswered \/ WindFailed
  \/ WindThrottled \/ WindNetwork \/ WindBroken

\* A try of the row of s ends: the row moves, or is left by an error.
RowTried(s) ==
  /\ main' = Idle \/ main' = RowsThat(main, s)
  /\ UNCHANGED <<now, tried>>
  /\ \/ UNCHANGED due /\ cut' = cut \cup {s}
     \/ UNCHANGED cut /\ \E success \in BOOLEAN, nb \in Nat : RowMoves(s, success, nb)

LEMMA MovedIs ==
  ASSUME TypeOK, NEW s \in Stations, NEW success \in BOOLEAN, NEW deferred \in SUBSET Nat,
         deferred = {} \/ \E d \in Nat : deferred = {d}, NEW nb \in Nat,
         Moved(s, success, deferred, nb)
  PROVE  RowMoves(s, success, nb)
  <1> DEFINE n == NextTry(now, success, deferred, nb)
  <1>1. now \in Nat
    BY GateFacts
  <1>2. /\ n \in 0..(DayEnd + 1)
        /\ now < Cap => n <= Cap
        /\ now >= Cap => n \in Slots \cup {Done} /\ (n \in Slots => now < n)
        /\ \A q \in Slots : now < q /\ q < n =>
             \/ success /\ (q \in LateSlots => q # Least(LateSlots))
             \/ ~success /\ q < nb
    BY <1>1, NextTryIs
  <1> HIDE DEF n
  <1>3. due' = [due EXCEPT ![s] = n]
    BY DEF Moved, n
  <1>4. due \in [Stations -> 0..(MaxTime + Interval + Defer + MaxDelay + DayEnd + 1)]
    BY DEF TypeOK
  <1>5. n \in 0..(MaxTime + Interval + Defer + MaxDelay + DayEnd + 1)
    BY <1>2, ConstantsAssumption
  <1>6. due'[s] = n /\ \A r \in Stations : r # s => due'[r] = due[r]
    BY <1>3, <1>4
  <1>7. due' \in [Stations -> 0..(MaxTime + Interval + Defer + MaxDelay + DayEnd + 1)]
    BY <1>3, <1>4, <1>5
  <1> QED BY <1>2, <1>6, <1>7 DEF RowMoves

\* How each outcome moves the row of its try.
LEMMA OutcomeMoves ==
  ASSUME Inv
  PROVE  /\ main.at \in {"told", "calling"} => main.st \in Stations /\ main.st \in main.todo
         /\ WindDeclined => \/ main.why = "held" /\ RowMoves(main.st, FALSE, 0)
                            \/ main.why # "held" /\ RowMoves(main.st, FALSE, main.end)
         /\ WindAnswered => RowMoves(main.st, TRUE, 0)
         /\ WindFailed => RowMoves(main.st, FALSE, 0)
         /\ WindThrottled => backoff' \in Nat /\ RowMoves(main.st, FALSE, backoff')
         /\ WindNetwork => RowMoves(main.st, FALSE, 0)
         /\ WindBroken => UNCHANGED due \/ RowMoves(main.st, FALSE, 0)
  <1>0. TypeOK /\ LanesFit /\ now \in Nat /\ {} \in SUBSET Nat
    BY GateFacts DEF Inv
  <1>1. main.at \in {"told", "calling"} => main.st \in Stations /\ main.st \in main.todo
    BY <1>0 DEF LanesFit
  <1>2. ASSUME WindDeclined
        PROVE  \/ main.why = "held" /\ RowMoves(main.st, FALSE, 0)
               \/ main.why # "held" /\ RowMoves(main.st, FALSE, main.end)
    <2>1. main.st \in Stations /\ main.end \in Nat
      BY <1>0, <1>1, <1>2 DEF WindDeclined, LanesFit
    <2>2. CASE main.why = "held"
      <3>1. Moved(main.st, FALSE, {}, 0)
        BY <1>2, <2>2 DEF WindDeclined
      <3> QED BY <1>0, <2>1, <2>2, <3>1, MovedIs
    <2>3. CASE main.why # "held"
      <3>1. Moved(main.st, FALSE, {main.end}, main.end)
        BY <1>2, <2>3 DEF WindDeclined
      <3> QED BY <1>0, <2>1, <2>3, <3>1, MovedIs
    <2> QED BY <2>2, <2>3
  <1>3. ASSUME WindAnswered PROVE RowMoves(main.st, TRUE, 0)
    <2>1. main.st \in Stations /\ Moved(main.st, TRUE, {}, 0)
      BY <1>1, <1>3 DEF WindAnswered, Calling
    <2> QED BY <1>0, <2>1, MovedIs
  <1>4. ASSUME WindFailed PROVE RowMoves(main.st, FALSE, 0)
    <2>1. main.st \in Stations /\ Moved(main.st, FALSE, {}, 0)
      BY <1>1, <1>4 DEF WindFailed, Calling
    <2> QED BY <1>0, <2>1, MovedIs
  <1>5. ASSUME WindThrottled PROVE backoff' \in Nat /\ RowMoves(main.st, FALSE, backoff')
    <2>1. main.st \in Stations
      BY <1>1, <1>5 DEF WindThrottled, Calling
    <2>2. PICK d \in Delays : backoff' = now + d /\ Moved(main.st, FALSE, {now + d}, now + d)
      BY <1>5 DEF WindThrottled, Pause
    <2>3. now + d \in Nat
      BY <1>0, <2>2, ClockFacts DEF Delays
    <2>4. RowMoves(main.st, FALSE, now + d)
      BY <1>0, <2>1, <2>2, <2>3, MovedIs
    <2> QED BY <2>2, <2>3, <2>4
  <1>6. ASSUME WindNetwork PROVE RowMoves(main.st, FALSE, 0)
    <2>1. main.st \in Stations /\ Moved(main.st, FALSE, {now + Defer}, 0)
      BY <1>1, <1>6 DEF WindNetwork, Calling
    <2>2. now + Defer \in Nat
      BY <1>0, ClockFacts
    <2> QED BY <1>0, <2>1, <2>2, MovedIs
  <1>7. ASSUME WindBroken PROVE UNCHANGED due \/ RowMoves(main.st, FALSE, 0)
    <2>1. main.st \in Stations /\ (Moved(main.st, FALSE, {}, 0) \/ UNCHANGED due)
      BY <1>1, <1>7 DEF WindBroken, Calling
    <2> QED BY <1>0, <2>1, MovedIs
  <1> QED BY <1>1, <1>2, <1>3, <1>4, <1>5, <1>6, <1>7

LEMMA OutcomeTries ==
  ASSUME Inv, Outcome
  PROVE  main.at \in {"told", "calling"} /\ RowTried(main.st)
  <1>0. main.at = "told" => main.st \in Stations /\ main.end \in Nat
    BY DEF Inv, LanesFit
  <1>1. CASE WindDeclined
    <2>1. RowMoves(main.st, FALSE, 0) \/ RowMoves(main.st, FALSE, main.end)
      BY <1>1, OutcomeMoves
    <2> QED BY <1>0, <1>1, <2>1 DEF WindDeclined, RowTried
  <1>2. CASE WindAnswered
    BY <1>2, OutcomeMoves DEF WindAnswered, Calling, RowTried
  <1>3. CASE WindFailed
    BY <1>3, OutcomeMoves DEF WindFailed, Calling, RowTried
  <1>4. CASE WindThrottled
    BY <1>4, OutcomeMoves DEF WindThrottled, Calling, RowTried
  <1>5. CASE WindNetwork
    BY <1>5, OutcomeMoves DEF WindNetwork, Calling, RowTried
  <1>6. CASE WindBroken
    <2>1. main.at = "calling" /\ main' = Idle /\ UNCHANGED <<now, tried>>
      BY <1>6 DEF WindBroken, Calling
    <2>2. CASE cut' = cut \cup {main.st} /\ UNCHANGED due
      BY <2>1, <2>2 DEF RowTried
    <2>3. CASE Moved(main.st, FALSE, {}, 0) /\ UNCHANGED cut
      <3>1. main.st \in Stations /\ TypeOK /\ {} \in SUBSET Nat
        BY <2>1, OutcomeMoves DEF Inv
      <3>2. RowMoves(main.st, FALSE, 0)
        BY <2>3, <3>1, MovedIs
      <3> QED BY <2>1, <2>3, <3>2 DEF RowTried
    <2> QED BY <1>6, <2>2, <2>3 DEF WindBroken
  <1> QED BY <1>1, <1>2, <1>3, <1>4, <1>5, <1>6 DEF Outcome

\* A try of the row of s begins.
TryStarts(s) ==
  /\ main.at = "rows" /\ s \in main.todo
  /\ main'.at \in {"told", "calling"} /\ main'.st = s
  /\ UNCHANGED <<now, due>> /\ TryBegins(s)

\* No other step touches the rows or is of another try.
RowsRest ==
  /\ UNCHANGED <<due, tried, cut>>
  /\ now' = now \/ now' = now + 1
  /\ main.at \in {"told", "calling"} => main' = main
  /\ main'.at \in {"told", "calling"} => main' = main

LEMMA RowSteps ==
  ASSUME [Next]_vars
  PROVE  Outcome \/ Stop \/ (\E s \in Stations : TryStarts(s)) \/ RowsRest
  <1> SUFFICES ASSUME ~Outcome, ~Stop
               PROVE  (\E s \in Stations : TryStarts(s)) \/ RowsRest
    OBVIOUS
  <1>1. ASSUME NEW s \in Stations, WindReserve(s) \/ WindDecline(s) PROVE TryStarts(s)
    BY <1>1 DEF WindReserve, WindDecline, NextRow, TryStarts
  <1>2. CASE WindStart \/ WindEnd \/ \E s \in Stations : WindSkip(s)
    BY <1>2 DEF WindStart, WindEnd, WindSkip, NextRow, RowsThat, Idle, RowsRest
  <1>3. CASE FillStart \/ FillEnd \/ FillOutcome
             \/ \E s \in Stations : FillDecline(s) \/ FillReserve(s)
    BY <1>3 DEF FillStart, FillEnd, FillOutcome, FillDecline, FillReserve, FillThat, Idle,
                RowsRest
  <1>4. CASE Poll
    BY <1>4 DEF Poll, PollEnds, PollAnswered, PollBroken, PollRefused, PollThrottled,
                PollReserve, PollDecline, RowsRest
  <1>5. CASE Add
    BY <1>5 DEF Add, AddReserve, AddAnswered, AddWrite, RowsRest
  <1>6. CASE Tick \/ \E s \in Stations : Switch(s)
    BY <1>6 DEF Tick, Switch, RowsRest
  <1>7. CASE UNCHANGED vars
    BY <1>7 DEF vars, RowsRest
  <1> QED BY <1>1, <1>2, <1>3, <1>4, <1>5, <1>6, <1>7 DEF Next, Wind, Fill, Outcome

\* The log is written by the outcome of a try, under the slot of its row.
LEMMA LogStep ==
  ASSUME Inv, [Next]_vars
  PROVE  log' \in [Stations -> [slot : {0} \cup Slots, ok : BOOLEAN]]
  <1>1. log \in [Stations -> [slot : {0} \cup Slots, ok : BOOLEAN]]
    BY DEF Inv, TypeOK
  <1>2. ASSUME NEW success \in BOOLEAN, Outcome, Logged(main.st, success)
        PROVE  log' \in [Stations -> [slot : {0} \cup Slots, ok : BOOLEAN]]
    <2>1. main.st \in Stations /\ due[main.st] \in Nat /\ now \in Nat /\ due[main.st] <= now
      BY <1>2, OutcomeMoves, OutcomeTries, GateFacts DEF Inv, TodoFits
    <2>2. SlotLabel(due[main.st], now) \in {0} \cup Slots
      BY <2>1, SlotLabelIs
    <2> QED BY <1>1, <1>2, <2>2 DEF Logged
  <1>3. CASE Outcome
    BY <1>1, <1>2, <1>3 DEF Outcome, WindDeclined, WindAnswered, WindFailed, WindThrottled,
                            WindNetwork, WindBroken
  <1>4. CASE ~Outcome
    <2>1. CASE Wind
      BY <1>1, <1>4, <2>1 DEF Wind, Outcome, WindStart, WindEnd, WindSkip, WindReserve,
                              WindDecline
    <2>2. CASE Fill
      BY <1>1, <2>2 DEF Fill, FillStart, FillEnd, FillOutcome, FillDecline, FillReserve
    <2>3. CASE Poll
      BY <1>1, <2>3 DEF Poll, PollEnds, PollAnswered, PollBroken, PollRefused, PollThrottled,
                        PollReserve, PollDecline
    <2>4. CASE Add
      BY <1>1, <2>4 DEF Add, AddReserve, AddAnswered, AddWrite
    <2>5. CASE Stop \/ Tick \/ \E s \in Stations : Switch(s)
      BY <1>1, <2>5 DEF Stop, Tick, Switch
    <2>6. CASE UNCHANGED vars
      BY <1>1, <2>6 DEF vars
    <2> QED BY <2>1, <2>2, <2>3, <2>4, <2>5, <2>6 DEF Next
  <1> QED BY <1>3, <1>4

\* The slot a try begins with: later than the row's latest one, or the same if
\* that one was cut short.
SlotIsNew(s) ==
  LET slot == SlotLabel(due[s], now)
  IN  tried[s] < slot \/ (tried[s] = slot /\ (slot = 0 \/ s \in cut))

LEMMA TryIsNew ==
  ASSUME Inv, NEW s \in Stations, main.at = "rows", s \in main.todo
  PROVE  /\ SlotIsNew(s)
         /\ SlotLabel(due[s], now) \in {0} \cup Slots
         /\ SlotLabel(due[s], now) <= now
         /\ due[s] # 0 => SlotLabel(due[s], now) <= due[s]
  <1> DEFINE slot == SlotLabel(due[s], now)
  <1>1. due[s] \in Nat /\ now \in Nat /\ due[s] <= now /\ due[s] < DayEnd
    BY GateFacts DEF Inv, TodoFits
  <1>2. /\ slot \in {0} \cup Slots
        /\ slot <= now
        /\ due[s] \in Slots /\ due[s] # 0 => slot = due[s]
        /\ due[s] # 0 => slot <= due[s]
        /\ \A q \in Slots : q <= now /\ (due[s] = 0 \/ q <= due[s]) => q <= slot
    BY <1>1, SlotLabelIs
  <1>3. slot \in Nat /\ tried[s] \in {0} \cup Slots /\ tried[s] \in Nat
    BY <1>2, ClockFacts DEF Inv, TypeOK
  <1>4. SlotsFit /\ ~InTry(s)
    BY DEF Inv, InTry
  <1> HIDE DEF slot
  <1>5. CASE tried[s] = 0
    <2>1. tried[s] < slot \/ (tried[s] = slot /\ slot = 0)
      BY <1>3, <1>5
    <2> QED BY <1>2, <2>1 DEF SlotIsNew, slot
  <1>6. CASE tried[s] # 0 /\ s \in cut
    <2>1. tried[s] \in Slots /\ tried[s] <= now /\ (due[s] = 0 \/ tried[s] <= due[s])
      BY <1>3, <1>4, <1>6 DEF SlotsFit
    <2>2. tried[s] <= slot
      BY <1>2, <2>1
    <2>3. tried[s] < slot \/ tried[s] = slot
      BY <1>3, <2>2
    <2> QED BY <1>2, <1>6, <2>3 DEF SlotIsNew, slot
  <1>7. CASE tried[s] # 0 /\ s \notin cut
    <2>1. due[s] \in Slots \cup {Done} /\ tried[s] < due[s]
      BY <1>4, <1>7 DEF SlotsFit
    <2>2. due[s] \in Slots /\ due[s] # 0
      BY <1>1, <1>3, <2>1, ClockFacts
    <2>3. slot = due[s]
      BY <1>2, <2>2
    <2> QED BY <1>2, <2>1, <2>3 DEF SlotIsNew, slot
  <1> QED BY <1>5, <1>6, <1>7

\* The row of a try that ends waits for a later slot than the one tried, or is
\* left as one whose try was cut short.
LEMMA TriedRow ==
  ASSUME Inv, NEW s \in Stations, RowTried(s), tried[s] # 0, InTry(s),
         due[s] <= now
  PROVE  /\ tried'[s] <= now'
         /\ s \in cut' => due'[s] = 0 \/ tried'[s] <= due'[s]
         /\ s \notin cut' => due'[s] \in Slots \cup {Done} /\ tried'[s] < due'[s]
  <1>1. /\ now \in Nat /\ due[s] \in Nat
        /\ tried[s] \in Slots /\ tried[s] \in Nat /\ tried[s] < DayEnd /\ Cap <= tried[s]
    BY GateFacts, ClockFacts DEF Inv, TypeOK
  <1>2. tried[s] <= now /\ (due[s] = 0 \/ tried[s] <= due[s])
    BY DEF Inv, SlotsFit
  <1>3. tried' = tried /\ now' = now
    BY DEF RowTried
  <1>4. CASE UNCHANGED due /\ cut' = cut \cup {s}
    BY <1>2, <1>3, <1>4
  <1>5. CASE UNCHANGED cut /\ \E success \in BOOLEAN, nb \in Nat : RowMoves(s, success, nb)
    <2>1. now >= Cap
      BY <1>1, <1>2, ClockFacts
    <2>2. due'[s] \in Slots \cup {Done} /\ (due'[s] \in Slots => now < due'[s])
      BY <1>5, <2>1 DEF RowMoves
    <2>3. tried[s] < due'[s]
      <3>1. CASE due'[s] \in Slots
        BY <1>1, <1>2, <2>2, <3>1, ClockFacts
      <3>2. CASE due'[s] = Done
        BY <1>1, <3>2, ClockFacts
      <3> QED BY <2>2, <3>1, <3>2
    <2>4. due'[s] \in Nat
      BY <2>2, ClockFacts
    <2>5. tried[s] <= due'[s]
      BY <1>1, <2>3, <2>4
    <2> QED BY <1>2, <1>3, <2>2, <2>3, <2>5
  <1> QED BY <1>4, <1>5 DEF RowTried

\* What a try's begin and end, a stop and the other steps do to the rows.
LEMMA RowsStep ==
  ASSUME Inv, [Next]_vars
  PROVE  /\ due' \in [Stations -> 0..(MaxTime + Interval + Defer + MaxDelay + DayEnd + 1)]
         /\ tried' \in [Stations -> {0} \cup Slots] /\ cut' \subseteq Stations
         /\ SlotsFit'
  <1> DEFINE Dues == [Stations -> 0..(MaxTime + Interval + Defer + MaxDelay + DayEnd + 1)]
             Goal == /\ due' \in Dues
                     /\ tried' \in [Stations -> {0} \cup Slots] /\ cut' \subseteq Stations
                     /\ SlotsFit'
  <1>0. /\ SlotsFit /\ now \in Nat
        /\ due \in Dues /\ tried \in [Stations -> {0} \cup Slots] /\ cut \subseteq Stations
        /\ \A s \in Stations : due[s] \in Nat /\ tried[s] \in Nat
    BY GateFacts, ClockFacts DEF Inv, TypeOK
  <1>1. main.at \in {"told", "calling"} => main.st \in Stations /\ due[main.st] <= now
    BY OutcomeMoves DEF Inv, TodoFits
  <1>2. CASE Outcome
    <2>1. /\ main.at \in {"told", "calling"} /\ main.st \in Stations
          /\ due[main.st] <= now /\ RowTried(main.st)
      BY <1>1, <1>2, OutcomeTries
    <2>2. /\ due' \in Dues
          /\ \A r \in Stations : r # main.st => due'[r] = due[r]
          /\ cut' \subseteq Stations
          /\ \A r \in Stations : r # main.st => (r \in cut' <=> r \in cut)
          /\ tried' = tried /\ now' = now
          /\ main'.at \in {"idle", "rows"}
      BY <1>0, <2>1 DEF RowTried, RowMoves, Idle, RowsThat
    <2>3. InTry(main.st) /\ \A r \in Stations : ~InTry(r)' /\ (r # main.st => ~InTry(r))
      BY <2>1, <2>2 DEF InTry
    <2>4. tried[main.st] # 0 =>
            /\ tried'[main.st] <= now'
            /\ main.st \in cut' => due'[main.st] = 0 \/ tried'[main.st] <= due'[main.st]
            /\ main.st \notin cut' => /\ due'[main.st] \in Slots \cup {Done}
                                      /\ tried'[main.st] < due'[main.st]
      BY <2>1, <2>3, TriedRow
    <2>5. SlotsFit'
      <3> SUFFICES ASSUME NEW r \in Stations, tried'[r] # 0
                   PROVE  /\ tried'[r] <= now'
                          /\ InTry(r)' \/ r \in cut' => due'[r] = 0 \/ tried'[r] <= due'[r]
                          /\ ~(InTry(r)' \/ r \in cut') =>
                               due'[r] \in Slots \cup {Done} /\ tried'[r] < due'[r]
        BY DEF SlotsFit
      <3>1. CASE r = main.st
        BY <2>2, <2>3, <2>4, <3>1
      <3>2. CASE r # main.st
        BY <1>0, <2>2, <2>3, <3>2 DEF SlotsFit
      <3> QED BY <3>1, <3>2
    <2> QED BY <1>0, <2>2, <2>5
  <1>3. CASE Stop
    <2>1. /\ UNCHANGED <<now, due, tried>> /\ main' = Idle
          /\ cut' = IF main.at \in {"told", "calling"} THEN cut \cup {main.st} ELSE cut
      BY <1>3 DEF Stop
    <2>2. \A r \in Stations : ~InTry(r)' /\ (InTry(r) \/ r \in cut <=> r \in cut')
      BY <2>1 DEF InTry, Idle
    <2>3. SlotsFit'
      BY <1>0, <2>1, <2>2 DEF SlotsFit
    <2> QED BY <1>0, <1>1, <2>1, <2>3
  <1>4. ASSUME NEW s \in Stations, TryStarts(s) PROVE Goal
    <2> DEFINE slot == SlotLabel(due[s], now)
    <2>1. /\ main.at = "rows" /\ s \in main.todo
          /\ main'.at \in {"told", "calling"} /\ main'.st = s
          /\ now' = now /\ due' = due /\ cut' = cut \ {s}
          /\ tried' = [tried EXCEPT ![s] = slot]
      BY <1>4 DEF TryStarts, TryBegins
    <2>2. slot \in {0} \cup Slots /\ slot <= now /\ (due[s] # 0 => slot <= due[s])
      BY <2>1, TryIsNew
    <2> HIDE DEF slot
    <2>3. /\ tried' \in [Stations -> {0} \cup Slots]
          /\ tried'[s] = slot /\ \A r \in Stations : r # s => tried'[r] = tried[r]
      BY <1>0, <2>1, <2>2
    <2>4. \A r \in Stations : ~InTry(r) /\ (InTry(r)' <=> r = s)
      BY <2>1 DEF InTry
    <2>5. SlotsFit'
      <3> SUFFICES ASSUME NEW r \in Stations, tried'[r] # 0
                   PROVE  /\ tried'[r] <= now'
                          /\ InTry(r)' \/ r \in cut' => due'[r] = 0 \/ tried'[r] <= due'[r]
                          /\ ~(InTry(r)' \/ r \in cut') =>
                               due'[r] \in Slots \cup {Done} /\ tried'[r] < due'[r]
        BY DEF SlotsFit
      <3>1. CASE r = s
        BY <2>1, <2>2, <2>3, <2>4, <3>1
      <3>2. CASE r # s
        BY <1>0, <2>1, <2>3, <2>4, <3>2 DEF SlotsFit
      <3> QED BY <3>1, <3>2
    <2> QED BY <1>0, <2>1, <2>3, <2>5
  <1>5. CASE RowsRest
    <2>1. /\ UNCHANGED <<due, tried, cut>> /\ (now' = now \/ now' = now + 1)
          /\ \A r \in Stations : InTry(r)' <=> InTry(r)
      BY <1>5 DEF RowsRest, InTry
    <2>2. \A r \in Stations : tried[r] <= now => tried'[r] <= now'
      BY <1>0, <2>1
    <2>3. SlotsFit'
      BY <1>0, <2>1, <2>2 DEF SlotsFit
    <2> QED BY <1>0, <2>1, <2>3
  <1> QED BY <1>2, <1>3, <1>4, <1>5, RowSteps

-----------------------------------------------------------------------------
(* Each step keeps the invariant.                                            *)

\* The clock, the switches of the stations and the bound.
LEMMA WorldStep ==
  ASSUME Inv, [Next]_vars
  PROVE  now' \in Instants /\ enabled' \in [Stations -> BOOLEAN] /\ upsets' \in 0..MaxUpsets
  <1>a. /\ MaxTime \in Nat /\ MaxUpsets \in Nat
        /\ now \in Instants /\ enabled \in [Stations -> BOOLEAN] /\ upsets \in 0..MaxUpsets
    BY ConstantsAssumption DEF Inv, TypeOK
  <1>1. CASE WindStart
    BY <1>a, <1>1 DEF WindStart, Instants
  <1>2. CASE WindEnd
    BY <1>a, <1>2 DEF WindEnd, Instants
  <1>3. ASSUME NEW s \in Stations, WindSkip(s) PROVE now' \in Instants /\ enabled' \in [Stations -> BOOLEAN] /\ upsets' \in 0..MaxUpsets
    BY <1>a, <1>3 DEF WindSkip, NextRow, RowsThat, Instants
  <1>4. ASSUME NEW s \in Stations, WindReserve(s) PROVE now' \in Instants /\ enabled' \in [Stations -> BOOLEAN] /\ upsets' \in 0..MaxUpsets
    BY <1>a, <1>4 DEF WindReserve, NextRow, Instants
  <1>5. ASSUME NEW s \in Stations, WindDecline(s) PROVE now' \in Instants /\ enabled' \in [Stations -> BOOLEAN] /\ upsets' \in 0..MaxUpsets
    BY <1>a, <1>5 DEF WindDecline, NextRow, Instants
  <1>6. CASE WindDeclined
    BY <1>a, <1>6 DEF WindDeclined, RowsThat, Instants
  <1>7. CASE WindAnswered
    BY <1>a, <1>7 DEF WindAnswered, Calling, RowsThat, Instants
  <1>8. CASE WindFailed
    BY <1>a, <1>8 DEF WindFailed, Calling, RowsThat, Instants
  <1>9. CASE WindThrottled
    BY <1>a, <1>9 DEF WindThrottled, Calling, Idle, Instants
  <1>10. CASE WindNetwork
    BY <1>a, <1>10 DEF WindNetwork, Calling, RowsThat, Idle, Instants
  <1>11. CASE WindBroken
    BY <1>a, <1>11 DEF WindBroken, Calling, Idle, Instants
  <1>12. CASE FillStart
    BY <1>a, <1>12 DEF FillStart, Idle, Instants
  <1>13. CASE FillEnd
    BY <1>a, <1>13 DEF FillEnd, Idle, Instants
  <1>14. ASSUME NEW s \in Stations, FillDecline(s) PROVE now' \in Instants /\ enabled' \in [Stations -> BOOLEAN] /\ upsets' \in 0..MaxUpsets
    BY <1>a, <1>14 DEF FillDecline, FillThat, Instants
  <1>15. ASSUME NEW s \in Stations, FillReserve(s) PROVE now' \in Instants /\ enabled' \in [Stations -> BOOLEAN] /\ upsets' \in 0..MaxUpsets
    BY <1>a, <1>15 DEF FillReserve, Instants
  <1>16. CASE FillOutcome
    BY <1>a, <1>16 DEF FillOutcome, FillThat, Instants
  <1>17. ASSUME NEW s \in Stations, PollReserve(s) PROVE now' \in Instants /\ enabled' \in [Stations -> BOOLEAN] /\ upsets' \in 0..MaxUpsets
    BY <1>a, <1>17 DEF PollReserve, Idle, Instants
  <1>18. ASSUME NEW s \in Stations, PollDecline(s) PROVE now' \in Instants /\ enabled' \in [Stations -> BOOLEAN] /\ upsets' \in 0..MaxUpsets
    BY <1>a, <1>18 DEF PollDecline, Instants
  <1>19. CASE PollAnswered
    BY <1>a, <1>19 DEF PollAnswered, PollEnds, Idle, Instants
  <1>20. CASE PollBroken
    BY <1>a, <1>20 DEF PollBroken, PollEnds, Idle, Instants
  <1>21. CASE PollRefused
    BY <1>a, <1>21 DEF PollRefused, PollEnds, Idle, Instants
  <1>22. CASE PollThrottled
    BY <1>a, <1>22 DEF PollThrottled, PollEnds, Idle, Instants
  <1>23. CASE AddReserve
    BY <1>a, <1>23 DEF AddReserve, Instants
  <1>24. CASE AddAnswered
    BY <1>a, <1>24 DEF AddAnswered, Instants
  <1>25. CASE AddWrite
    BY <1>a, <1>25 DEF AddWrite, Instants
  <1>26. ASSUME NEW s \in Stations, Switch(s) PROVE now' \in Instants /\ enabled' \in [Stations -> BOOLEAN] /\ upsets' \in 0..MaxUpsets
    BY <1>a, <1>26 DEF Switch, Instants
  <1>27. CASE Stop
    BY <1>a, <1>27 DEF Stop, Idle, Instants
  <1>28. CASE Tick
    BY <1>a, <1>28 DEF Tick, Instants
  <1>29. CASE UNCHANGED vars
    BY <1>a, <1>29 DEF vars, Instants
  <1> QED BY <1>1, <1>2, <1>3, <1>4, <1>5, <1>6, <1>7, <1>8, <1>9, <1>10, <1>11, <1>12,
             <1>13, <1>14, <1>15, <1>16, <1>17, <1>18, <1>19, <1>20, <1>21, <1>22, <1>23,
             <1>24, <1>25, <1>26, <1>27, <1>28, <1>29
             DEF Next, Wind, Fill, Poll, Add

\* The instants the lanes' jobs wait for.
LEMMA WaitsStep ==
  ASSUME Inv, [Next]_vars
  PROVE  pollAt' \in [Stations -> Nat] /\ wake' \in Nat
  <1>a. pollAt \in [Stations -> Nat] /\ wake \in Nat /\ now \in Nat
    BY GateFacts DEF Inv, TypeOK
  <1>b. {PollFloor, PollPark, Cooldown, Hold, MaxDelay, Defer} \subseteq Nat /\ Cap \in Nat
    BY ConstantsAssumption, ClockFacts
  <1>c. \A d \in Delays : now + d \in Nat
    BY <1>a, <1>b DEF Delays
  <1>d. \A u \in Nat : CappedWake(u) \in Nat
    BY <1>b DEF CappedWake, Lesser
  <1>e. \A r \in Refusal("current_obs") : r.end \in Nat
    BY RefusalIs DEF Inv, Kinds
  <1>1. CASE WindStart
    BY <1>a, <1>1 DEF WindStart
  <1>2. CASE WindEnd
    BY <1>a, <1>2 DEF WindEnd
  <1>3. ASSUME NEW s \in Stations, WindSkip(s) PROVE pollAt' \in [Stations -> Nat] /\ wake' \in Nat
    BY <1>a, <1>3 DEF WindSkip, NextRow, RowsThat
  <1>4. ASSUME NEW s \in Stations, WindReserve(s) PROVE pollAt' \in [Stations -> Nat] /\ wake' \in Nat
    BY <1>a, <1>4 DEF WindReserve, NextRow
  <1>5. ASSUME NEW s \in Stations, WindDecline(s) PROVE pollAt' \in [Stations -> Nat] /\ wake' \in Nat
    BY <1>a, <1>5 DEF WindDecline, NextRow
  <1>6. CASE WindDeclined
    BY <1>a, <1>6 DEF WindDeclined, RowsThat
  <1>7. CASE WindAnswered
    BY <1>a, <1>7 DEF WindAnswered, Calling, RowsThat
  <1>8. CASE WindFailed
    BY <1>a, <1>8 DEF WindFailed, Calling, RowsThat
  <1>9. CASE WindThrottled
    <2>1. PICK d \in Delays : wake' = CappedWake(now + d)
      BY <1>9 DEF WindThrottled
    <2>2. UNCHANGED pollAt
      BY <1>9 DEF WindThrottled
    <2> QED BY <1>a, <1>c, <1>d, <2>1, <2>2
  <1>10. CASE WindNetwork
    <2>1. UNCHANGED wake \/ wake' = CappedWake(now + Defer)
      BY <1>10 DEF WindNetwork
    <2>2. UNCHANGED pollAt /\ now + Defer \in Nat
      BY <1>a, <1>b, <1>10 DEF WindNetwork
    <2> QED BY <1>a, <1>d, <2>1, <2>2
  <1>11. CASE WindBroken
    BY <1>a, <1>11, <1>b DEF WindBroken, Calling, Idle
  <1>12. CASE FillStart
    BY <1>a, <1>12 DEF FillStart, Idle
  <1>13. CASE FillEnd
    BY <1>a, <1>13 DEF FillEnd, Idle
  <1>14. ASSUME NEW s \in Stations, FillDecline(s) PROVE pollAt' \in [Stations -> Nat] /\ wake' \in Nat
    BY <1>a, <1>14 DEF FillDecline, FillThat
  <1>15. ASSUME NEW s \in Stations, FillReserve(s) PROVE pollAt' \in [Stations -> Nat] /\ wake' \in Nat
    BY <1>a, <1>15 DEF FillReserve
  <1>16. CASE FillOutcome
    BY <1>a, <1>16 DEF FillOutcome, FillThat
  <1>17. ASSUME NEW s \in Stations, PollReserve(s) PROVE pollAt' \in [Stations -> Nat] /\ wake' \in Nat
    BY <1>a, <1>17 DEF PollReserve, Idle
  <1>18. ASSUME NEW s \in Stations, PollDecline(s) PROVE pollAt' \in [Stations -> Nat] /\ wake' \in Nat
    BY <1>a, <1>18, <1>e DEF PollDecline
  <1>19. CASE PollAnswered
    <2>1. PICK wait \in {PollFloor, PollPark} : NextPoll(now + wait)
      BY <1>19 DEF PollAnswered
    <2>2. now + wait \in Nat /\ UNCHANGED wake
      BY <1>a, <1>b, <1>19 DEF PollAnswered, PollEnds
    <2> QED BY <1>a, <2>1, <2>2 DEF NextPoll
  <1>20. CASE PollBroken
    <2>1. PICK wait \in {0, Cooldown} : pollAt' = [pollAt EXCEPT ![poller.st] = now + wait]
      BY <1>20 DEF PollBroken
    <2>2. now + wait \in Nat /\ UNCHANGED wake
      BY <1>a, <1>b, <1>20 DEF PollBroken, PollEnds
    <2> QED BY <1>a, <2>1, <2>2
  <1>21. CASE PollRefused
    <2>1. pollAt' = [pollAt EXCEPT ![poller.st] = now + Hold] /\ UNCHANGED wake
      BY <1>21 DEF PollRefused, PollEnds
    <2>2. now + Hold \in Nat
      BY <1>a, <1>b
    <2> QED BY <1>a, <2>1, <2>2
  <1>22. CASE PollThrottled
    BY <1>a, <1>22, <1>c DEF PollThrottled, PollEnds, Idle
  <1>23. CASE AddReserve
    BY <1>a, <1>23 DEF AddReserve
  <1>24. CASE AddAnswered
    BY <1>a, <1>24 DEF AddAnswered
  <1>25. CASE AddWrite
    BY <1>a, <1>25 DEF AddWrite
  <1>26. ASSUME NEW s \in Stations, Switch(s) PROVE pollAt' \in [Stations -> Nat] /\ wake' \in Nat
    BY <1>a, <1>26 DEF Switch
  <1>27. CASE Stop
    BY <1>a, <1>27 DEF Stop, Idle
  <1>28. CASE Tick
    BY <1>a, <1>28 DEF Tick
  <1>29. CASE UNCHANGED vars
    BY <1>a, <1>29 DEF vars
  <1> QED BY <1>1, <1>2, <1>3, <1>4, <1>5, <1>6, <1>7, <1>8, <1>9, <1>10, <1>11, <1>12,
             <1>13, <1>14, <1>15, <1>16, <1>17, <1>18, <1>19, <1>20, <1>21, <1>22, <1>23,
             <1>24, <1>25, <1>26, <1>27, <1>28, <1>29
             DEF Next, Wind, Fill, Poll, Add

\* The pauses, the holds and the counted calls.
GatesFit ==
  /\ hold \in [Kinds -> 0..(MaxTime + Hold)] /\ refused \in [Kinds -> 0..(MaxTime + Hold)]
  /\ backoff \in 0..(MaxTime + MaxDelay) /\ asked \in 0..(MaxTime + MaxDelay)
  /\ erased \in BOOLEAN
  /\ calls \in [Days -> 0..Limit]

LEMMA GatesStep ==
  ASSUME Inv, [Next]_vars
  PROVE  GatesFit'
  <1>a. GatesFit
    BY DEF Inv, TypeOK, GatesFit
  <1>b. /\ \A d \in Delays : now + d \in 0..(MaxTime + MaxDelay)
        /\ \A k \in Kinds : Refuse(k) \/ Grant(k) =>
             /\ hold' \in [Kinds -> 0..(MaxTime + Hold)]
             /\ refused' \in [Kinds -> 0..(MaxTime + Hold)]
    BY PausesFit DEF Inv
  <1>c. 0 \in 0..(MaxTime + MaxDelay)
    BY ConstantsAssumption
  <1>d. \A k \in Kinds : Refusal(k) = {} => ~OverBudget
    BY RefusalIs DEF Inv
  <1>e. \A d \in Days : Refund(d) => calls' \in [Days -> 0..Limit]
    BY CountedCalls DEF Inv
  <1>f. ~OverBudget /\ Reserve => calls' \in [Days -> 0..Limit]
    BY CountedCalls DEF Inv
  <1>g. /\ main.at \in {"calling", "filling"} => main.day \in Days
        /\ poller.at = "calling" => poller.day \in Days
    BY DEF Inv, LanesFit
  <1>1. CASE WindStart
    BY <1>a, <1>1 DEF WindStart, GatesFit
  <1>2. CASE WindEnd
    BY <1>a, <1>2 DEF WindEnd, GatesFit
  <1>3. ASSUME NEW s \in Stations, WindSkip(s) PROVE GatesFit'
    BY <1>a, <1>3 DEF WindSkip, GatesFit
  <1>4. ASSUME NEW s \in Stations, WindReserve(s) PROVE GatesFit'
    BY <1>a, <1>4, <1>d, <1>f DEF WindReserve, Kinds, GatesFit
  <1>5. ASSUME NEW s \in Stations, WindDecline(s) PROVE GatesFit'
    BY <1>a, <1>5 DEF WindDecline, GatesFit
  <1>6. CASE WindDeclined
    BY <1>a, <1>6 DEF WindDeclined, GatesFit
  <1>7. CASE WindAnswered
    BY <1>a, <1>7, <1>b, <1>c DEF WindAnswered, Resume, Kinds, GatesFit
  <1>8. CASE WindFailed
    BY <1>a, <1>8, <1>b DEF WindFailed, Kinds, GatesFit
  <1>9. CASE WindThrottled
    BY <1>a, <1>9, <1>b DEF WindThrottled, Pause, GatesFit
  <1>10. CASE WindNetwork
    BY <1>a, <1>10, <1>e, <1>g DEF WindNetwork, Calling, GatesFit
  <1>11. CASE WindBroken
    BY <1>a, <1>11 DEF WindBroken, GatesFit
  <1>12. CASE FillStart
    BY <1>a, <1>12 DEF FillStart, GatesFit
  <1>13. CASE FillEnd
    BY <1>a, <1>13 DEF FillEnd, GatesFit
  <1>14. ASSUME NEW s \in Stations, FillDecline(s) PROVE GatesFit'
    BY <1>a, <1>14 DEF FillDecline, GatesFit
  <1>15. ASSUME NEW s \in Stations, FillReserve(s) PROVE GatesFit'
    BY <1>a, <1>15, <1>d, <1>f DEF FillReserve, Kinds, GatesFit
  <1>16. CASE FillOutcome
    BY <1>a, <1>16, <1>b, <1>e, <1>g DEF FillOutcome, Pause, Kinds, GatesFit
  <1>17. ASSUME NEW s \in Stations, PollReserve(s) PROVE GatesFit'
    BY <1>a, <1>17, <1>d, <1>f DEF PollReserve, Kinds, GatesFit
  <1>18. ASSUME NEW s \in Stations, PollDecline(s) PROVE GatesFit'
    BY <1>a, <1>18 DEF PollDecline, GatesFit
  <1>19. CASE PollAnswered
    BY <1>a, <1>19, <1>b DEF PollAnswered, PollEnds, Kinds, GatesFit
  <1>20. CASE PollBroken
    BY <1>a, <1>20, <1>e, <1>g DEF PollBroken, PollEnds, GatesFit
  <1>21. CASE PollRefused
    BY <1>a, <1>21, <1>b DEF PollRefused, PollEnds, Kinds, GatesFit
  <1>22. CASE PollThrottled
    BY <1>a, <1>22, <1>b DEF PollThrottled, PollEnds, Pause, GatesFit
  <1>23. CASE AddReserve
    BY <1>a, <1>23, <1>f DEF AddReserve, GatesFit
  <1>24. CASE AddAnswered
    BY <1>a, <1>24, <1>b DEF AddAnswered, Pause, GatesFit
  <1>25. CASE AddWrite
    BY <1>a, <1>25, <1>c DEF AddWrite, GatesFit
  <1>26. ASSUME NEW s \in Stations, Switch(s) PROVE GatesFit'
    BY <1>a, <1>26 DEF Switch, GatesFit
  <1>27. CASE Stop
    BY <1>a, <1>27 DEF Stop, GatesFit
  <1>28. CASE Tick
    BY <1>a, <1>28 DEF Tick, GatesFit
  <1>29. CASE UNCHANGED vars
    BY <1>a, <1>29 DEF vars, GatesFit
  <1> QED BY <1>1, <1>2, <1>3, <1>4, <1>5, <1>6, <1>7, <1>8, <1>9, <1>10, <1>11, <1>12,
             <1>13, <1>14, <1>15, <1>16, <1>17, <1>18, <1>19, <1>20, <1>21, <1>22, <1>23,
             <1>24, <1>25, <1>26, <1>27, <1>28, <1>29
             DEF Next, Wind, Fill, Poll, Add

\* Where each lane is, and who holds the call lock.
PlacesFit ==
  /\ lock \in {"free", "main", "poll", "add"}
  /\ main.at \in {"idle", "rows", "told", "calling", "fill", "filling"}
  /\ poller.at \in {"idle", "calling"}
  /\ adder \in {"idle", "calling", "writing"}
  /\ lock = "main" <=> main.at \in {"told", "calling", "filling"}
  /\ lock = "poll" <=> poller.at = "calling"
  /\ lock = "add" <=> adder = "calling"

\* A lane holds the call lock while it calls, and no other does.
LEMMA PlacesStep ==
  ASSUME Inv, [Next]_vars
  PROVE  PlacesFit'
  <1>a. PlacesFit
    BY DEF Inv, TypeOK, PlacesFit
  <1>1. CASE WindStart
    BY <1>a, <1>1 DEF WindStart, PlacesFit, LockFree, Idle
  <1>2. CASE WindEnd
    BY <1>a, <1>2 DEF WindEnd, PlacesFit, LockFree, Idle
  <1>3. ASSUME NEW s \in Stations, WindSkip(s) PROVE PlacesFit'
    BY <1>a, <1>3 DEF WindSkip, NextRow, RowsThat, PlacesFit, LockFree, Idle
  <1>4. ASSUME NEW s \in Stations, WindReserve(s) PROVE PlacesFit'
    BY <1>a, <1>4 DEF WindReserve, NextRow, PlacesFit, LockFree, Idle
  <1>5. ASSUME NEW s \in Stations, WindDecline(s) PROVE PlacesFit'
    BY <1>a, <1>5 DEF WindDecline, NextRow, PlacesFit, LockFree, Idle
  <1>6. CASE WindDeclined
    BY <1>a, <1>6 DEF WindDeclined, RowsThat, PlacesFit, LockFree, Idle
  <1>7. CASE WindAnswered
    BY <1>a, <1>7 DEF WindAnswered, Calling, RowsThat, PlacesFit, LockFree, Idle
  <1>8. CASE WindFailed
    BY <1>a, <1>8 DEF WindFailed, Calling, RowsThat, PlacesFit, LockFree, Idle
  <1>9. CASE WindThrottled
    BY <1>a, <1>9 DEF WindThrottled, Calling, Idle, PlacesFit, LockFree
  <1>10. CASE WindNetwork
    BY <1>a, <1>10 DEF WindNetwork, Calling, RowsThat, Idle, PlacesFit, LockFree
  <1>11. CASE WindBroken
    BY <1>a, <1>11 DEF WindBroken, Calling, Idle, PlacesFit, LockFree
  <1>12. CASE FillStart
    BY <1>a, <1>12 DEF FillStart, Idle, PlacesFit, LockFree
  <1>13. CASE FillEnd
    BY <1>a, <1>13 DEF FillEnd, Idle, PlacesFit, LockFree
  <1>14. ASSUME NEW s \in Stations, FillDecline(s) PROVE PlacesFit'
    BY <1>a, <1>14 DEF FillDecline, FillThat, PlacesFit, LockFree, Idle
  <1>15. ASSUME NEW s \in Stations, FillReserve(s) PROVE PlacesFit'
    BY <1>a, <1>15 DEF FillReserve, PlacesFit, LockFree, Idle
  <1>16. CASE FillOutcome
    BY <1>a, <1>16 DEF FillOutcome, FillThat, PlacesFit, LockFree, Idle
  <1>17. ASSUME NEW s \in Stations, PollReserve(s) PROVE PlacesFit'
    BY <1>a, <1>17 DEF PollReserve, Idle, PlacesFit, LockFree
  <1>18. ASSUME NEW s \in Stations, PollDecline(s) PROVE PlacesFit'
    BY <1>a, <1>18 DEF PollDecline, PlacesFit, LockFree, Idle
  <1>19. CASE PollAnswered
    BY <1>a, <1>19 DEF PollAnswered, PollEnds, Idle, PlacesFit, LockFree
  <1>20. CASE PollBroken
    BY <1>a, <1>20 DEF PollBroken, PollEnds, Idle, PlacesFit, LockFree
  <1>21. CASE PollRefused
    BY <1>a, <1>21 DEF PollRefused, PollEnds, Idle, PlacesFit, LockFree
  <1>22. CASE PollThrottled
    BY <1>a, <1>22 DEF PollThrottled, PollEnds, Idle, PlacesFit, LockFree
  <1>23. CASE AddReserve
    BY <1>a, <1>23 DEF AddReserve, PlacesFit, LockFree, Idle
  <1>24. CASE AddAnswered
    BY <1>a, <1>24 DEF AddAnswered, PlacesFit, LockFree, Idle
  <1>25. CASE AddWrite
    BY <1>a, <1>25 DEF AddWrite, PlacesFit, LockFree, Idle
  <1>26. ASSUME NEW s \in Stations, Switch(s) PROVE PlacesFit'
    BY <1>a, <1>26 DEF Switch, PlacesFit, LockFree, Idle
  <1>27. CASE Stop
    BY <1>a, <1>27 DEF Stop, Idle, PlacesFit, LockFree
  <1>28. CASE Tick
    BY <1>a, <1>28 DEF Tick, PlacesFit, LockFree, Idle
  <1>29. CASE UNCHANGED vars
    BY <1>a, <1>29 DEF vars, PlacesFit, LockFree, Idle
  <1> QED BY <1>1, <1>2, <1>3, <1>4, <1>5, <1>6, <1>7, <1>8, <1>9, <1>10, <1>11, <1>12,
             <1>13, <1>14, <1>15, <1>16, <1>17, <1>18, <1>19, <1>20, <1>21, <1>22, <1>23,
             <1>24, <1>25, <1>26, <1>27, <1>28, <1>29
             DEF Next, Wind, Fill, Poll, Add

\* What the lanes hold.
LEMMA LanesStep ==
  ASSUME Inv, [Next]_vars
  PROVE  LanesFit'
  <1>a. LanesFit /\ PlacesFit
    BY DEF Inv, TypeOK, PlacesFit
  <1>b. BillingDay \in Days
    BY GateFacts DEF Inv
  <1>c. \A k \in Kinds : \A r \in Refusal(k) : r.end \in Nat
    BY RefusalIs DEF Inv
  <1>1. CASE WindStart
    BY <1>a, <1>1 DEF WindStart, LanesFit, PlacesFit, Idle
  <1>2. CASE WindEnd
    BY <1>a, <1>2 DEF WindEnd, LanesFit, PlacesFit, Idle
  <1>3. ASSUME NEW s \in Stations, WindSkip(s) PROVE LanesFit'
    BY <1>a, <1>3 DEF WindSkip, NextRow, RowsThat, LanesFit, PlacesFit, Idle
  <1>4. ASSUME NEW s \in Stations, WindReserve(s) PROVE LanesFit'
    BY <1>a, <1>4, <1>b DEF WindReserve, NextRow, LanesFit, PlacesFit, Idle
  <1>5. ASSUME NEW s \in Stations, WindDecline(s) PROVE LanesFit'
    BY <1>a, <1>5, <1>c DEF WindDecline, NextRow, Kinds, LanesFit, PlacesFit, Idle
  <1>6. CASE WindDeclined
    BY <1>a, <1>6 DEF WindDeclined, RowsThat, LanesFit, PlacesFit, Idle
  <1>7. CASE WindAnswered
    BY <1>a, <1>7 DEF WindAnswered, Calling, RowsThat, LanesFit, PlacesFit, Idle
  <1>8. CASE WindFailed
    BY <1>a, <1>8 DEF WindFailed, Calling, RowsThat, LanesFit, PlacesFit, Idle
  <1>9. CASE WindThrottled
    BY <1>a, <1>9 DEF WindThrottled, Calling, Idle, LanesFit, PlacesFit
  <1>10. CASE WindNetwork
    BY <1>a, <1>10 DEF WindNetwork, Calling, RowsThat, Idle, LanesFit, PlacesFit
  <1>11. CASE WindBroken
    BY <1>a, <1>11 DEF WindBroken, Calling, Idle, LanesFit, PlacesFit
  <1>12. CASE FillStart
    BY <1>a, <1>12 DEF FillStart, Idle, LanesFit, PlacesFit
  <1>13. CASE FillEnd
    BY <1>a, <1>13 DEF FillEnd, Idle, LanesFit, PlacesFit
  <1>14. ASSUME NEW s \in Stations, FillDecline(s) PROVE LanesFit'
    BY <1>a, <1>14 DEF FillDecline, FillThat, LanesFit, PlacesFit, Idle
  <1>15. ASSUME NEW s \in Stations, FillReserve(s) PROVE LanesFit'
    BY <1>a, <1>15, <1>b DEF FillReserve, LanesFit, PlacesFit, Idle
  <1>16. CASE FillOutcome
    BY <1>a, <1>16 DEF FillOutcome, FillThat, LanesFit, PlacesFit, Idle
  <1>17. ASSUME NEW s \in Stations, PollReserve(s) PROVE LanesFit'
    BY <1>a, <1>17, <1>b DEF PollReserve, Idle, LanesFit, PlacesFit
  <1>18. ASSUME NEW s \in Stations, PollDecline(s) PROVE LanesFit'
    BY <1>a, <1>18 DEF PollDecline, LanesFit, PlacesFit, Idle
  <1>19. CASE PollAnswered
    BY <1>a, <1>19 DEF PollAnswered, PollEnds, Idle, LanesFit, PlacesFit
  <1>20. CASE PollBroken
    BY <1>a, <1>20 DEF PollBroken, PollEnds, Idle, LanesFit, PlacesFit
  <1>21. CASE PollRefused
    BY <1>a, <1>21 DEF PollRefused, PollEnds, Idle, LanesFit, PlacesFit
  <1>22. CASE PollThrottled
    BY <1>a, <1>22 DEF PollThrottled, PollEnds, Idle, LanesFit, PlacesFit
  <1>23. CASE AddReserve
    BY <1>a, <1>23 DEF AddReserve, LanesFit, PlacesFit, Idle
  <1>24. CASE AddAnswered
    BY <1>a, <1>24 DEF AddAnswered, LanesFit, PlacesFit, Idle
  <1>25. CASE AddWrite
    BY <1>a, <1>25 DEF AddWrite, LanesFit, PlacesFit, Idle
  <1>26. ASSUME NEW s \in Stations, Switch(s) PROVE LanesFit'
    BY <1>a, <1>26 DEF Switch, LanesFit, PlacesFit, Idle
  <1>27. CASE Stop
    BY <1>a, <1>27 DEF Stop, Idle, LanesFit, PlacesFit
  <1>28. CASE Tick
    BY <1>a, <1>28 DEF Tick, LanesFit, PlacesFit, Idle
  <1>29. CASE UNCHANGED vars
    BY <1>a, <1>29 DEF vars, LanesFit, PlacesFit, Idle
  <1> QED BY <1>1, <1>2, <1>3, <1>4, <1>5, <1>6, <1>7, <1>8, <1>9, <1>10, <1>11, <1>12,
             <1>13, <1>14, <1>15, <1>16, <1>17, <1>18, <1>19, <1>20, <1>21, <1>22, <1>23,
             <1>24, <1>25, <1>26, <1>27, <1>28, <1>29
             DEF Next, Wind, Fill, Poll, Add

\* The call lock covers the checks, the call and its outcome.
LEMMA GatesHold ==
  ASSUME Inv, [Next]_vars
  PROVE  GatesOpen'
  <1>a. GatesOpen /\ PlacesFit
    BY DEF Inv, TypeOK, PlacesFit
  <1>b. \A k \in Kinds : Refusal(k) = {} => ~BackedOff /\ ~Held(k)
    BY RefusalIs DEF Inv
  <1>c. hold \in [Kinds -> 0..(MaxTime + Hold)]
    BY DEF Inv, TypeOK
  <1>d. /\ now \in Nat /\ backoff \in Nat /\ {MaxTime, Hold} \subseteq Nat
        /\ \A k \in Kinds : hold[k] \in Nat
    BY ConstantsAssumption, GateFacts DEF Inv
  <1>1. CASE WindStart
    BY <1>a, <1>1 DEF WindStart, GatesOpen, BackedOff, Held, PlacesFit, Idle
  <1>2. CASE WindEnd
    BY <1>a, <1>2 DEF WindEnd, GatesOpen, BackedOff, Held, PlacesFit, Idle
  <1>3. ASSUME NEW s \in Stations, WindSkip(s) PROVE GatesOpen'
    BY <1>a, <1>3
       DEF WindSkip, NextRow, RowsThat, GatesOpen, BackedOff, Held, PlacesFit,
           Idle
  <1>4. ASSUME NEW s \in Stations, WindReserve(s) PROVE GatesOpen'
    BY <1>a, <1>4, <1>b
       DEF WindReserve, NextRow, Kinds, LockFree, GatesOpen, BackedOff, Held,
           PlacesFit, Idle
  <1>5. ASSUME NEW s \in Stations, WindDecline(s) PROVE GatesOpen'
    BY <1>a, <1>5
       DEF WindDecline, NextRow, LockFree, GatesOpen, BackedOff, Held, PlacesFit,
           Idle
  <1>6. CASE WindDeclined
    BY <1>a, <1>6
       DEF WindDeclined, RowsThat, GatesOpen, BackedOff, Held, PlacesFit, Idle
  <1>7. CASE WindAnswered
    BY <1>a, <1>7, <1>c, <1>d
       DEF WindAnswered, Calling, RowsThat, Grant, Kinds, GatesOpen, BackedOff,
           Held, PlacesFit, Idle
  <1>8. CASE WindFailed
    BY <1>a, <1>8, <1>c, <1>d
       DEF WindFailed, Calling, RowsThat, Refuse, Kinds, GatesOpen, BackedOff,
           Held, PlacesFit, Idle
  <1>9. CASE WindThrottled
    BY <1>a, <1>9
       DEF WindThrottled, Calling, Idle, GatesOpen, BackedOff, Held, PlacesFit
  <1>10. CASE WindNetwork
    BY <1>a, <1>10
       DEF WindNetwork, Calling, RowsThat, Idle, GatesOpen, BackedOff, Held,
           PlacesFit
  <1>11. CASE WindBroken
    BY <1>a, <1>11
       DEF WindBroken, Calling, Idle, GatesOpen, BackedOff, Held, PlacesFit
  <1>12. CASE FillStart
    BY <1>a, <1>12 DEF FillStart, Idle, GatesOpen, BackedOff, Held, PlacesFit
  <1>13. CASE FillEnd
    BY <1>a, <1>13 DEF FillEnd, Idle, GatesOpen, BackedOff, Held, PlacesFit
  <1>14. ASSUME NEW s \in Stations, FillDecline(s) PROVE GatesOpen'
    BY <1>a, <1>14
       DEF FillDecline, FillThat, GatesOpen, BackedOff, Held, PlacesFit, Idle
  <1>15. ASSUME NEW s \in Stations, FillReserve(s) PROVE GatesOpen'
    BY <1>a, <1>15, <1>b
       DEF FillReserve, Kinds, LockFree, GatesOpen, BackedOff, Held, PlacesFit,
           Idle
  <1>16. CASE FillOutcome
    BY <1>a, <1>16, <1>c, <1>d
       DEF FillOutcome, FillThat, Grant, Refuse, Kinds, GatesOpen, BackedOff,
           Held, PlacesFit, Idle
  <1>17. ASSUME NEW s \in Stations, PollReserve(s) PROVE GatesOpen'
    BY <1>a, <1>17, <1>b
       DEF PollReserve, Idle, Kinds, LockFree, GatesOpen, BackedOff, Held,
           PlacesFit
  <1>18. ASSUME NEW s \in Stations, PollDecline(s) PROVE GatesOpen'
    BY <1>a, <1>18 DEF PollDecline, GatesOpen, BackedOff, Held, PlacesFit, Idle
  <1>19. CASE PollAnswered
    BY <1>a, <1>19, <1>c, <1>d
       DEF PollAnswered, PollEnds, Idle, Grant, Kinds, GatesOpen, BackedOff, Held,
           PlacesFit
  <1>20. CASE PollBroken
    BY <1>a, <1>20
       DEF PollBroken, PollEnds, Idle, GatesOpen, BackedOff, Held, PlacesFit
  <1>21. CASE PollRefused
    BY <1>a, <1>21, <1>c, <1>d
       DEF PollRefused, PollEnds, Idle, Refuse, Kinds, GatesOpen, BackedOff, Held,
           PlacesFit
  <1>22. CASE PollThrottled
    BY <1>a, <1>22
       DEF PollThrottled, PollEnds, Idle, GatesOpen, BackedOff, Held, PlacesFit
  <1>23. CASE AddReserve
    BY <1>a, <1>23
       DEF AddReserve, LockFree, GatesOpen, BackedOff, Held, PlacesFit, Idle
  <1>24. CASE AddAnswered
    BY <1>a, <1>24 DEF AddAnswered, GatesOpen, BackedOff, Held, PlacesFit, Idle
  <1>25. CASE AddWrite
    BY <1>a, <1>25, <1>d DEF AddWrite, GatesOpen, BackedOff, Held, PlacesFit, Idle
  <1>26. ASSUME NEW s \in Stations, Switch(s) PROVE GatesOpen'
    BY <1>a, <1>26 DEF Switch, GatesOpen, BackedOff, Held, PlacesFit, Idle
  <1>27. CASE Stop
    BY <1>a, <1>27 DEF Stop, Idle, GatesOpen, BackedOff, Held, PlacesFit
  <1>28. CASE Tick
    BY <1>a, <1>28, <1>d
       DEF Tick, Kinds, GatesOpen, BackedOff, Held, PlacesFit, Idle
  <1>29. CASE UNCHANGED vars
    BY <1>a, <1>29 DEF vars, GatesOpen, BackedOff, Held, PlacesFit, Idle
  <1> QED BY <1>1, <1>2, <1>3, <1>4, <1>5, <1>6, <1>7, <1>8, <1>9, <1>10, <1>11, <1>12,
             <1>13, <1>14, <1>15, <1>16, <1>17, <1>18, <1>19, <1>20, <1>21, <1>22, <1>23,
             <1>24, <1>25, <1>26, <1>27, <1>28, <1>29
             DEF Next, Wind, Fill, Poll, Add

\* A pause or a hold that lasts is stored as it was recorded: only a call that is
\* barred by neither may end or replace it, but for an addition's last write.
LEMMA RememberedStep ==
  ASSUME Inv, [Next]_vars
  PROVE  Remembered'
  <1>a. Remembered
    BY DEF Inv
  <1>b. /\ main.at = "calling" => backoff <= now /\ hold["five_minute"] <= now
        /\ main.at = "filling" => hold["hourly"] <= now
        /\ poller.at = "calling" => hold["current_obs"] <= now
    BY GateFacts DEF Inv, GatesOpen, BackedOff, Held, Kinds
  <1>c. /\ now \in Nat /\ asked \in Nat /\ backoff \in Nat
        /\ \A k \in Kinds : refused[k] \in Nat /\ hold[k] \in Nat
    BY ConstantsAssumption DEF Inv, TypeOK, Instants
  <1>d. /\ hold \in [Kinds -> 0..(MaxTime + Hold)]
        /\ refused \in [Kinds -> 0..(MaxTime + Hold)]
    BY DEF Inv, TypeOK
  \* What the writes of an outcome leave remembered.
  <1>e. ASSUME NEW kind \in Kinds, Refuse(kind), now' = now
        PROVE  \A k \in Kinds : refused'[k] > now' => hold'[k] = refused'[k]
    BY <1>a, <1>d, <1>e DEF Remembered, Refuse
  <1>f. ASSUME NEW kind \in Kinds, Grant(kind), hold[kind] <= now, now' = now
        PROVE  \A k \in Kinds : refused'[k] > now' => hold'[k] = refused'[k]
    <2> SUFFICES ASSUME NEW k \in Kinds, refused'[k] > now'
                 PROVE  hold'[k] = refused'[k]
      OBVIOUS
    <2>1. refused[k] > now /\ hold[k] = refused[k]
      BY <1>a, <1>f DEF Remembered, Grant
    <2>2. k # kind
      BY <1>c, <1>f, <2>1
    <2> QED BY <1>d, <1>f, <2>1, <2>2 DEF Grant
  <1>g. \A d : Pause(d) => (asked' > now' => erased' \/ backoff' = asked')
    BY DEF Pause
  <1>1. CASE WindStart
    BY <1>a, <1>1 DEF WindStart, Remembered
  <1>2. CASE WindEnd
    BY <1>a, <1>2 DEF WindEnd, Remembered
  <1>3. ASSUME NEW s \in Stations, WindSkip(s) PROVE Remembered'
    BY <1>a, <1>3 DEF WindSkip, Remembered
  <1>4. ASSUME NEW s \in Stations, WindReserve(s) PROVE Remembered'
    BY <1>a, <1>4 DEF WindReserve, Remembered
  <1>5. ASSUME NEW s \in Stations, WindDecline(s) PROVE Remembered'
    BY <1>a, <1>5 DEF WindDecline, Remembered
  <1>6. CASE WindDeclined
    BY <1>a, <1>6 DEF WindDeclined, Remembered
  <1>7. CASE WindAnswered
    <2>1. /\ backoff <= now /\ hold["five_minute"] <= now /\ Grant("five_minute")
          /\ UNCHANGED <<now, asked, erased>> /\ "five_minute" \in Kinds
      BY <1>b, <1>7 DEF WindAnswered, Calling, Resume, Kinds
    <2>2. asked > now => erased
      BY <1>a, <1>c, <2>1 DEF Remembered
    <2> QED BY <1>f, <2>1, <2>2 DEF Remembered
  <1>8. CASE WindFailed
    <2>1. /\ UNCHANGED <<now, pauses>> /\ (Refuse("five_minute") \/ UNCHANGED holds)
          /\ "five_minute" \in Kinds
      BY <1>8 DEF WindFailed, Kinds
    <2> QED BY <1>a, <1>e, <2>1 DEF Remembered
  <1>9. CASE WindThrottled
    <2>1. UNCHANGED <<now, holds>> /\ \E d \in Delays : Pause(d)
      BY <1>9 DEF WindThrottled
    <2> QED BY <1>a, <1>g, <2>1 DEF Remembered
  <1>10. CASE WindNetwork
    BY <1>a, <1>10 DEF WindNetwork, Remembered
  <1>11. CASE WindBroken
    BY <1>a, <1>11 DEF WindBroken, Remembered
  <1>12. CASE FillStart
    BY <1>a, <1>12 DEF FillStart, Remembered
  <1>13. CASE FillEnd
    BY <1>a, <1>13 DEF FillEnd, Remembered
  <1>14. ASSUME NEW s \in Stations, FillDecline(s) PROVE Remembered'
    BY <1>a, <1>14 DEF FillDecline, Remembered
  <1>15. ASSUME NEW s \in Stations, FillReserve(s) PROVE Remembered'
    BY <1>a, <1>15 DEF FillReserve, Remembered
  <1>16. CASE FillOutcome
    <2>1. main.at = "filling" /\ UNCHANGED now /\ "hourly" \in Kinds
      BY <1>16 DEF FillOutcome, Kinds
    <2>2. CASE Grant("hourly") /\ UNCHANGED pauses
      BY <1>a, <1>b, <1>f, <2>1, <2>2 DEF Remembered
    <2>3. CASE Refuse("hourly") /\ UNCHANGED pauses
      BY <1>a, <1>e, <2>1, <2>3 DEF Remembered
    <2>4. CASE (\E d \in Delays : Pause(d)) /\ UNCHANGED holds
      BY <1>a, <1>g, <2>1, <2>4 DEF Remembered
    <2>5. CASE UNCHANGED <<holds, pauses>>
      BY <1>a, <2>1, <2>5 DEF Remembered
    <2> QED BY <1>16, <2>2, <2>3, <2>4, <2>5 DEF FillOutcome
  <1>17. ASSUME NEW s \in Stations, PollReserve(s) PROVE Remembered'
    BY <1>a, <1>17 DEF PollReserve, Remembered
  <1>18. ASSUME NEW s \in Stations, PollDecline(s) PROVE Remembered'
    BY <1>a, <1>18 DEF PollDecline, Remembered
  <1>19. CASE PollAnswered
    <2>1. /\ poller.at = "calling" /\ UNCHANGED <<now, pauses>> /\ "current_obs" \in Kinds
          /\ Grant("current_obs") \/ UNCHANGED holds
      BY <1>19 DEF PollAnswered, PollEnds, Kinds
    <2> QED BY <1>a, <1>b, <1>f, <2>1 DEF Remembered
  <1>20. CASE PollBroken
    BY <1>a, <1>20 DEF PollBroken, PollEnds, Remembered
  <1>21. CASE PollRefused
    <2>1. UNCHANGED <<now, pauses>> /\ Refuse("current_obs") /\ "current_obs" \in Kinds
      BY <1>21 DEF PollRefused, PollEnds, Kinds
    <2> QED BY <1>a, <1>e, <2>1 DEF Remembered
  <1>22. CASE PollThrottled
    <2>1. UNCHANGED <<now, holds>> /\ \E d \in Delays : Pause(d)
      BY <1>22 DEF PollThrottled, PollEnds
    <2> QED BY <1>a, <1>g, <2>1 DEF Remembered
  <1>23. CASE AddReserve
    BY <1>a, <1>23 DEF AddReserve, Remembered
  <1>24. CASE AddAnswered
    <2>1. UNCHANGED <<now, holds>> /\ (UNCHANGED pauses \/ \E d \in Delays : Pause(d))
      BY <1>24 DEF AddAnswered
    <2> QED BY <1>a, <1>g, <2>1 DEF Remembered
  <1>25. CASE AddWrite
    BY <1>a, <1>25 DEF AddWrite, Remembered
  <1>26. ASSUME NEW s \in Stations, Switch(s) PROVE Remembered'
    BY <1>a, <1>26 DEF Switch, Remembered
  <1>27. CASE Stop
    BY <1>a, <1>27 DEF Stop, Remembered
  <1>28. CASE Tick
    BY <1>a, <1>28, <1>c DEF Tick, Remembered
  <1>29. CASE UNCHANGED vars
    BY <1>a, <1>29 DEF vars, Remembered
  <1> QED BY <1>1, <1>2, <1>3, <1>4, <1>5, <1>6, <1>7, <1>8, <1>9, <1>10, <1>11, <1>12,
             <1>13, <1>14, <1>15, <1>16, <1>17, <1>18, <1>19, <1>20, <1>21, <1>22, <1>23,
             <1>24, <1>25, <1>26, <1>27, <1>28, <1>29
             DEF Next, Wind, Fill, Poll, Add

\* A row of the chunk that is not done yet is left alone.
LEMMA TodoStep ==
  ASSUME Inv, [Next]_vars
  PROVE  TodoFits'
  <1>a. TodoFits /\ LanesFit
    BY DEF Inv
  <1>b. Outcome => /\ main.at \in {"told", "calling"} /\ UNCHANGED now
                   /\ \A r \in Stations : r # main.st => due'[r] = due[r]
    BY OutcomeTries DEF RowTried, RowMoves
  <1>c. now \in Nat /\ DayEnd \in Nat /\ \A r \in Stations : due[r] \in Nat
    BY GateFacts, ClockFacts DEF Inv
  <1>d. main.at \in {"rows", "told", "calling"} => main.todo \subseteq Stations
    BY <1>a DEF LanesFit
  <1>1. CASE WindStart
    BY <1>a, <1>d, <1>1, <1>c DEF WindStart, TodoFits, Idle
  <1>2. CASE WindEnd
    BY <1>a, <1>d, <1>2 DEF WindEnd, TodoFits, Idle
  <1>3. ASSUME NEW s \in Stations, WindSkip(s) PROVE TodoFits'
    BY <1>a, <1>d, <1>3 DEF WindSkip, NextRow, RowsThat, TodoFits, Idle
  <1>4. ASSUME NEW s \in Stations, WindReserve(s) PROVE TodoFits'
    BY <1>a, <1>d, <1>4 DEF WindReserve, NextRow, TodoFits, Idle
  <1>5. ASSUME NEW s \in Stations, WindDecline(s) PROVE TodoFits'
    BY <1>a, <1>d, <1>5 DEF WindDecline, NextRow, TodoFits, Idle
  <1>6. CASE WindDeclined
    BY <1>a, <1>b, <1>d, <1>6 DEF Outcome, WindDeclined, RowsThat, TodoFits, Idle
  <1>7. CASE WindAnswered
    BY <1>a, <1>b, <1>d, <1>7 DEF Outcome, WindAnswered, Calling, RowsThat, TodoFits, Idle
  <1>8. CASE WindFailed
    BY <1>a, <1>b, <1>d, <1>8 DEF Outcome, WindFailed, Calling, RowsThat, TodoFits, Idle
  <1>9. CASE WindThrottled
    BY <1>a, <1>b, <1>d, <1>9 DEF Outcome, WindThrottled, Calling, TodoFits, Idle
  <1>10. CASE WindNetwork
    <2>1. main' = RowsThat(main, main.st) \/ main' = Idle
      BY <1>10 DEF WindNetwork
    <2>2. Outcome /\ UNCHANGED now
      BY <1>10 DEF WindNetwork, Outcome
    <2> QED BY <1>a, <1>b, <1>d, <1>d, <2>1, <2>2 DEF TodoFits, RowsThat, Idle
  <1>11. CASE WindBroken
    BY <1>a, <1>b, <1>d, <1>11 DEF Outcome, WindBroken, Calling, TodoFits, Idle
  <1>12. CASE FillStart
    BY <1>a, <1>d, <1>12 DEF FillStart, Idle, TodoFits
  <1>13. CASE FillEnd
    BY <1>a, <1>d, <1>13 DEF FillEnd, Idle, TodoFits
  <1>14. ASSUME NEW s \in Stations, FillDecline(s) PROVE TodoFits'
    BY <1>a, <1>d, <1>14 DEF FillDecline, FillThat, TodoFits, Idle
  <1>15. ASSUME NEW s \in Stations, FillReserve(s) PROVE TodoFits'
    BY <1>a, <1>d, <1>15 DEF FillReserve, TodoFits, Idle
  <1>16. CASE FillOutcome
    BY <1>a, <1>d, <1>16 DEF FillOutcome, FillThat, TodoFits, Idle
  <1>17. ASSUME NEW s \in Stations, PollReserve(s) PROVE TodoFits'
    BY <1>a, <1>d, <1>17 DEF PollReserve, Idle, TodoFits
  <1>18. ASSUME NEW s \in Stations, PollDecline(s) PROVE TodoFits'
    BY <1>a, <1>d, <1>18 DEF PollDecline, TodoFits, Idle
  <1>19. CASE PollAnswered
    BY <1>a, <1>d, <1>19 DEF PollAnswered, PollEnds, Idle, TodoFits
  <1>20. CASE PollBroken
    BY <1>a, <1>d, <1>20 DEF PollBroken, PollEnds, Idle, TodoFits
  <1>21. CASE PollRefused
    BY <1>a, <1>d, <1>21 DEF PollRefused, PollEnds, Idle, TodoFits
  <1>22. CASE PollThrottled
    BY <1>a, <1>d, <1>22 DEF PollThrottled, PollEnds, Idle, TodoFits
  <1>23. CASE AddReserve
    BY <1>a, <1>d, <1>23 DEF AddReserve, TodoFits, Idle
  <1>24. CASE AddAnswered
    BY <1>a, <1>d, <1>24 DEF AddAnswered, TodoFits, Idle
  <1>25. CASE AddWrite
    BY <1>a, <1>d, <1>25 DEF AddWrite, TodoFits, Idle
  <1>26. ASSUME NEW s \in Stations, Switch(s) PROVE TodoFits'
    BY <1>a, <1>d, <1>26 DEF Switch, TodoFits, Idle
  <1>27. CASE Stop
    BY <1>a, <1>d, <1>27 DEF Stop, Idle, TodoFits
  <1>28. CASE Tick
    BY <1>a, <1>d, <1>28, <1>c DEF Tick, TodoFits, Idle
  <1>29. CASE UNCHANGED vars
    BY <1>a, <1>d, <1>29 DEF vars, TodoFits, Idle
  <1> QED BY <1>1, <1>2, <1>3, <1>4, <1>5, <1>6, <1>7, <1>8, <1>9, <1>10, <1>11, <1>12,
             <1>13, <1>14, <1>15, <1>16, <1>17, <1>18, <1>19, <1>20, <1>21, <1>22, <1>23,
             <1>24, <1>25, <1>26, <1>27, <1>28, <1>29
             DEF Next, Wind, Fill, Poll, Add

-----------------------------------------------------------------------------
(* The theorems.                                                             *)

LEMMA InvInit == Init => Inv
  <1> SUFFICES ASSUME Init PROVE Inv
    OBVIOUS
  <1>1. /\ 0 \in Instants /\ 0 \in 0..MaxUpsets /\ 0 \in 0..(MaxTime + Hold)
        /\ 0 \in 0..(MaxTime + MaxDelay) /\ 0 \in 0..Limit
        /\ 0 \in 0..(MaxTime + Interval + Defer + MaxDelay + DayEnd + 1)
    BY ConstantsAssumption DEF Instants
  <1>2. now \in Instants /\ enabled \in [Stations -> BOOLEAN] /\ upsets \in 0..MaxUpsets
    BY <1>1 DEF Init
  <1>3. /\ due \in [Stations -> 0..(MaxTime + Interval + Defer + MaxDelay + DayEnd + 1)]
        /\ log \in [Stations -> [slot : {0} \cup Slots, ok : BOOLEAN]]
        /\ pollAt \in [Stations -> Nat] /\ wake \in Nat
    BY <1>1 DEF Init
  <1>4. /\ hold \in [Kinds -> 0..(MaxTime + Hold)] /\ backoff \in 0..(MaxTime + MaxDelay)
        /\ calls \in [Days -> 0..Limit]
    BY <1>1 DEF Init
  <1>5. main.at = "idle" /\ poller.at = "idle" /\ adder = "idle" /\ lock = "free"
    BY DEF Init, Idle
  <1>6. /\ asked \in 0..(MaxTime + MaxDelay) /\ erased \in BOOLEAN
        /\ refused \in [Kinds -> 0..(MaxTime + Hold)]
        /\ tried \in [Stations -> {0} \cup Slots] /\ cut \subseteq Stations
    BY <1>1 DEF Init
  <1>7. TypeOK
    BY <1>2, <1>3, <1>4, <1>5, <1>6 DEF TypeOK
  <1>8. \A s \in Stations : tried[s] = 0
    BY DEF Init
  <1>9. ~(asked > now) /\ \A k \in Kinds : ~(refused[k] > now)
    BY DEF Init
  <1> QED BY <1>5, <1>7, <1>8, <1>9
             DEF Inv, LanesFit, GatesOpen, Remembered, TodoFits, SlotsFit

LEMMA InvStep == Inv /\ [Next]_vars => Inv'
  <1> SUFFICES ASSUME Inv, [Next]_vars PROVE Inv'
    OBVIOUS
  <1>1. TypeOK'
    BY WorldStep, WaitsStep, GatesStep, PlacesStep, RowsStep, LogStep
       DEF TypeOK, PlacesFit, GatesFit
  <1> QED BY <1>1, LanesStep, GatesHold, RememberedStep, TodoStep, RowsStep DEF Inv

LEMMA InvAlways == Spec => []Inv
  BY InvInit, InvStep, PTL DEF Spec

\* The variables keep their types, and the call lock is held by the lane that
\* calls and by no other.
THEOREM TypeCorrect == Spec => []TypeOK
  <1>1. Inv => TypeOK
    BY DEF Inv
  <1> QED BY <1>1, InvAlways, PTL

LEMMA HeededByInv == Inv => AnswersHeeded
  <1> SUFFICES ASSUME Inv PROVE AnswersHeeded
    OBVIOUS
  <1>1. /\ now \in Nat /\ backoff \in Nat /\ asked \in Nat
        /\ \A k \in Kinds : refused[k] \in Nat /\ hold[k] \in Nat
    BY ConstantsAssumption DEF Inv, TypeOK, Instants
  <1>2. CallUnderWay => backoff <= now
    BY <1>1 DEF Inv, GatesOpen, BackedOff, CallUnderWay
  <1>3. CallUnderWay /\ asked > now => erased
    BY <1>1, <1>2 DEF Inv, Remembered
  <1>4. /\ main.at = "calling"   => hold["five_minute"] <= now
        /\ main.at = "filling"   => hold["hourly"] <= now
        /\ poller.at = "calling" => hold["current_obs"] <= now
    BY <1>1 DEF Inv, GatesOpen, Held, Kinds
  <1>5. \A k \in Kinds : hold[k] <= now => refused[k] <= now
    BY <1>1 DEF Inv, Remembered
  <1> QED BY <1>3, <1>4, <1>5 DEF AnswersHeeded, Kinds

\* No call runs before the end of the pause last recorded, unless a station's
\* addition ended after that record, and none of a kind within the hold of the
\* refusal last recorded for it, whatever the other callers have written since.
THEOREM CallsHeedAnswers == Spec => []AnswersHeeded
  <1> QED BY HeededByInv, InvAlways, PTL

\* The row whose try begins with a step is given a new slot: what SlotTriedOnce
\* asks of one step.
SlotTriedOnceStep ==
  \A s \in Stations :
    main.at = "rows" /\ main'.at \in {"told", "calling"} /\ main'.st = s =>
      LET slot == SlotLabel(due[s], now)
      IN  tried[s] < slot \/ (tried[s] = slot /\ (slot = 0 \/ s \in cut))

LEMMA TriedOnceByStep == Inv /\ [Next]_vars => SlotTriedOnceStep
  <1> SUFFICES ASSUME Inv, [Next]_vars, NEW s \in Stations,
                      main.at = "rows", main'.at \in {"told", "calling"}, main'.st = s
               PROVE  SlotIsNew(s)
    BY DEF SlotTriedOnceStep, SlotIsNew
  <1>1. ~Outcome
    BY OutcomeTries
  <1>2. ~Stop
    BY DEF Stop, Idle
  <1>3. ~RowsRest
    BY DEF RowsRest
  <1>4. TryStarts(s)
    BY <1>1, <1>2, <1>3, RowSteps DEF TryStarts
  <1> QED BY <1>4, TryIsNew DEF TryStarts

\* A try of a station's row is of a later evening slot than every try before it,
\* or of the latest one's slot if the process died during that try or a database
\* error left the row.
THEOREM SlotTriedAgainOnlyIfCut == Spec => SlotTriedOnce
  <1>1. Inv /\ [Next]_vars => [SlotTriedOnceStep]_vars
    BY TriedOnceByStep
  <1>2. Spec => [][SlotTriedOnceStep]_vars
    BY <1>1, InvAlways, PTL DEF Spec
  <1> QED BY <1>2 DEF SlotTriedOnce, SlotTriedOnceStep

\* A step that moves a row keeps the slots the row had to keep: what SlotsKept
\* asks of one step.
SlotsKeptStep ==
  \A s \in Stations : due'[s] # due[s] =>
    /\ now < Cap => due'[s] <= Cap
    /\ \A q \in Slots : now < q /\ q < due'[s] =>
         \/ /\ main.at = "calling" /\ log'[s].ok
            /\ q \in LateSlots => q # Least(LateSlots)
         \/ main.at = "calling" /\ q < backoff'
         \/ main.at = "told" /\ main.why # "held" /\ q < main.end

\* Which slots the row of s passes over when it moves.
LEMMA MovePasses ==
  ASSUME NEW s \in Stations, NEW success \in BOOLEAN, NEW nb \in Nat,
         RowMoves(s, success, nb)
  PROVE  /\ \A r \in Stations : due'[r] # due[r] => r = s
         /\ now < Cap => due'[s] <= Cap
         /\ \A q \in Slots : now < q /\ q < due'[s] =>
              \/ success /\ (q \in LateSlots => q # Least(LateSlots))
              \/ ~success /\ q < nb
  BY DEF RowMoves

LEMMA NoSlotBelowZero == \A q \in Slots : ~(q < 0)
  BY ClockFacts

LEMMA SlotsKeptByStep == Inv /\ [Next]_vars => SlotsKeptStep
  <1> SUFFICES ASSUME Inv, [Next]_vars PROVE SlotsKeptStep
    OBVIOUS
  <1>0. /\ main.at \in {"told", "calling"} => main.st \in Stations
        /\ main.at = "told" => main.end \in Nat
        /\ log \in [Stations -> [slot : {0} \cup Slots, ok : BOOLEAN]]
    BY OutcomeMoves DEF Inv, TypeOK, LanesFit
  <1>1. CASE ~Outcome
    <2>1. UNCHANGED due
      BY <1>1, RowSteps DEF Stop, TryStarts, RowsRest
    <2> QED BY <2>1 DEF SlotsKeptStep
  <1>2. CASE WindDeclined
    <2>1. main.at = "told" /\ main.st \in Stations
      BY <1>0, <1>2 DEF WindDeclined
    <2>2. CASE main.why = "held"
      <3>1. RowMoves(main.st, FALSE, 0)
        BY <1>2, <2>2, OutcomeMoves
      <3> QED BY <2>1, <3>1, MovePasses, NoSlotBelowZero DEF SlotsKeptStep
    <2>3. CASE main.why # "held"
      <3>1. RowMoves(main.st, FALSE, main.end)
        BY <1>2, <2>3, OutcomeMoves
      <3> QED BY <1>0, <2>1, <2>3, <3>1, MovePasses DEF SlotsKeptStep
    <2> QED BY <2>2, <2>3
  <1>3. CASE WindAnswered
    <2>1. main.at = "calling" /\ main.st \in Stations /\ RowMoves(main.st, TRUE, 0)
      BY <1>0, <1>3, OutcomeMoves DEF WindAnswered, Calling
    <2>2. log'[main.st].ok
      BY <1>0, <1>3, <2>1 DEF WindAnswered, Logged
    <2> QED BY <2>1, <2>2, MovePasses DEF SlotsKeptStep
  <1>4. CASE WindThrottled
    <2>1. /\ main.at = "calling" /\ main.st \in Stations
          /\ backoff' \in Nat /\ RowMoves(main.st, FALSE, backoff')
      BY <1>0, <1>4, OutcomeMoves DEF WindThrottled, Calling
    <2> QED BY <2>1, MovePasses DEF SlotsKeptStep
  <1>5. CASE WindFailed \/ WindNetwork \/ WindBroken
    <2>1. /\ main.at = "calling" /\ main.st \in Stations
          /\ UNCHANGED due \/ RowMoves(main.st, FALSE, 0)
      BY <1>0, <1>5, OutcomeMoves DEF WindFailed, WindNetwork, WindBroken, Calling
    <2>2. CASE UNCHANGED due
      BY <2>2 DEF SlotsKeptStep
    <2>3. CASE RowMoves(main.st, FALSE, 0)
      BY <2>1, <2>3, MovePasses, NoSlotBelowZero DEF SlotsKeptStep
    <2> QED BY <2>1, <2>2, <2>3
  <1> QED BY <1>1, <1>2, <1>3, <1>4, <1>5 DEF Outcome

\* A try moves its row over an evening slot still ahead only if it was answered
\* and the slot is not the late one, or up to the end of the pause it met; a try
\* of the daytime never moves it past the evening's first slot.
THEOREM SlotsAreKept == Spec => SlotsKept
  <1>1. Inv /\ [Next]_vars => [SlotsKeptStep]_vars
    BY SlotsKeptByStep
  <1>2. Spec => [][SlotsKeptStep]_vars
    BY <1>1, InvAlways, PTL DEF Spec
  <1> QED BY <1>2 DEF SlotsKept, SlotsKeptStep
=============================================================================
