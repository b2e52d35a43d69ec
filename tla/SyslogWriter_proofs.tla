------------------------ MODULE SyslogWriter_proofs -------------------------
(* Proofs that SyslogWriter keeps the lines it acknowledged and that its     *)
(* space guard drops older days first, for any sizes, bounds and faults.     *)
EXTENDS SyslogWriter, WellFoundedInduction, TLAPS

-----------------------------------------------------------------------------
(* The next segment number.                                                  *)

\* A set of numbers below a bound has a largest one.
LEMMA HasLargest ==
  ASSUME NEW n \in Nat, NEW S \in SUBSET (1..n), S # {}
  PROVE  \E m \in S : \A x \in S : x <= m
  <1> DEFINE T == {n - x : x \in S}
  <1>0. \A x \in S : n - x \in Nat
    OBVIOUS
  <1>1. T \subseteq Nat /\ T # {}
    BY <1>0
  <1>2. PICK t \in T : \A u \in T : ~(<<u, t>> \in OpToRel(<, Nat))
    <2> HIDE DEF T
    <2> QED BY <1>1, NatLessThanWellFounded, WFMin
  <1>3. \A u \in T : ~(u < t)
    BY <1>1, <1>2 DEF OpToRel
  <1>4. PICK m \in S : t = n - m
    OBVIOUS
  <1>5. \A x \in S : n - x \in T /\ x \in Nat /\ m \in Nat
    OBVIOUS
  <1> HIDE DEF T
  <1> QED BY <1>3, <1>4, <1>5

LEMMA NextSeqFresh ==
  ASSUME LogTypeOK, NEW d
  PROVE  /\ NextSeq(d) \in Nat \ {0}
         /\ \A a \in archives : a.day = d => a.seq < NextSeq(d)
  <1>0. MaxSeq \in Nat \ {0} /\ archives \subseteq Archive
    BY LogAssumption DEF LogTypeOK
  <1>1. \A a \in Numbered(d) : a \in archives /\ a.seq \in 1..MaxSeq
    BY <1>0 DEF Numbered, Archive
  <1>2. CASE Numbered(d) = {}
    <2>1. \A a \in archives : a.day = d => a.seq = 0
      BY <1>0, <1>2 DEF Numbered, Archive
    <2> QED BY <1>2, <2>1 DEF NextSeq
  <1>3. CASE Numbered(d) # {}
    <2> DEFINE S == {a.seq : a \in Numbered(d)}
               P(n) == /\ \E a \in Numbered(d) : a.seq = n
                       /\ \A a \in Numbered(d) : a.seq <= n
               top == CHOOSE n \in 1..MaxSeq : P(n)
    <2>1. S \in SUBSET (1..MaxSeq) /\ S # {}
      BY <1>1, <1>3
    <2>2. PICK m \in S : \A x \in S : x <= m
      <3> HIDE DEF S
      <3> QED BY <1>0, <2>1, HasLargest
    <2>3. m \in 1..MaxSeq /\ P(m)
      BY <1>1, <2>2
    <2>4. top \in 1..MaxSeq /\ P(top)
      <3> HIDE DEF P
      <3> QED BY <2>3
    <2>5. NextSeq(d) = top + 1
      BY <1>3 DEF NextSeq
    <2>6. \A a \in archives : a.day = d => a.seq <= top
      BY <1>0, <2>4 DEF Numbered, Archive
    <2> HIDE DEF top
    <2> QED BY <1>0, <2>4, <2>5, <2>6 DEF Archive
  <1> QED BY <1>2, <1>3

-----------------------------------------------------------------------------
(* The inductive invariant.                                                  *)

Rolling == pc \in {"replace", "unlink", "prune", "open"}

\* The line in hand is in the base file, or was when it was compressed.
Written == \/ pc \in {"size", "space", "ack"}
           \/ Rolling /\ task.for = "size"

\* A datagram is in hand.
Busy == \/ pc \in {"append", "size", "space", "ack"}
        \/ Rolling /\ task.for \in {"day", "size"}

\* Where the writer is, and what its dates say of one another.
Placed ==
  /\ Busy => line <= MaxLines
  /\ openDate <= day /\ today <= day
  /\ base.there => base.day <= day
  /\ ~base.there => base.lines = {}
  /\ pc \in {"size", "replace", "unlink"} => base.there
  /\ Rolling /\ task.for = "day" => openDate < today
  /\ pc = "replace" /\ task.for = "day" => task.day = openDate /\ task.seq = 0
  /\ pc = "reconcile" /\ base.there => base.day <= openDate
  /\ pc = "replace" /\ task.for = "start" =>
       task.day = base.day /\ task.seq = 0 /\ base.day <= openDate
  /\ pc = "replace" /\ task.for = "size" =>
       /\ task.day = openDate /\ task.seq > 0
       /\ \A a \in archives : a.day = task.day => a.seq < task.seq
  /\ pc = "unlink" => \E a \in archives : a.lines = base.lines

\* Between the roll over of a day and the next open date, the day is over.
RollPending ==
  \/ pc \in {"idle", "down"} /\ openDate < day
  \/ Rolling /\ task.for = "day"

\* A daily archive is of a day before the open date, unless its roll over is not
\* done; it is of a day before the base file's too, or a part of the base file.
DailyFit ==
  \/ straddled
  \/ /\ \A a \in archives : a.seq = 0 =>
          /\ a.day < openDate \/ (a.day = openDate /\ RollPending)
          /\ base.there => \/ a.day < base.day /\ a.day < openDate
                           \/ a.lines \subseteq base.lines
     /\ pc = "replace" /\ task.for = "start" => base.day < openDate

Kept == Disk \cup expired \cup evicted

\* The lines acknowledged, and the one that is about to be, are kept.
KeptFit ==
  straddled \/ (acked \subseteq Kept /\ (Written => line \in Kept))

\* Whether two archives are in the space guard's order, the daily archive of a
\* day and its own segments apart.
Before(a, b) == SortsBefore(a, b) /\ ~(a.day = b.day /\ a.seq = 0)

\* Archives that sort later hold later lines, or the earlier ones too; the base
\* file comes after all of them.
Ordered ==
  /\ \A a \in archives : a.day <= openDate
  /\ \A a \in archives : base.there => a.day <= base.day \/ a.lines = base.lines
  /\ Disk \subseteq 1..line
  /\ \A a, b \in archives : Before(a, b) =>
       \A l \in a.lines, k \in b.lines : k < l => l \in b.lines
  /\ \A a \in archives : \A l \in a.lines, k \in base.lines : k < l => l \in base.lines

Inv == LogTypeOK /\ Placed /\ DailyFit /\ KeptFit /\ Ordered

LEMMA InitInv == LogInit => Inv
  <1> SUFFICES ASSUME LogInit PROVE Inv
    OBVIOUS
  <1>0. MaxDay \in Nat /\ MaxLines \in Nat /\ MaxFaults \in Nat /\ MaxSeq \in Nat
    BY LogAssumption
  <1>1. LogTypeOK
    <2>1. NoFile \in [there : BOOLEAN, lines : SUBSET Lines, day : 0..MaxDay]
      <3>1. FALSE \in BOOLEAN /\ 0 \in 0..MaxDay /\ {} \in SUBSET Lines
        BY <1>0
      <3> QED BY <3>1, Zenon DEF NoFile
    <2>2. task \in [day : 0..MaxDay, seq : 0..MaxSeq, for : {"start", "day", "size"}]
      BY <1>0 DEF LogInit
    <2>3. ~handle /\ pc = "down"
      BY DEF LogInit
    <2>4. base \in [there : BOOLEAN, lines : SUBSET Lines, day : 0..MaxDay]
      BY <2>1 DEF LogInit
    <2>5. /\ day \in 0..MaxDay /\ openDate \in 0..MaxDay /\ today \in 0..MaxDay
          /\ archives = {} /\ line \in 1..(MaxLines + 1) /\ acked = {}
          /\ expired = {} /\ evicted = {} /\ faults \in 0..MaxFaults
      BY <1>0 DEF LogInit
    <2>6. handle = FALSE /\ straddled = FALSE /\ FALSE \in BOOLEAN
      BY DEF LogInit
    <2>7. handle \in BOOLEAN /\ straddled \in BOOLEAN
      BY <2>6, Zenon
    <2> QED BY <2>2, <2>3, <2>4, <2>5, <2>7 DEF LogTypeOK
  <1>2. Placed
    BY DEF LogInit, Placed, NoFile, Rolling, Busy
  <1>3. DailyFit /\ KeptFit
    BY DEF LogInit, DailyFit, KeptFit, Written, Rolling
  <1>4. Ordered
    BY DEF LogInit, Ordered, Disk, NoFile
  <1> QED BY <1>1, <1>2, <1>3, <1>4 DEF Inv

-----------------------------------------------------------------------------
(* The steps.                                                                *)

BaseFile == [there : BOOLEAN, lines : SUBSET Lines, day : 0..MaxDay]
TaskRec  == [day : 0..MaxDay, seq : 0..MaxSeq, for : {"start", "day", "size"}]

LEMMA BaseTypes ==
  ASSUME LogTypeOK
  PROVE  /\ NoFile \in BaseFile /\ ~NoFile.there /\ NoFile.lines = {}
         /\ Opened \in BaseFile /\ Opened.there
         /\ base.there => Opened = base
         /\ ~base.there => Opened.lines = {} /\ Opened.day = day
         /\ line <= MaxLines => Appended \in BaseFile
         /\ Appended.there /\ Appended.lines = base.lines \cup {line} /\ Appended.day = day
  <1>0. /\ FALSE \in BOOLEAN /\ TRUE \in BOOLEAN /\ {} \in SUBSET Lines
        /\ day \in 0..MaxDay /\ 0 \in 0..MaxDay /\ base \in BaseFile
    BY LogAssumption DEF LogTypeOK, BaseFile
  <1>1. NoFile \in BaseFile
    BY <1>0, Zenon DEF NoFile, BaseFile
  <1>2. [there |-> TRUE, lines |-> {}, day |-> day] \in BaseFile
    BY <1>0, Zenon DEF BaseFile
  <1>3. Opened \in BaseFile
    BY <1>0, <1>2, Zenon DEF Opened
  <1>4. ASSUME line <= MaxLines PROVE Appended \in BaseFile
    <2>1. base.lines \cup {line} \in SUBSET Lines
      BY <1>4, LogAssumption DEF LogTypeOK, Lines
    <2> QED BY <1>0, <2>1, Zenon DEF Appended, BaseFile
  <1>5. /\ ~NoFile.there /\ NoFile.lines = {}
        /\ Appended.there /\ Appended.lines = base.lines \cup {line} /\ Appended.day = day
    BY DEF NoFile, Appended
  <1>6. /\ base.there => Opened = base
        /\ ~base.there => Opened = [there |-> TRUE, lines |-> {}, day |-> day]
    BY DEF Opened
  <1>7. Opened.there /\ (~base.there => Opened.lines = {} /\ Opened.day = day)
    BY <1>6
  <1> QED BY <1>1, <1>3, <1>4, <1>5, <1>6, <1>7

LEMMA BaseStep ==
  ASSUME LogTypeOK, Placed, [LogNext]_logVars
  PROVE  base' \in BaseFile
  <1>0. base \in BaseFile
    BY DEF LogTypeOK, BaseFile
  <1>1. pc = "append" => line <= MaxLines
    BY DEF Placed, Busy
  <1>2. base' \in {base, NoFile, Opened} \/ (base' = Appended /\ pc = "append")
    BY DEF LogNext, Start, Reconcile, Replace, Unlink, PruneOld, Open, Receive, Reopen, AppendLine,
           SizeRoll, EnforceSpace, SpaceTick, Ack, WriteError, StartError, Die, NextDay,
           logVars, diskVars
  <1> QED BY <1>0, <1>1, <1>2, BaseTypes

LEMMA TaskStep ==
  ASSUME LogTypeOK, [LogNext]_logVars
  PROVE  task' \in TaskRec
  <1>0. /\ task \in TaskRec /\ base.day \in 0..MaxDay /\ openDate \in 0..MaxDay
        /\ 0 \in 0..MaxSeq
    BY LogAssumption DEF LogTypeOK, TaskRec
  <1>1. ASSUME NEW d \in 0..MaxDay, NEW seq \in 0..MaxSeq,
               NEW for \in {"start", "day", "size"}, Begin(d, seq, for)
        PROVE  task' \in TaskRec
    BY <1>1 DEF Begin, TaskRec
  <1>2. CASE Reconcile
    BY <1>0, <1>1, <1>2 DEF Reconcile, TaskRec
  <1>3. CASE Receive
    BY <1>0, <1>1, <1>3 DEF Receive, TaskRec
  <1>4. CASE SizeRoll
    <2>1. NextSeq(openDate) <= MaxSeq => NextSeq(openDate) \in 0..MaxSeq
      BY NextSeqFresh, LogAssumption
    <2> QED BY <1>0, <1>1, <1>4, <2>1 DEF SizeRoll
  <1>5. CASE ~(Reconcile \/ Receive \/ SizeRoll)
    <2>1. task' = task
      BY <1>5 DEF LogNext, Start, Replace, Unlink, PruneOld, Open, Reopen, AppendLine, EnforceSpace,
                  SpaceTick, Ack, WriteError, StartError, Die, NextDay, logVars, processVars
    <2> QED BY <1>0, <2>1
  <1> QED BY <1>2, <1>3, <1>4, <1>5

\* Replace writes one archive; every other step keeps a part of them.
LEMMA ArchiveShape ==
  ASSUME [LogNext]_logVars
  PROVE  archives' \subseteq archives \/ Replace
  BY DEF LogNext, Start, Reconcile, Unlink, PruneOld, Open, Receive, Reopen, AppendLine, SizeRoll,
         EnforceSpace, SpaceTick, Evict, Ack, WriteError, StartError, Die, NextDay, logVars,
         diskVars

LEMMA NewArchive ==
  ASSUME LogTypeOK, Replace
  PROVE  \E c \in Archive :
           /\ c.day = task.day /\ c.seq = task.seq /\ c.lines = base.lines
           /\ archives' = {a \in archives : a.day # task.day \/ a.seq # task.seq} \cup {c}
  <1>1. task.day \in 0..MaxDay /\ task.seq \in 0..MaxSeq /\ base.lines \in SUBSET Lines
    BY DEF LogTypeOK
  <1>2. [day |-> task.day, seq |-> task.seq, lines |-> base.lines] \in Archive
    BY <1>1 DEF Archive
  <1> QED BY <1>2 DEF Replace

LEMMA ArchivesStep ==
  ASSUME LogTypeOK, [LogNext]_logVars
  PROVE  /\ archives' \subseteq Archive
         /\ \A a, b \in archives' : a.day = b.day /\ a.seq = b.seq => a = b
  <1>0. /\ archives \subseteq Archive
        /\ \A a, b \in archives : a.day = b.day /\ a.seq = b.seq => a = b
    BY DEF LogTypeOK
  <1>1. CASE archives' \subseteq archives
    BY <1>0, <1>1
  <1>2. CASE Replace
    BY <1>0, <1>2, NewArchive
  <1> QED BY <1>1, <1>2, ArchiveShape

LEMMA ScalarStep ==
  ASSUME LogTypeOK, Placed, [LogNext]_logVars
  PROVE  /\ day' \in 0..MaxDay /\ openDate' \in 0..MaxDay /\ today' \in 0..MaxDay
         /\ pc' \in {"down", "reconcile", "replace", "unlink", "prune", "open", "idle",
                     "append", "size", "space", "ack"}
         /\ line' \in 1..(MaxLines + 1) /\ acked' \subseteq Lines
         /\ expired' \subseteq Lines /\ evicted' \subseteq Lines
         /\ faults' \in 0..MaxFaults
  <1> USE DEF diskVars, processVars, countVars, historyVars
  <1>0. /\ day \in 0..MaxDay /\ openDate \in 0..MaxDay /\ today \in 0..MaxDay
        /\ pc \in {"down", "reconcile", "replace", "unlink", "prune", "open", "idle",
                   "append", "size", "space", "ack"}
        /\ line \in 1..(MaxLines + 1) /\ acked \subseteq Lines
        /\ expired \subseteq Lines /\ evicted \subseteq Lines
        /\ faults \in 0..MaxFaults
        /\ MaxDay \in Nat /\ MaxLines \in Nat /\ MaxFaults \in Nat
        /\ task.for \in {"start", "day", "size"}
        /\ \A a \in archives : a.lines \subseteq Lines
        /\ Busy => line <= MaxLines
    BY LogAssumption DEF LogTypeOK, Placed, Archive
  <1>1. CASE Start
    BY <1>0, <1>1 DEF Start, Starting, Busy, Rolling, Lines
  <1>2. CASE Reconcile
    BY <1>0, <1>2 DEF Reconcile, Begin, Starting, Busy, Rolling, Lines
  <1>3. CASE Replace
    BY <1>0, <1>3 DEF Replace, Starting, Busy, Rolling, Lines
  <1>4. CASE Unlink
    BY <1>0, <1>4 DEF Unlink, Starting, Busy, Rolling, Lines
  <1>5. CASE PruneOld
    <2>1. UNION {a.lines : a \in Expired} \subseteq Lines
      BY <1>0 DEF Expired
    <2> QED BY <1>0, <1>5, <2>1 DEF PruneOld
  <1>6. CASE Open
    BY <1>0, <1>6 DEF Open, Starting, Busy, Rolling, Lines
  <1>7. CASE Receive
    BY <1>0, <1>7 DEF Receive, Begin, Starting, Busy, Rolling, Lines
  <1>8. CASE Reopen
    BY <1>0, <1>8 DEF Reopen, Starting, Busy, Rolling, Lines
  <1>9. CASE AppendLine
    BY <1>0, <1>9 DEF AppendLine, Starting, Busy, Rolling, Lines
  <1>10. CASE SizeRoll
    BY <1>0, <1>10 DEF SizeRoll, Begin, Starting, Busy, Rolling, Lines
  <1>11. CASE EnforceSpace
    BY <1>0, <1>11 DEF EnforceSpace, Evict, Starting, Busy, Rolling, Lines
  <1>12. CASE SpaceTick
    BY <1>0, <1>12 DEF SpaceTick, Evict, Starting, Busy, Rolling, Lines
  <1>13. CASE Ack
    BY <1>0, <1>13 DEF Ack, Starting, Busy, Rolling, Lines
  <1>14. CASE WriteError
    BY <1>0, <1>14 DEF WriteError, Fault, Starting, Busy, Rolling, Lines
  <1>15. CASE StartError
    BY <1>0, <1>15 DEF StartError, Fault, Starting, Busy, Rolling, Lines
  <1>16. CASE Die
    BY <1>0, <1>16 DEF Die, Fault, Starting, Busy, Rolling, Lines
  <1>17. CASE NextDay
    BY <1>0, <1>17 DEF NextDay, Starting, Busy, Rolling, Lines
  <1>18. CASE UNCHANGED logVars
    BY <1>0, <1>18 DEF logVars, Starting, Busy, Rolling, Lines
  <1> QED
    BY <1>1, <1>2, <1>3, <1>4, <1>5, <1>6, <1>7, <1>8, <1>9,
       <1>10, <1>11, <1>12, <1>13, <1>14, <1>15, <1>16, <1>17, <1>18 DEF LogNext

LEMMA FlagStep ==
  ASSUME LogTypeOK, [LogNext]_logVars
  PROVE  handle' \in BOOLEAN /\ straddled' \in BOOLEAN
  <1>0. /\ handle \in BOOLEAN /\ straddled \in BOOLEAN
        /\ TRUE \in BOOLEAN /\ FALSE \in BOOLEAN
        /\ (straddled \/ openDate <= base.day) \in BOOLEAN
    BY DEF LogTypeOK
  <1>1. handle' \in {handle, TRUE, FALSE}
    BY DEF LogNext, Start, Reconcile, Begin, Replace, Unlink, PruneOld, Open, Receive, Reopen,
           AppendLine, SizeRoll, EnforceSpace, SpaceTick, Ack, WriteError, StartError, Die,
           NextDay, logVars, processVars
  <1>2. straddled' \in {straddled, (straddled \/ openDate <= base.day)}
    BY DEF LogNext, Start, Reconcile, Begin, Replace, Unlink, PruneOld, Open, Receive, Reopen,
           AppendLine, SizeRoll, EnforceSpace, SpaceTick, Ack, WriteError, StartError, Die,
           NextDay, logVars, historyVars
  <1> QED BY <1>0, <1>1, <1>2

LEMMA HandleStep ==
  ASSUME LogTypeOK, Placed, [LogNext]_logVars
  PROVE  /\ handle' => base'.there
         /\ pc' \in {"replace", "unlink"} => base'.there /\ ~handle' 
  <1> USE DEF diskVars, processVars, countVars, historyVars
  <1>0. /\ handle => base.there
        /\ pc \in {"replace", "unlink"} => base.there /\ ~handle
        /\ pc = "size" => base.there
        /\ Opened.there /\ Appended.there
        /\ task.for \in {"start", "day", "size"}
    BY BaseTypes DEF LogTypeOK, Placed
  <1>1. CASE Start
    BY <1>0, <1>1 DEF Start
  <1>2. CASE Reconcile
    BY <1>0, <1>2 DEF Reconcile, Begin
  <1>3. CASE Replace
    BY <1>0, <1>3 DEF Replace
  <1>4. CASE Unlink
    BY <1>0, <1>4 DEF Unlink
  <1>5. CASE PruneOld
    BY <1>0, <1>5 DEF PruneOld
  <1>6. CASE Open
    BY <1>0, <1>6 DEF Open
  <1>7. CASE Receive
    BY <1>0, <1>7 DEF Receive, Begin
  <1>8. CASE Reopen
    BY <1>0, <1>8 DEF Reopen
  <1>9. CASE AppendLine
    BY <1>0, <1>9 DEF AppendLine
  <1>10. CASE SizeRoll
    BY <1>0, <1>10 DEF SizeRoll, Begin
  <1>11. CASE EnforceSpace
    BY <1>0, <1>11 DEF EnforceSpace, Evict
  <1>12. CASE SpaceTick
    BY <1>0, <1>12 DEF SpaceTick, Evict
  <1>13. CASE Ack
    BY <1>0, <1>13 DEF Ack
  <1>14. CASE WriteError
    BY <1>0, <1>14 DEF WriteError, Fault
  <1>15. CASE StartError
    BY <1>0, <1>15 DEF StartError, Fault
  <1>16. CASE Die
    BY <1>0, <1>16 DEF Die, Fault
  <1>17. CASE NextDay
    BY <1>0, <1>17 DEF NextDay
  <1>18. CASE UNCHANGED logVars
    BY <1>0, <1>18 DEF logVars
  <1> QED
    BY <1>1, <1>2, <1>3, <1>4, <1>5, <1>6, <1>7, <1>8, <1>9,
       <1>10, <1>11, <1>12, <1>13, <1>14, <1>15, <1>16, <1>17, <1>18 DEF LogNext

LEMMA TypeStep ==
  ASSUME LogTypeOK, Placed, [LogNext]_logVars
  PROVE  LogTypeOK'
  <1>1. base' \in BaseFile /\ task' \in TaskRec
    BY BaseStep, TaskStep
  <1>2. /\ handle' => base'.there
        /\ pc' \in {"replace", "unlink"} => base'.there /\ ~handle'
    BY HandleStep
  <1> QED BY <1>1, <1>2, ArchivesStep, ScalarStep, FlagStep DEF LogTypeOK, BaseFile, TaskRec

LEMMA PlacedStep ==
  ASSUME LogTypeOK, LogTypeOK', Placed, [LogNext]_logVars
  PROVE  Placed'
  <1> USE DEF diskVars, processVars, countVars, historyVars, Placed, Rolling, Busy
  <1>0. /\ day \in Nat /\ openDate \in Nat /\ today \in Nat /\ base.day \in Nat /\ line \in Nat
        /\ MaxLines \in Nat
        /\ day' \in Nat /\ openDate' \in Nat /\ today' \in Nat /\ base'.day \in Nat
        /\ task.for \in {"start", "day", "size"}
        /\ Opened.there /\ Appended.there /\ Appended.day = day
        /\ base.there => Opened = base
        /\ ~base.there => Opened.lines = {} /\ Opened.day = day
        /\ ~NoFile.there /\ NoFile.lines = {}
    BY BaseTypes, LogAssumption DEF LogTypeOK
  <1>1. CASE Start
    BY <1>0, <1>1 DEF Start
  <1>2. CASE Reconcile
    <2>1. CASE base.there /\ base.day < day
      <3>1. /\ task'.day = base.day /\ task'.seq = 0 /\ task'.for = "start"
            /\ pc' = "replace" /\ UNCHANGED <<day, base, archives, openDate, today, line>>
        BY <1>2, <2>1 DEF Reconcile, Begin
      <3>2. base.day <= openDate
        BY <1>2, <2>1 DEF Reconcile
      <3> QED BY <1>0, <2>1, <3>1, <3>2
    <2>2. CASE ~(base.there /\ base.day < day)
      <3>1. /\ task'.for = "start"
            /\ pc' = "prune" /\ UNCHANGED <<day, base, archives, openDate, today, line>>
        BY <1>2, <2>2 DEF Reconcile, LogTypeOK
      <3> QED BY <1>0, <2>2, <3>1
    <2> QED BY <2>1, <2>2
  <1>3. CASE Replace
    <2>1. \E a \in archives' : a.lines = base.lines
      BY <1>3, NewArchive
    <2> QED BY <1>0, <1>3, <2>1 DEF Replace
  <1>4. CASE Unlink
    BY <1>0, <1>4 DEF Unlink
  <1>5. CASE PruneOld
    BY <1>0, <1>5 DEF PruneOld
  <1>6. CASE Open
    BY <1>0, <1>6 DEF Open
  <1>7. CASE Receive
    BY <1>0, <1>7 DEF Receive, Begin
  <1>8. CASE Reopen
    BY <1>0, <1>8 DEF Reopen
  <1>9. CASE AppendLine
    BY <1>0, <1>9 DEF AppendLine
  <1>10. CASE SizeRoll
    <2>1. CASE Cardinality(base.lines) >= SegmentLines /\ NextSeq(openDate) <= MaxSeq
      <3>1. /\ task'.day = openDate /\ task'.seq = NextSeq(openDate) /\ task'.for = "size"
            /\ pc' = "replace" /\ UNCHANGED <<day, base, archives, openDate, today, line>>
        BY <1>10, <2>1 DEF SizeRoll, Begin
      <3>2. /\ NextSeq(openDate) \in Nat \ {0}
            /\ \A a \in archives : a.day = openDate => a.seq < NextSeq(openDate)
        BY NextSeqFresh
      <3>3. pc = "size"
        BY <1>10 DEF SizeRoll
      <3> QED BY <1>0, <3>1, <3>2, <3>3
    <2>2. CASE ~(Cardinality(base.lines) >= SegmentLines /\ NextSeq(openDate) <= MaxSeq)
      BY <1>0, <1>10, <2>2 DEF SizeRoll
    <2> QED BY <2>1, <2>2
  <1>11. CASE EnforceSpace
    BY <1>0, <1>11 DEF EnforceSpace, Evict
  <1>12. CASE SpaceTick
    BY <1>0, <1>12 DEF SpaceTick, Evict
  <1>13. CASE Ack
    BY <1>0, <1>13 DEF Ack
  <1>14. CASE WriteError
    BY <1>0, <1>14 DEF WriteError, Fault
  <1>15. CASE StartError
    BY <1>0, <1>15 DEF StartError, Fault
  <1>16. CASE Die
    BY <1>0, <1>16 DEF Die, Fault
  <1>17. CASE NextDay
    BY <1>0, <1>17 DEF NextDay
  <1>18. CASE UNCHANGED logVars
    BY <1>0, <1>18 DEF logVars
  <1> QED
    BY <1>1, <1>2, <1>3, <1>4, <1>5, <1>6, <1>7, <1>8, <1>9,
       <1>10, <1>11, <1>12, <1>13, <1>14, <1>15, <1>16, <1>17, <1>18 DEF LogNext

\* What the steps that begin a compress leave the writer with.
LEMMA Begins ==
  ASSUME LogTypeOK
  PROVE  /\ Reconcile => /\ task'.for = "start" /\ pc' \in {"replace", "prune"}
                         /\ pc' = "replace" => /\ openDate <= base.day => straddled'
                                               /\ base.there
                         /\ straddled => straddled'
         /\ Receive => \/ pc' = "append" /\ task' = task /\ day = openDate
                       \/ pc' \in {"replace", "prune"} /\ task'.for = "day" /\ day # openDate
  <1>1. ASSUME Reconcile
        PROVE  /\ task'.for = "start" /\ pc' \in {"replace", "prune"}
               /\ pc' = "replace" => /\ openDate <= base.day => straddled'
                                     /\ base.there
               /\ straddled => straddled'
    <2>1. CASE base.there /\ base.day < day
      <3>1. straddled' = (straddled \/ openDate <= base.day)
        BY <1>1, <2>1 DEF Reconcile
      <3>2. (straddled => straddled') /\ (openDate <= base.day => straddled')
        BY <3>1, Zenon
      <3>3. task'.for = "start" /\ pc' = "replace"
        BY <1>1, <2>1 DEF Reconcile, Begin
      <3> QED BY <2>1, <3>2, <3>3
    <2>2. CASE ~(base.there /\ base.day < day)
      <3>1. task'.for = "start"
        BY <1>1, <2>2 DEF Reconcile, LogTypeOK
      <3>2. pc' = "prune" /\ straddled' = straddled
        BY <1>1, <2>2 DEF Reconcile
      <3> QED BY <3>1, <3>2
    <2> QED BY <2>1, <2>2
  <1>2. ASSUME Receive
        PROVE  \/ pc' = "append" /\ task' = task /\ day = openDate
               \/ pc' \in {"replace", "prune"} /\ task'.for = "day" /\ day # openDate
    <2>1. CASE day = openDate
      BY <1>2, <2>1 DEF Receive
    <2>2. CASE day # openDate /\ base.there
      BY <1>2, <2>2 DEF Receive, Begin
    <2>3. CASE day # openDate /\ ~base.there
      BY <1>2, <2>3 DEF Receive, LogTypeOK
    <2> QED BY <2>1, <2>2, <2>3
  <1> QED BY <1>1, <1>2

LEMMA DailyStep ==
  ASSUME LogTypeOK, LogTypeOK', Placed, DailyFit, [LogNext]_logVars
  PROVE  DailyFit'
  <1> USE DEF diskVars, processVars, countVars, historyVars, DailyFit, Rolling, RollPending
  <1>0. /\ day \in Nat /\ openDate \in Nat /\ today \in Nat /\ base.day \in Nat
        /\ openDate <= day /\ today <= day /\ (base.there => base.day <= day)
        /\ pc \in {"replace", "unlink"} => base.there
        /\ Rolling /\ task.for = "day" => openDate < today
        /\ task.for \in {"start", "day", "size"}
        /\ \A a \in archives : a.day \in Nat /\ a.seq \in Nat
        /\ Opened.there /\ Appended.there /\ Appended.day = day
        /\ Appended.lines = base.lines \cup {line}
        /\ base.there => Opened = base
        /\ ~base.there => Opened.lines = {} /\ Opened.day = day
        /\ ~NoFile.there
    BY BaseTypes, LogAssumption DEF LogTypeOK, Placed, Archive
  <1>1. CASE Start
    BY <1>0, <1>1 DEF Start
  <1>2. CASE Reconcile
    <2>1. UNCHANGED <<day, base, archives, openDate>> /\ pc = "reconcile"
      BY <1>2 DEF Reconcile
    <2>2. CASE pc' = "prune"
      <3>1. (straddled => straddled') /\ task'.for = "start"
        BY <1>2, <2>2, Begins
      <3> QED BY <1>0, <2>1, <2>2, <3>1
    <2>3. CASE pc' = "replace"
      <3>1. /\ openDate <= base.day => straddled'
            /\ straddled => straddled'
            /\ task'.for = "start"
        BY <1>2, <2>3, Begins
      <3> QED BY <1>0, <2>1, <2>3, <3>1
    <2> QED BY <1>2, <2>2, <2>3, Begins
  <1>3. CASE Replace
    <2>1. PICK c \in Archive :
            /\ c.day = task.day /\ c.seq = task.seq /\ c.lines = base.lines
            /\ archives' = {a \in archives : a.day # task.day \/ a.seq # task.seq} \cup {c}
      BY <1>3, NewArchive
    <2>2. /\ pc' = "unlink" /\ UNCHANGED <<day, base, task, openDate, straddled>>
          /\ pc = "replace"
      BY <1>3 DEF Replace
    <2>3. \/ task.for = "day" /\ task.day = openDate /\ task.seq = 0
          \/ task.for = "start" /\ task.day = base.day /\ task.seq = 0
          \/ task.for = "size" /\ task.seq > 0
      BY <1>0, <2>2 DEF Placed
    <2> QED BY <1>0, <2>1, <2>2, <2>3
  <1>4. CASE Unlink
    BY <1>0, <1>4 DEF Unlink
  <1>5. CASE PruneOld
    BY <1>0, <1>5 DEF PruneOld
  <1>6. CASE Open
    BY <1>0, <1>6 DEF Open
  <1>7. CASE Receive
    <2>1. UNCHANGED <<day, base, archives, openDate, straddled>> /\ pc = "idle"
      BY <1>7 DEF Receive
    <2>2. \/ pc' = "append" /\ task' = task /\ day = openDate
          \/ pc' \in {"replace", "prune"} /\ task'.for = "day" /\ day # openDate
      BY <1>7, Begins
    <2> QED BY <1>0, <2>1, <2>2
  <1>8. CASE Reopen
    BY <1>0, <1>8 DEF Reopen
  <1>9. CASE AppendLine
    BY <1>0, <1>9 DEF AppendLine
  <1>10. CASE SizeRoll
    BY <1>0, <1>10 DEF SizeRoll, Begin
  <1>11. CASE EnforceSpace
    BY <1>0, <1>11 DEF EnforceSpace, Evict
  <1>12. CASE SpaceTick
    BY <1>0, <1>12 DEF SpaceTick, Evict
  <1>13. CASE Ack
    BY <1>0, <1>13 DEF Ack
  <1>14. CASE WriteError
    BY <1>0, <1>14 DEF WriteError, Fault
  <1>15. CASE StartError
    BY <1>0, <1>15 DEF StartError, Fault
  <1>16. CASE Die
    BY <1>0, <1>16 DEF Die, Fault
  <1>17. CASE NextDay
    BY <1>0, <1>17 DEF NextDay
  <1>18. CASE UNCHANGED logVars
    BY <1>0, <1>18 DEF logVars
  <1> QED
    BY <1>1, <1>2, <1>3, <1>4, <1>5, <1>6, <1>7, <1>8, <1>9,
       <1>10, <1>11, <1>12, <1>13, <1>14, <1>15, <1>16, <1>17, <1>18 DEF LogNext

\* Nothing that was kept is lost.
LEMMA KeptGrows ==
  ASSUME LogTypeOK, Placed, DailyFit, ~straddled, [LogNext]_logVars
  PROVE  Kept \subseteq Kept'
  <1> USE DEF diskVars, processVars, countVars, historyVars, Kept, Disk
  <1>0. /\ Appended.lines = base.lines \cup {line}
        /\ base.there => Opened = base
        /\ ~base.there => base.lines = {} /\ Opened.lines = {}
    BY BaseTypes DEF Placed
  <1>1. CASE Start
    BY <1>0, <1>1 DEF Start
  <1>2. CASE Reconcile
    BY <1>0, <1>2 DEF Reconcile, Begin
  <1>3. CASE Replace
    <2>1. PICK c \in Archive :
            /\ c.day = task.day /\ c.seq = task.seq /\ c.lines = base.lines
            /\ archives' = {a \in archives : a.day # task.day \/ a.seq # task.seq} \cup {c}
      BY <1>3, NewArchive
    <2>2. /\ pc = "replace" /\ UNCHANGED <<base, expired, evicted>>
      BY <1>3 DEF Replace
    <2>3. ASSUME NEW a \in archives, a.day = task.day, a.seq = task.seq
          PROVE  a.lines \subseteq base.lines
      <3>1. /\ base.there /\ a.day \in Nat /\ a.seq \in Nat /\ openDate \in Nat
            /\ base.day \in Nat /\ task.for \in {"start", "day", "size"}
        BY <2>2 DEF LogTypeOK, Archive, Placed
      <3>2. CASE task.for = "size"
        BY <2>2, <2>3, <3>1, <3>2 DEF Placed
      <3>3. CASE task.for = "day"
        BY <2>2, <2>3, <3>1, <3>3 DEF Placed, DailyFit
      <3>4. CASE task.for = "start"
        BY <2>2, <2>3, <3>1, <3>4 DEF Placed, DailyFit
      <3> QED BY <3>1, <3>2, <3>3, <3>4
    <2> QED BY <2>1, <2>2, <2>3
  <1>4. CASE Unlink
    <2>1. \E a \in archives : a.lines = base.lines
      BY <1>4 DEF Unlink, Placed
    <2> QED BY <1>4, <2>1 DEF Unlink
  <1>5. CASE PruneOld
    <2>1. \A a \in archives : a \in archives' \/ a.lines \subseteq expired'
      BY <1>5 DEF PruneOld
    <2> QED BY <1>5, <2>1 DEF PruneOld
  <1>6. CASE Open
    BY <1>0, <1>6 DEF Open
  <1>7. CASE Receive
    BY <1>0, <1>7 DEF Receive, Begin
  <1>8. CASE Reopen
    BY <1>0, <1>8 DEF Reopen
  <1>9. CASE AppendLine
    BY <1>0, <1>9 DEF AppendLine
  <1>10. CASE SizeRoll
    BY <1>0, <1>10 DEF SizeRoll, Begin
  <1>11. CASE EnforceSpace
    <2>1. \A a \in archives : a \in archives' \/ a.lines \subseteq evicted'
      BY <1>11 DEF EnforceSpace, Evict
    <2>2. evicted \subseteq evicted' /\ UNCHANGED <<base, expired>>
      BY <1>11 DEF EnforceSpace, Evict
    <2> QED BY <2>1, <2>2
  <1>12. CASE SpaceTick
    <2>1. \A a \in archives : a \in archives' \/ a.lines \subseteq evicted'
      BY <1>12 DEF SpaceTick, Evict
    <2>2. evicted \subseteq evicted' /\ UNCHANGED <<base, expired>>
      BY <1>12 DEF SpaceTick, Evict
    <2> QED BY <2>1, <2>2
  <1>13. CASE Ack
    BY <1>0, <1>13 DEF Ack
  <1>14. CASE WriteError
    BY <1>0, <1>14 DEF WriteError, Fault
  <1>15. CASE StartError
    BY <1>0, <1>15 DEF StartError, Fault
  <1>16. CASE Die
    BY <1>0, <1>16 DEF Die, Fault
  <1>17. CASE NextDay
    BY <1>0, <1>17 DEF NextDay
  <1>18. CASE UNCHANGED logVars
    BY <1>0, <1>18 DEF logVars
  <1> QED
    BY <1>1, <1>2, <1>3, <1>4, <1>5, <1>6, <1>7, <1>8, <1>9,
       <1>10, <1>11, <1>12, <1>13, <1>14, <1>15, <1>16, <1>17, <1>18 DEF LogNext

LEMMA KeptStep ==
  ASSUME LogTypeOK, LogTypeOK', Placed, DailyFit, KeptFit, [LogNext]_logVars
  PROVE  KeptFit'
  <1> SUFFICES ASSUME ~straddled' PROVE KeptFit'
    BY DEF KeptFit
  <1>01. ~straddled
    BY DEF LogNext, Start, Reconcile, Replace, Unlink, PruneOld, Open, Receive, Reopen, AppendLine,
           SizeRoll, EnforceSpace, SpaceTick, Ack, WriteError, StartError, Die, NextDay,
           logVars, historyVars
  <1>02. acked \subseteq Kept' /\ (Written => line \in Kept')
    BY <1>01, KeptGrows DEF KeptFit
  <1> HIDE DEF Kept
  <1> USE DEF diskVars, processVars, countVars, historyVars, KeptFit, Written, Rolling
  <1>0. /\ task.for \in {"start", "day", "size"}
        /\ acked \subseteq Kept' /\ (Written => line \in Kept')
    BY <1>02 DEF LogTypeOK
  <1>1. CASE Start
    BY <1>0, <1>1 DEF Start
  <1>2. CASE Reconcile
    <2>1. task'.for = "start" /\ pc' \in {"replace", "prune"} /\ UNCHANGED countVars
      BY <1>2, Begins DEF Reconcile
    <2> QED BY <1>0, <2>1
  <1>3. CASE Replace
    BY <1>0, <1>3 DEF Replace
  <1>4. CASE Unlink
    BY <1>0, <1>4 DEF Unlink
  <1>5. CASE PruneOld
    BY <1>0, <1>5 DEF PruneOld
  <1>6. CASE Open
    BY <1>0, <1>6 DEF Open
  <1>7. CASE Receive
    <2>1. /\ pc' = "append" \/ (pc' \in {"replace", "prune"} /\ task'.for = "day")
          /\ UNCHANGED countVars
      BY <1>7, Begins DEF Receive
    <2> QED BY <1>0, <2>1
  <1>8. CASE Reopen
    BY <1>0, <1>8 DEF Reopen
  <1>9. CASE AppendLine
    <2>1. line \in Kept'
      BY <1>9, BaseTypes DEF AppendLine, Kept, Disk
    <2> QED BY <1>0, <1>9, <2>1 DEF AppendLine
  <1>10. CASE SizeRoll
    BY <1>0, <1>10 DEF SizeRoll, Begin
  <1>11. CASE EnforceSpace
    BY <1>0, <1>11 DEF EnforceSpace, Evict
  <1>12. CASE SpaceTick
    BY <1>0, <1>12 DEF SpaceTick, Evict
  <1>13. CASE Ack
    BY <1>0, <1>13 DEF Ack
  <1>14. CASE WriteError
    BY <1>0, <1>14 DEF WriteError, Fault
  <1>15. CASE StartError
    BY <1>0, <1>15 DEF StartError, Fault
  <1>16. CASE Die
    BY <1>0, <1>16 DEF Die, Fault
  <1>17. CASE NextDay
    BY <1>0, <1>17 DEF NextDay
  <1>18. CASE UNCHANGED logVars
    BY <1>0, <1>18 DEF logVars
  <1> QED
    BY <1>1, <1>2, <1>3, <1>4, <1>5, <1>6, <1>7, <1>8, <1>9,
       <1>10, <1>11, <1>12, <1>13, <1>14, <1>15, <1>16, <1>17, <1>18 DEF LogNext

LEMMA OrderedStep ==
  ASSUME LogTypeOK, LogTypeOK', Placed, Ordered, [LogNext]_logVars
  PROVE  Ordered'
  <1> USE DEF diskVars, processVars, countVars, historyVars, Ordered, Disk
  <1>0. /\ day \in Nat /\ openDate \in Nat /\ today \in Nat /\ base.day \in Nat
        /\ openDate <= day /\ line \in Nat \ {0}
        /\ today' \in Nat /\ openDate' \in Nat
        /\ Rolling /\ task.for = "day" => openDate < today
        /\ \A a \in archives : a.day \in Nat /\ a.seq \in Nat
        /\ Disk \subseteq Nat
        /\ Opened.there /\ Appended.there /\ Appended.day = day
        /\ Appended.lines = base.lines \cup {line}
        /\ base.there => Opened = base
        /\ ~base.there => Opened.lines = {} /\ Opened.day = day
        /\ ~NoFile.there /\ NoFile.lines = {}
    BY BaseTypes, LogAssumption DEF LogTypeOK, Placed, Archive, Lines
  <1>1. CASE Start
    BY <1>0, <1>1 DEF Start
  <1>2. CASE Reconcile
    BY <1>0, <1>2 DEF Reconcile, Begin
  <1>3. CASE Replace
    <2>1. PICK c \in Archive :
            /\ c.day = task.day /\ c.seq = task.seq /\ c.lines = base.lines
            /\ archives' = {a \in archives : a.day # task.day \/ a.seq # task.seq} \cup {c}
      BY <1>3, NewArchive
    <2>2. /\ pc = "replace" /\ UNCHANGED <<base, openDate, line>>
          /\ task.for \in {"start", "day", "size"} /\ base.there
      BY <1>3 DEF Replace, LogTypeOK
    <2>3. /\ task.day \in Nat /\ task.seq \in Nat
          /\ task.day <= openDate
      BY <1>0, <2>2 DEF Placed, LogTypeOK
    <2>4. ASSUME NEW b \in archives, Before(c, b)
          PROVE  b.lines = base.lines
      <3>1. /\ b.day \in Nat /\ b.seq \in Nat /\ b.day <= openDate
            /\ b.day <= base.day \/ b.lines = base.lines
            /\ c.day < b.day \/ (c.day = b.day /\ c.seq < b.seq /\ c.seq # 0)
        BY <1>0, <2>2, <2>4 DEF Before, SortsBefore
      <3>2. CASE task.for = "size"
        BY <1>0, <2>1, <2>2, <2>3, <3>1, <3>2 DEF Placed
      <3>3. CASE task.for = "day"
        BY <1>0, <2>1, <2>2, <2>3, <3>1, <3>3 DEF Placed
      <3>4. CASE task.for = "start"
        BY <1>0, <2>1, <2>2, <2>3, <3>1, <3>4 DEF Placed
      <3> QED BY <2>2, <3>2, <3>3, <3>4
    <2>5. \A a \in archives' : a.day <= openDate /\ (a.day <= base.day \/ a.lines = base.lines)
      BY <2>1, <2>2, <2>3
    <2>6. Disk' \subseteq 1..line
      BY <2>1, <2>2
    <2>7. \A a \in archives' : \A l \in a.lines, k \in base.lines : k < l => l \in base.lines
      BY <2>1
    <2>8. ASSUME NEW a \in archives', NEW b \in archives', Before(a, b),
                 NEW l \in a.lines, NEW k \in b.lines, k < l
          PROVE  l \in b.lines
      <3>1. CASE b = c
        BY <2>1, <2>7, <2>8, <3>1
      <3>2. CASE a = c /\ b # c
        BY <2>1, <2>4, <2>8, <3>2
      <3>3. CASE a # c /\ b # c
        BY <2>1, <2>8, <3>3
      <3> QED BY <3>1, <3>2, <3>3
    <2> QED BY <2>2, <2>5, <2>6, <2>7, <2>8
  <1>4. CASE Unlink
    BY <1>0, <1>4 DEF Unlink
  <1>5. CASE PruneOld
    BY <1>0, <1>5 DEF PruneOld
  <1>6. CASE Open
    <2>1. base' = Opened /\ UNCHANGED <<archives, line>> /\ pc = "open"
      BY <1>6 DEF Open
    <2>2. openDate <= openDate' /\ openDate' <= day
      BY <1>0, <1>6 DEF Open, Placed, Rolling
    <2>3. \A a \in archives : a.day <= openDate'
      BY <1>0, <2>2
    <2>4. CASE base.there
      BY <1>0, <2>1, <2>3, <2>4
    <2>5. CASE ~base.there
      BY <1>0, <2>1, <2>2, <2>3, <2>5
    <2> QED BY <2>4, <2>5
  <1>7. CASE Receive
    BY <1>0, <1>7 DEF Receive, Begin
  <1>8. CASE Reopen
    BY <1>0, <1>8 DEF Reopen
  <1>9. CASE AppendLine
    BY <1>0, <1>9 DEF AppendLine
  <1>10. CASE SizeRoll
    BY <1>0, <1>10 DEF SizeRoll, Begin
  <1>11. CASE EnforceSpace
    BY <1>0, <1>11 DEF EnforceSpace, Evict
  <1>12. CASE SpaceTick
    BY <1>0, <1>12 DEF SpaceTick, Evict
  <1>13. CASE Ack
    BY <1>0, <1>13 DEF Ack
  <1>14. CASE WriteError
    BY <1>0, <1>14 DEF WriteError, Fault
  <1>15. CASE StartError
    BY <1>0, <1>15 DEF StartError, Fault
  <1>16. CASE Die
    BY <1>0, <1>16 DEF Die, Fault
  <1>17. CASE NextDay
    BY <1>0, <1>17 DEF NextDay
  <1>18. CASE UNCHANGED logVars
    BY <1>0, <1>18 DEF logVars
  <1> QED
    BY <1>1, <1>2, <1>3, <1>4, <1>5, <1>6, <1>7, <1>8, <1>9,
       <1>10, <1>11, <1>12, <1>13, <1>14, <1>15, <1>16, <1>17, <1>18 DEF LogNext

LEMMA InvStep ==
  ASSUME Inv, [LogNext]_logVars
  PROVE  Inv'
  <1>1. LogTypeOK'
    BY TypeStep DEF Inv
  <1>2. Placed' /\ DailyFit'
    BY <1>1, PlacedStep, DailyStep DEF Inv
  <1>3. KeptFit' /\ Ordered'
    BY <1>1, KeptStep, OrderedStep DEF Inv
  <1> QED BY <1>1, <1>2, <1>3 DEF Inv

\* The inductive invariant holds in every reachable state.
THEOREM InvAlways == LogSpec => []Inv
  <1> QED BY InitInv, InvStep, PTL DEF LogSpec

-----------------------------------------------------------------------------
(* The properties.                                                           *)

\* Files, dates and tasks keep their types, and no two archives have one name.
THEOREM TypeCorrect == LogSpec => []LogTypeOK
  <1>1. Inv => LogTypeOK
    BY DEF Inv
  <1> QED BY <1>1, InvAlways, PTL

\* No acknowledged line is lost but to retention and the space guard, whatever
\* fails and wherever the process dies.
THEOREM LinesAreKept == LogSpec => []LinesKept
  <1>1. Inv => LinesKept
    BY DEF Inv, KeptFit, Kept, LinesKept
  <1> QED BY <1>1, InvAlways, PTL

\* The space guard takes no line and leaves an older one, but for the segments of
\* the day whose daily archive it takes.
THEOREM OlderDaysFirst == LogSpec => DropsOlderDaysFirst
  <1>1. ASSUME Inv, [LogNext]_logVars
        PROVE  evicted' # evicted =>
                 \A gone \in archives \ archives', kept \in archives' :
                   ~(gone.day = kept.day /\ gone.seq = 0) => ~LosesNewer(gone, kept)
    <2> SUFFICES ASSUME evicted' # evicted,
                        NEW gone \in archives \ archives', NEW kept \in archives',
                        ~(gone.day = kept.day /\ gone.seq = 0)
                 PROVE  ~LosesNewer(gone, kept)
      OBVIOUS
    <2>1. PICK old \in SUBSET archives : Evict(old)
      BY <1>1 DEF LogNext, Start, Reconcile, Replace, Unlink, PruneOld, Open, Receive, Reopen,
                  AppendLine, SizeRoll, EnforceSpace, SpaceTick, Ack, WriteError, StartError,
                  Die, NextDay, logVars, historyVars
    <2>2. gone \in old /\ kept \in archives \ old
      BY <2>1 DEF Evict
    <2>3. Before(gone, kept)
      BY <2>1, <2>2 DEF Evict, Before
    <2>4. \A l \in gone.lines, k \in kept.lines : k < l => l \in kept.lines
      BY <1>1, <2>2, <2>3 DEF Inv, Ordered
    <2> QED BY <2>4 DEF LosesNewer, Disk
  <1> QED BY <1>1, InvAlways, PTL DEF LogSpec, DropsOlderDaysFirst

=============================================================================
