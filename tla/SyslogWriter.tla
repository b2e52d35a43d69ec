---------------------------- MODULE SyslogWriter ----------------------------
(***************************************************************************)
(* The py-syslog add-on's storage: one base file that lines are appended   *)
(* to, rolled over each UTC day into <day>.gz and, when it is full, into   *)
(* numbered segments <day>.<seq>.gz of the same day; retention by the day  *)
(* in the name, and the space guard that deletes archives oldest first.    *)
(*                                                                         *)
(* Sources: pysyslog/writer.py (Writer) and the write of server.py's       *)
(* process_datagram.  A datagram is its line, numbered as received.  The   *)
(* day may change between any two steps, the process may die between any   *)
(* two, and each file operation may fail; a killed process keeps what it   *)
(* flushed.  UTC never steps back a day.  What the guard measures depends  *)
(* on other files of the volume, so it may stop at any archive.            *)
(*                                                                         *)
(* Left out: the .tmp partials (written anew or dropped, never read), and  *)
(* dated files not compressed, which this version of the code never makes. *)
(***************************************************************************)
EXTENDS Integers, FiniteSets

CONSTANTS
  SegmentLines,  \* max_segment_mb, in lines
  MaxSeq,        \* writer._MAX_SEQ
  RetentionDays,
  MaxLines,      \* bound: datagrams received
  MaxDay,        \* bound: the clock stops here
  MaxFaults      \* bound: deaths of the process and failed operations

ASSUME LogAssumption ==
  /\ SegmentLines \in Nat \ {0} /\ MaxSeq \in Nat \ {0} /\ RetentionDays \in Nat
  /\ MaxLines \in Nat /\ MaxDay \in Nat /\ MaxFaults \in Nat

VARIABLES
  day,        \* the UTC date
  base,       \* the base file: its lines and the day of its mtime, or NoFile
  archives,   \* the .gz files
  pc,         \* the writer's next step
  task,       \* the compress in hand, and what it is for
  handle,     \* whether the base file is open
  openDate,   \* _open_date
  today,      \* the date the roll over in hand read
  line,       \* the datagram in hand, or the next one
  acked,      \* counters.written: the lines write() returned for
  expired,    \* history: lines in archives that retention deleted
  evicted,    \* history: lines in archives that the space guard deleted
  straddled,  \* history: a start archived the base of its own open date
  faults

diskVars    == <<base, archives>>
processVars == <<pc, task, handle, openDate, today>>
countVars   == <<line, acked>>
historyVars == <<expired, evicted, straddled>>
logVars     == <<day, diskVars, processVars, countVars, historyVars, faults>>

Lines == 1..MaxLines
NoFile == [there |-> FALSE, lines |-> {}, day |-> 0]

\* <day>.gz, the daily archive, has sequence 0.
Archive == [day : 0..MaxDay, seq : 0..MaxSeq, lines : SUBSET Lines]

Disk == base.lines \cup UNION {a.lines : a \in archives}

-----------------------------------------------------------------------------
(* Compressing the base file.                                              *)

Begin(d, seq, for) ==
  /\ task' = [day |-> d, seq |-> seq, for |-> for]
  /\ pc' = "replace" /\ handle' = FALSE

\* The final name is replaced, whatever it held.
Replace ==
  /\ pc = "replace" /\ pc' = "unlink"
  /\ archives' = {a \in archives : a.day # task.day \/ a.seq # task.seq}
                 \cup {[day |-> task.day, seq |-> task.seq, lines |-> base.lines]}
  /\ UNCHANGED <<day, base, task, handle, openDate, today, countVars, historyVars, faults>>

Unlink ==
  /\ pc = "unlink" /\ pc' = IF task.for = "size" THEN "open" ELSE "prune"
  /\ base' = NoFile
  /\ UNCHANGED <<day, archives, task, handle, openDate, today, countVars, historyVars,
                 faults>>

\* _prune
Expired == {a \in archives : day - a.day > RetentionDays}

PruneOld ==
  /\ pc = "prune" /\ pc' = "open"
  /\ archives' = archives \ Expired
  /\ expired' = expired \cup UNION {a.lines : a \in Expired}
  /\ UNCHANGED <<day, base, task, handle, openDate, today, countVars, evicted, straddled,
                 faults>>

Opened == IF base.there THEN base ELSE [there |-> TRUE, lines |-> {}, day |-> day]

\* _open, at the end of a start, a roll over or a size roll.
Open ==
  /\ pc = "open" /\ handle' = TRUE /\ base' = Opened
  /\ openDate' = IF task.for = "day" THEN today ELSE openDate
  /\ pc' = CASE task.for = "start" -> "idle"
             [] task.for = "day"   -> "append"
             [] task.for = "size"  -> "space"
  /\ UNCHANGED <<day, archives, task, today, countVars, historyVars, faults>>

-----------------------------------------------------------------------------
(* The start.                                                              *)

\* Writer.__init__ reads the date it opens for first.
Start ==
  /\ pc = "down" /\ pc' = "reconcile" /\ openDate' = day
  /\ UNCHANGED <<day, diskVars, task, handle, today, countVars, historyVars, faults>>

\* _reconcile_stale_base
Reconcile ==
  /\ pc = "reconcile"
  /\ IF base.there /\ base.day < day
     THEN /\ Begin(base.day, 0, "start")
          /\ straddled' = (straddled \/ openDate <= base.day)
     ELSE /\ pc' = "prune" /\ task' = [task EXCEPT !.for = "start"]
          /\ UNCHANGED <<handle, straddled>>
  /\ UNCHANGED <<day, diskVars, openDate, today, countVars, expired, evicted, faults>>

-----------------------------------------------------------------------------
(* A line.                                                                 *)

\* process_datagram calls write(), and _rotate_if_needed looks at the date.
Receive ==
  /\ pc = "idle" /\ line <= MaxLines
  /\ today' = day
  /\ IF day = openDate THEN pc' = "append" /\ UNCHANGED <<task, handle>>
     ELSE IF base.there THEN Begin(openDate, 0, "day")
     ELSE /\ pc' = "prune" /\ handle' = FALSE
          /\ task' = [task EXCEPT !.for = "day"]
  /\ UNCHANGED <<day, diskVars, openDate, countVars, historyVars, faults>>

\* write() opens the base file again after an earlier failure.
Reopen ==
  /\ pc = "append" /\ ~handle
  /\ handle' = TRUE /\ base' = Opened /\ openDate' = day
  /\ UNCHANGED <<day, archives, pc, task, today, countVars, historyVars, faults>>

Appended == [there |-> TRUE, lines |-> base.lines \cup {line}, day |-> day]

AppendLine ==
  /\ pc = "append" /\ handle
  /\ base' = Appended /\ pc' = "size"
  /\ UNCHANGED <<day, archives, task, handle, openDate, today, countVars, historyVars,
                 faults>>

Numbered(d) == {a \in archives : a.day = d /\ a.seq > 0}

\* Mutant of NextSeq: the segments there are, and one.
NextSeqByCount(d) == Cardinality(Numbered(d)) + 1

\* _next_seq: one more than the highest there is.
NextSeq(d) ==
  IF Numbered(d) = {} THEN 1
  ELSE (CHOOSE n \in 1..MaxSeq : /\ \E a \in Numbered(d) : a.seq = n
                                 /\ \A a \in Numbered(d) : a.seq <= n) + 1

\* _rotate_by_size_if_needed
SizeRoll ==
  /\ pc = "size"
  /\ IF Cardinality(base.lines) >= SegmentLines /\ NextSeq(openDate) <= MaxSeq
     THEN Begin(openDate, NextSeq(openDate), "size")
     ELSE pc' = "ack" /\ UNCHANGED <<task, handle>>
  /\ UNCHANGED <<day, diskVars, openDate, today, countVars, historyVars, faults>>

\* Mutant of SortsBefore: by the sequence first.
SortsBySeq(a, b) == a.seq < b.seq \/ (a.seq = b.seq /\ a.day < b.day)

\* _segment_sort_key
SortsBefore(a, b) == a.day < b.day \/ (a.day = b.day /\ a.seq < b.seq)

\* _enforce_space: the first archives in the sort order go.
Evict(old) ==
  /\ old \subseteq archives
  /\ \A a \in old : \A b \in archives \ old : SortsBefore(a, b)
  /\ archives' = archives \ old
  /\ evicted' = evicted \cup UNION {a.lines : a \in old}

EnforceSpace ==
  /\ pc = "space" /\ pc' = "ack"
  /\ \E old \in SUBSET archives : Evict(old)
  /\ UNCHANGED <<day, base, task, handle, openDate, today, countVars, expired, straddled,
                 faults>>

\* enforce_space_tick, between datagrams.
SpaceTick ==
  /\ pc = "idle"
  /\ \E old \in SUBSET archives : old # {} /\ Evict(old)
  /\ UNCHANGED <<day, base, processVars, countVars, expired, straddled, faults>>

\* write() returns and the line is counted as written.
Ack ==
  /\ pc = "ack" /\ pc' = "idle"
  /\ acked' = acked \cup {line} /\ line' = line + 1
  /\ UNCHANGED <<day, diskVars, task, handle, openDate, today, historyVars, faults>>

-----------------------------------------------------------------------------
(* Faults.                                                                 *)

Starting == \/ pc = "reconcile"
            \/ pc \in {"replace", "unlink", "prune", "open"} /\ task.for = "start"

Fault == faults < MaxFaults /\ faults' = faults + 1

\* An operation of write() fails: the line is counted as an error, though a failed
\* flush may leave it to a later one.
WriteError ==
  /\ Fault /\ ~Starting
  /\ pc \in {"replace", "unlink", "prune", "open", "append", "size"}
  /\ pc' = "idle" /\ line' = line + 1
  /\ base' \in IF pc = "append" /\ handle THEN {base, Appended} ELSE {base}
  /\ UNCHANGED <<day, archives, task, handle, openDate, today, acked, historyVars>>

\* A failure of the start is fatal.
StartError ==
  /\ Fault /\ Starting
  /\ pc' = "down" /\ handle' = FALSE
  /\ UNCHANGED <<day, diskVars, task, openDate, today, countVars, historyVars>>

\* The process dies, or stops; the datagram in hand is not counted.
Die ==
  /\ Fault /\ pc # "down"
  /\ pc' = "down" /\ handle' = FALSE
  /\ line' = IF Starting \/ pc = "idle" THEN line ELSE line + 1
  /\ UNCHANGED <<day, diskVars, task, openDate, today, acked, historyVars>>

NextDay ==
  /\ day < MaxDay /\ day' = day + 1
  /\ UNCHANGED <<diskVars, processVars, countVars, historyVars, faults>>

-----------------------------------------------------------------------------

LogInit ==
  /\ day = 0 /\ base = NoFile /\ archives = {}
  /\ pc = "down" /\ task = [day |-> 0, seq |-> 0, for |-> "start"]
  /\ handle = FALSE /\ openDate = 0 /\ today = 0
  /\ line = 1 /\ acked = {}
  /\ expired = {} /\ evicted = {} /\ straddled = FALSE /\ faults = 0

LogNext ==
  \/ Start \/ Reconcile \/ Replace \/ Unlink \/ PruneOld \/ Open
  \/ Receive \/ Reopen \/ AppendLine \/ SizeRoll \/ EnforceSpace \/ SpaceTick \/ Ack
  \/ WriteError \/ StartError \/ Die \/ NextDay

LogSpec == LogInit /\ [][LogNext]_logVars

-----------------------------------------------------------------------------
(* Properties.                                                             *)

\* The type invariant; an open file exists, a compress has its source until it is
\* replaced, and no two archives have one name.
LogTypeOK ==
  /\ day \in 0..MaxDay /\ openDate \in 0..MaxDay /\ today \in 0..MaxDay
  /\ base \in [there : BOOLEAN, lines : SUBSET Lines, day : 0..MaxDay]
  /\ archives \subseteq Archive
  /\ \A a, b \in archives : a.day = b.day /\ a.seq = b.seq => a = b
  /\ pc \in {"down", "reconcile", "replace", "unlink", "prune", "open", "idle",
             "append", "size", "space", "ack"}
  /\ task \in [day : 0..MaxDay, seq : 0..MaxSeq, for : {"start", "day", "size"}]
  /\ handle \in BOOLEAN /\ straddled \in BOOLEAN
  /\ line \in 1..(MaxLines + 1) /\ acked \subseteq Lines
  /\ expired \subseteq Lines /\ evicted \subseteq Lines
  /\ faults \in 0..MaxFaults
  /\ handle => base.there
  /\ pc \in {"replace", "unlink"} => base.there /\ ~handle

\* A line that write() returned for stays on the disk until retention or the space
\* guard deletes an archive it is in: no roll over, size roll, failed or cut off
\* compress, restart or change of the day replaces an archive that holds lines the
\* new one lacks.  One case is excepted: a start that takes its open date before
\* midnight and looks at the base file after it archives that file under the very
\* date its first roll over will replace.
LinesKept == straddled \/ acked \subseteq Disk \cup expired \cup evicted

\* Whether a deletion of one archive before another loses lines newer than some
\* that stay.
LosesNewer(gone, kept) ==
  \E l \in gone.lines \ Disk' : \E k \in kept.lines : k < l

\* The space guard loses no line while it keeps an older one, whatever rolls,
\* failures and restarts named the archives, save when it takes a day's daily
\* archive and leaves that day's segments.
DropsOlderDaysFirst ==
  [][evicted' # evicted =>
       \A gone \in archives \ archives', kept \in archives' :
         ~(gone.day = kept.day /\ gone.seq = 0) => ~LosesNewer(gone, kept)]_logVars

\* What writer.py says of the guard: keep-newest, drop-oldest.
DropsOldestFirst ==
  [][evicted' # evicted =>
       \A gone \in archives \ archives', kept \in archives' : ~LosesNewer(gone, kept)]_logVars
=============================================================================
