------------------------------ MODULE Startup ------------------------------
(***************************************************************************)
(* A start of wxverify up to the open database: the schema steps, the      *)
(* upgrade of a version 16 file, the one-time corrections of the feed      *)
(* rows, the sanitize pass, the one-time compaction; and the stop, the     *)
(* death or the error that may end it between any two statements.          *)
(*                                                                         *)
(* Sources: db/migrations.py, db/compaction.py, db/connection.py (_open),  *)
(* core/stop.py, api/app.py (lifespan up to init_db).                      *)
(*                                                                         *)
(* `file` is what is on disk and `work` what the writer's connection sees: *)
(* they differ only inside a savepoint or a transaction.  The statements   *)
(* run one by one; each is announced or not, starts, and ends.             *)
(***************************************************************************)
EXTENDS Integers, Sequences, FiniteSets, SequencesExt

CONSTANTS
  OldFiles,   \* the files an earlier release may have left
  MaxStops,   \* bound: stops, by signal
  MaxFaults,  \* bound: deaths of the process and statements that fail
  MaxEdits    \* bound: changes of a feed row by the operator

ASSUME StartupConstantsAssumption ==
  MaxStops \in Nat /\ MaxFaults \in Nat /\ MaxEdits \in Nat

VARIABLES
  file,       \* the database file
  work,       \* the file as the writer's connection sees it
  proc,       \* "down", "opening", "serving", or "refused"
  at,         \* the statement the start has come to
  stmt,       \* how far it is: "idle", "checked", "running", or "long"
  current,    \* user_version as run_migrations read it
  saving,     \* the upgrade's savepoint is open
  registered, \* stop._registered: the connection whose statement a stop ends
  handler,    \* its progress handler is set
  stopping,   \* stop.STOP
  reach,      \* request_stop is about to interrupt the connection it found
  origin,     \* history: the file at the first start
  settled,    \* history: what a finished start has found and left to the operator
  count       \* how many stops, faults and edits so far

startVars == <<at, stmt, current, saving, registered, handler, stopping, reach>>
startupVars == <<file, work, proc, startVars, origin, settled, count>>

-----------------------------------------------------------------------------
(* The file.                                                               *)

\* The forecasts of before the site's first record, in forecast_pairs, and of
\* the closed days, in close_pairs.
Rows == {"pre_close", "closed"}

\* The feed rows a correction moves from the value they were seeded with; the
\* fetch interval is also the operator's to change.
Corrections == {"google_horizon", "open_meteo_horizon", "open_meteo_interval"}

FreshKeys == {"daily_close_on", "download_record_since", "storage_compacted"}

File ==
  [version : {0, 15, 16, 17, 18},
   tables  : BOOLEAN,      \* the tables of the removed code, forecast_pairs in them
   old     : SUBSET Rows,  \* what they hold
   history : SUBSET Rows,  \* forecast_history
   removed : BOOLEAN,      \* jobs, keys and settings of the removed code
  unread  : BOOLEAN,      \* a stamp or a zone that the date map cannot read
   record  : BOOLEAN,      \* forecast_of_record with its jobs and keys
   indexes : {"none", "old", "current"},
   value   : [Corrections -> {"none", "seed", "config", "other"}],
   member  : {"absent", "on", "off"},  \* a dropped meteoblue member
   keys    : SUBSET (Corrections \cup FreshKeys \cup {"member_drop", "boundary"}),
   wedged  : BOOLEAN,      \* a stamp that no due comparison selects
   sparse  : BOOLEAN]      \* free pages

Fresh ==
  [version |-> 0, tables |-> FALSE, old |-> {}, history |-> {}, removed |-> FALSE,
   unread |-> FALSE, record |-> FALSE, indexes |-> "none", value |-> [c \in Corrections |-> "none"],
   member |-> "absent", keys |-> {}, wedged |-> FALSE, sparse |-> FALSE]

\* An earlier release has another user_version, and its upgrade's source, 16,
\* has the old tables and nothing in the new one.
ASSUME OldFilesAssumption ==
  \A f \in OldFiles : /\ f \in File /\ f.version \notin {0, 17}
                      /\ f.old \cap f.history = {}
                      /\ f.version = 16 => f.tables /\ f.history = {}

\* run_migrations refuses the file before it writes anything.
Refused(f) ==
  \/ f.version \notin {0, 16, 17}
  \/ f.version = 16 /\ "daily_close_on" \notin f.keys

-----------------------------------------------------------------------------
(* What the statements write.                                              *)

\* migrate_v17_storage.  A plain INSERT of each half, in this order.
ConvertPreClose(f) == [f EXCEPT !.history = @ \cup (f.old \cap {"pre_close"})]

CopyClosePairs(f) == [f EXCEPT !.history = @ \cup (f.old \cap {"closed"})]

DeleteRemovedJobsKeys(f) == [f EXCEPT !.removed = FALSE]

DropTables(f) == [f EXCEPT !.tables = FALSE, !.old = {}, !.sparse = TRUE]

DropForecastRecord(f) ==
  [f EXCEPT !.record = FALSE, !.sparse = @ \/ f.record]

\* CREATE ... IF NOT EXISTS, and _sync_forecast_sample_index for the generated.
CreateIndexes(f) == [f EXCEPT !.indexes = "current"]

\* Mutant of Correct: its WHERE clause alone decides.
CorrectAlways(f, c) == IF f.value[c] = "seed" THEN [f EXCEPT !.value[c] = "config"] ELSE f

\* The UPDATE of a correction, behind its key.
Correct(f, c) ==
  IF c \notin f.keys /\ f.value[c] = "seed"
    THEN [f EXCEPT !.value[c] = "config"] ELSE f

WriteKey(f, k) == [f EXCEPT !.keys = @ \cup {k}]

\* pause_dropped_meteoblue_members: the UPDATE, then the key if a row is there.
PauseMember(f) ==
  IF "member_drop" \notin f.keys /\ f.member = "on"
    THEN [f EXCEPT !.member = "off"] ELSE f

WriteMemberKey(f) == IF f.member = "absent" THEN f ELSE WriteKey(f, "member_drop")

\* The seeds: INSERT OR IGNORE of the rows as this release has them.
Seed(f) ==
  [f EXCEPT !.value = [c \in Corrections |-> IF @[c] = "none" THEN "config" ELSE @[c]]]

Sanitize(f) == [f EXCEPT !.wedged = FALSE]

Vacuum(f) == [f EXCEPT !.sparse = FALSE]

-----------------------------------------------------------------------------
(* The order of the statements.                                            *)

\* _open: run_migrations, the sanitize pass and the compaction.  Each "_key" is
\* written after the correction it stands for.
Script ==
  <<"set_handler", "register",
    "read_version", "create_tables", "v17_begin",
    "v17_date_map", "v17_convert", "v17_copy", "v17_delete", "v17_drop", "v17_release",
    "drop_record", "create_indexes",
    "google_horizon", "google_horizon_key", "open_meteo_horizon",
    "open_meteo_horizon_key", "open_meteo_interval", "open_meteo_interval_key",
    "pause_member", "member_key", "seed", "boundary", "daily_close_on",
    "download_record_since", "storage_compacted", "version",
    "unregister", "clear_handler", "sanitize", "set_handler_again", "register_again",
    "measure", "checkpoint_before", "vacuum", "checkpoint_after", "marker",
    "unregister_again", "clear_handler_again", "open_readers">>

Place(s) == CHOOSE i \in 1..Len(Script) : Script[i] = s

After(s) == Script[Place(s) + 1]

Between(s, t) == {Script[i] : i \in Place(s)..Place(t)}

Upgrade == Between("v17_date_map", "v17_release")

Migrations == Between("read_version", "version")

Compaction == Between("measure", "marker")

\* stop.register, stop.unregister and the opening of the readers.
Bookkeeping == Range(Script) \ (Migrations \cup Compaction \cup {"sanitize"})

\* begin_step comes before these: a stop that has begun ends the start there.
Announced ==
  (Migrations \cup Compaction) \
    {"read_version", "v17_release", "google_horizon_key", "open_meteo_horizon_key",
     "open_meteo_interval_key", "member_key", "download_record_since",
     "storage_compacted", "version"}

\* Those whose time grows with the file, with no bound of their own.
Long == {"v17_convert", "v17_copy", "v17_drop", "drop_record", "create_indexes", "vacuum"}

\* The statements that a start leaves out: the upgrade but at version 16 and of
\* a file it has not converted, the fresh build's keys but at 0, and the
\* compaction of a file with its key.
Skipped(s) ==
  \/ s = "v17_begin" /\ current # 16
  \/ s \in Upgrade /\ ~saving
  \/ s \in FreshKeys /\ current # 0
  \/ s \in Compaction /\ "storage_compacted" \in file.keys

\* Mutant of Converts: the upgrade does not look for a file already converted.
ConvertsAgain(f) == TRUE

\* The upgrade opens its savepoint and goes on: forecast_pairs is still there.
Converts(f) == f.tables

\* Why a statement fails whatever happens: its table is gone, its rows are there
\* already, or it cannot read them.
Impossible(s) ==
  \/ s = "v17_date_map" /\ (work.unread \/ ~work.tables)
  \/ s = "v17_convert" /\ "pre_close" \in work.history
  \/ s = "v17_copy" /\ "closed" \in work.history

\* What the writer's connection sees after statement s.
Effect(s) ==
  CASE s = "v17_convert"    -> ConvertPreClose(work)
    [] s = "v17_copy"       -> CopyClosePairs(work)
    [] s = "v17_delete"     -> DeleteRemovedJobsKeys(work)
    [] s = "v17_drop"       -> DropTables(work)
    [] s = "drop_record"    -> DropForecastRecord(work)
    [] s = "create_indexes" -> CreateIndexes(work)
    [] s \in Corrections    -> Correct(work, s)
    [] s = "google_horizon_key"      -> WriteKey(work, "google_horizon")
    [] s = "open_meteo_horizon_key"  -> WriteKey(work, "open_meteo_horizon")
    [] s = "open_meteo_interval_key" -> WriteKey(work, "open_meteo_interval")
    [] s = "pause_member"   -> PauseMember(work)
    [] s = "member_key"     -> WriteMemberKey(work)
    [] s = "seed"           -> Seed(work)
    [] s = "boundary"       -> WriteKey(work, "boundary")
    [] s \in FreshKeys      -> WriteKey(work, s)
    [] s = "version"        -> [work EXCEPT !.version = 17]
    [] s = "sanitize"       -> Sanitize(work)
    [] s = "vacuum"         -> Vacuum(work)
    [] s = "marker"         -> WriteKey(work, "storage_compacted")
    [] OTHER                -> work

\* Mutant of Durable: each statement of the upgrade commits on its own.
DurableAlways(f) == f

\* What the file holds once the connection sees f: nothing of an open savepoint.
Durable(f) == IF saving THEN file ELSE f

-----------------------------------------------------------------------------
(* The start.                                                              *)

\* The process is gone, or init_db has raised: what was not committed is lost.
Gone ==
  /\ proc' = "down"
  /\ work' = file
  /\ stmt' = "idle" /\ saving' = FALSE
  /\ registered' = FALSE /\ handler' = FALSE /\ reach' = FALSE
  /\ UNCHANGED <<file, at, current, stopping, origin>>

GoTo(s) == at' = s /\ stmt' = "idle"

\* The supervisor starts the process; the lifespan begins with reset_stop.
StartProcess ==
  /\ proc = "down"
  /\ proc' = "opening"
  /\ GoTo("set_handler")
  /\ stopping' = FALSE
  /\ UNCHANGED <<file, work, current, saving, registered, handler, reach, origin,
                 settled, count>>

\* Mutant of SetHandler: a stop interrupts, and nothing more.
InterruptOnly == UNCHANGED handler

\* stop.register: the progress handler, before the connection is registered.
SetHandler == handler' = TRUE

\* open_readers is the last of _open.  What a start leaves to the operator from
\* here on: the fetch interval, and the dropped member once it has a row.
Keep(s) ==
  /\ proc = "opening" /\ at = s /\ stmt = "idle"
  /\ CASE s \in {"set_handler", "set_handler_again"} -> SetHandler
       [] s \in {"clear_handler", "clear_handler_again"} -> handler' = FALSE
       [] OTHER -> UNCHANGED handler
  /\ registered' = CASE s \in {"register", "register_again"} -> TRUE
                     [] s \in {"unregister", "unregister_again"} -> FALSE
                     [] OTHER -> registered
  /\ IF s = "open_readers"
       THEN /\ proc' = "serving"
            /\ settled' = settled \cup {"interval"} \cup
                            (IF file.member = "absent" THEN {} ELSE {"member"})
            /\ UNCHANGED <<at, stmt>>
       ELSE GoTo(After(s)) /\ UNCHANGED <<proc, settled>>
  /\ UNCHANGED <<file, work, current, saving, stopping, reach, origin, count>>

Skip ==
  /\ proc = "opening" /\ stmt = "idle" /\ Skipped(at)
  /\ GoTo(After(at))
  /\ UNCHANGED <<file, work, proc, current, saving, registered, handler, stopping,
                 reach, origin, settled, count>>

\* stop.begin_step.
BeginStep ==
  /\ proc = "opening" /\ stmt = "idle" /\ at \in Announced /\ ~Skipped(at)
  /\ IF stopping
       THEN Gone /\ UNCHANGED <<settled, count>>
       ELSE /\ stmt' = "checked"
            /\ UNCHANGED <<file, work, proc, at, current, saving, registered, handler,
                           stopping, reach, origin, settled, count>>

Execute ==
  /\ proc = "opening" /\ at \notin Bookkeeping /\ ~Skipped(at)
  /\ stmt = IF at \in Announced THEN "checked" ELSE "idle"
  /\ \/ stmt' = "running"
     \/ at \in Long /\ stmt' = "long"
  /\ UNCHANGED <<file, work, proc, at, current, saving, registered, handler, stopping,
                 reach, origin, settled, count>>

\* run_migrations refuses the file; nothing is written.
Refuse ==
  /\ proc = "opening" /\ at = "read_version" /\ stmt = "running"
  /\ Refused(file)
  /\ proc' = "refused" /\ stmt' = "idle"
  /\ registered' = FALSE /\ handler' = FALSE /\ reach' = FALSE
  /\ UNCHANGED <<file, work, at, current, saving, stopping, origin, settled, count>>

\* The statement ends.  The compaction goes no further with too little room, and
\* writes no key over free pages.
Finish ==
  /\ proc = "opening" /\ stmt \in {"running", "long"} /\ ~Impossible(at)
  /\ ~(at = "read_version" /\ Refused(file))
  /\ work' = Effect(at)
  /\ saving' = CASE at = "v17_begin"   -> Converts(work)
                 [] at = "v17_release" -> FALSE
                 [] OTHER              -> saving
  /\ file' = IF at = "v17_release" THEN work' ELSE Durable(work')
  /\ current' = IF at = "read_version" THEN file.version ELSE current
  /\ \/ GoTo(After(at))
     \/ at = "measure" /\ GoTo("unregister_again")
  /\ at = "marker" => ~work.sparse
  /\ UNCHANGED <<proc, registered, handler, stopping, reach, origin, settled, count>>

\* A statement raises, interrupted or not: the sanitize pass is logged and the
\* open goes on; the compaction is, unless a stop did it; anything else ends the
\* start with its savepoint rolled back.
Raise(interrupted) ==
  \/ /\ at = "sanitize"
     /\ GoTo(After(at)) /\ reach' = (reach /\ ~interrupted)
     /\ UNCHANGED <<file, work, proc, current, saving, registered, handler, stopping,
                    origin>>
  \/ /\ at \in Compaction /\ ~(interrupted /\ stopping)
     /\ GoTo("unregister_again") /\ reach' = (reach /\ ~interrupted)
     /\ UNCHANGED <<file, work, proc, current, saving, registered, handler, stopping,
                    origin>>
  \/ /\ at \notin Compaction \cup {"sanitize"} \/ (interrupted /\ stopping)
     /\ at # "sanitize"
     /\ Gone

Fail ==
  /\ proc = "opening" /\ stmt \in {"running", "long"} /\ Impossible(at)
  /\ Raise(FALSE)
  /\ UNCHANGED <<settled, count>>

Fault ==
  /\ proc = "opening" /\ stmt \in {"running", "long"}
  /\ count.faults < MaxFaults /\ count' = [count EXCEPT !.faults = @ + 1]
  /\ Raise(FALSE)
  /\ UNCHANGED settled

-----------------------------------------------------------------------------
(* The stop, the death, and the edits.                                     *)

\* SIGTERM or SIGINT: while the database opens, request_stop, which looks up
\* the registered connection; once it serves, uvicorn shuts the lifespan down.
RequestStop ==
  /\ count.stops < MaxStops
  /\ count' = [count EXCEPT !.stops = @ + 1]
  /\ stopping' = TRUE
  /\ \/ /\ proc = "opening" /\ reach' = registered
        /\ UNCHANGED <<file, work, proc, at, stmt, current, saving, registered,
                       handler, origin>>
     \/ /\ proc = "serving" /\ proc' = "down"
        /\ UNCHANGED <<file, work, at, stmt, current, saving, registered, handler,
                       reach, origin>>
  /\ UNCHANGED settled

\* Its interrupt: it ends a statement that is running, and only that.
Interrupt ==
  /\ reach
  /\ IF stmt \in {"running", "long"}
       THEN Raise(TRUE)
       ELSE /\ reach' = FALSE
            /\ UNCHANGED <<file, work, proc, at, stmt, current, saving, registered,
                           handler, stopping, origin>>
  /\ UNCHANGED <<settled, count>>

\* The progress handler of a registered connection, as the statement runs.
StopProgress ==
  /\ handler /\ stopping /\ proc = "opening" /\ stmt \in {"running", "long"}
  /\ Raise(TRUE)
  /\ UNCHANGED <<settled, count>>

\* A stop that no step of the start met: uvicorn has the signal, and shuts down
\* as soon as the lifespan has started.
StopServing ==
  /\ proc = "serving" /\ stopping
  /\ proc' = "down"
  /\ UNCHANGED <<file, work, startVars, origin, settled, count>>

Die ==
  /\ proc \in {"opening", "serving"}
  /\ count.faults < MaxFaults /\ count' = [count EXCEPT !.faults = @ + 1]
  /\ Gone
  /\ UNCHANGED settled

\* While it serves: the operator changes a fetch interval or switches the member;
\* a package fetch registers the member, on.
Edit ==
  /\ proc = "serving"
  /\ \E v \in {"seed", "config", "other"}, m \in {"absent", "on", "off"} :
       /\ \/ v = file.value["open_meteo_interval"]
          \/ m = file.member
       /\ m = "absent" => file.member = "absent"
       /\ file.member = "absent" => m \in {"absent", "on"}
       /\ file' = [file EXCEPT !.value["open_meteo_interval"] = v, !.member = m]
  /\ file' # file
  /\ work' = file'
  /\ count.edits < MaxEdits /\ count' = [count EXCEPT !.edits = @ + 1]
  /\ UNCHANGED <<proc, startVars, origin, settled>>

StartupInit ==
  /\ file \in OldFiles \cup {Fresh}
  /\ work = file /\ origin = file
  /\ proc = "down" /\ at = "set_handler" /\ stmt = "idle" /\ current = 0
  /\ saving = FALSE /\ registered = FALSE /\ handler = FALSE
  /\ stopping = FALSE /\ reach = FALSE
  /\ settled = {}
  /\ count = [stops |-> 0, faults |-> 0, edits |-> 0]

StartupNext ==
  \/ StartProcess
  \/ \E s \in Bookkeeping : Keep(s)
  \/ Skip \/ BeginStep \/ Execute \/ Refuse \/ Finish \/ Fail \/ Fault
  \/ RequestStop \/ Interrupt \/ StopProgress \/ StopServing \/ Die
  \/ Edit

StartupSpec == StartupInit /\ [][StartupNext]_startupVars

\* The supervisor restarts the process; a statement that ends by itself does so,
\* and the thread, the handler and the signal go on.  Nothing is assumed of a
\* statement that has no bound ("long").
StartupAdvances ==
  \/ StartProcess
  \/ \E s \in Bookkeeping : Keep(s)
  \/ Skip \/ BeginStep \/ Execute \/ Refuse \/ (stmt = "running" /\ Finish) \/ Fail

-----------------------------------------------------------------------------
(* Properties.                                                             *)

StartupTypeOK ==
  /\ file \in File /\ work \in File /\ origin \in File
  /\ proc \in {"down", "opening", "serving", "refused"}
  /\ at \in Range(Script) /\ stmt \in {"idle", "checked", "running", "long"}
  /\ current \in {0, 16, 17}
  /\ {saving, registered, handler, stopping, reach} \subseteq BOOLEAN
  /\ settled \subseteq {"interval", "member"}
  /\ count \in [stops : 0..MaxStops, faults : 0..MaxFaults, edits : 0..MaxEdits]

\* Whatever ends a start, and between whichever two statements, a forecast of
\* the old file is in the old tables or in the history, never in both and never
\* in neither; a file that serves is converted to the last row; and a refused
\* file is as it was.  migrations.py:1488-1553.
HistoryKept ==
  /\ file.old \cap file.history = {}
  /\ file.old \cup file.history = origin.old \cup origin.history
  /\ proc = "serving" => file.version = 17 /\ ~file.tables /\ ~file.removed /\ ~file.record
  /\ proc = "refused" => file = origin

\* From the first start that finished, no start changes the fetch interval; and
\* none switches off a member that a finished start has found: a correction
\* runs once, however many starts were cut between its UPDATE and its key.
\* migrations.py:1147-1149, 1211-1214.
OperatorChoiceKept ==
  [][proc # "serving" =>
       /\ "interval" \in settled => file'.value["open_meteo_interval"]
                                      = file.value["open_meteo_interval"]
       /\ "member" \in settled => file'.member = file.member]_startupVars

\* A supported file comes to serve at version 17, whatever stops and deaths cut
\* its starts, unless a statement runs for ever.  migrations.py:1306-1325.
UpgradeCompletes ==
  Refused(origin) \/ origin.unread \/ <>[](stmt = "long")
    \/ <>(proc = "serving" /\ file.version = 17)

\* A stop ends the start it meets, or the serving that follows it, though its
\* statement would run for ever.  stop.py:62-78.
StopEnds == stopping ~> proc \in {"down", "refused"}

=============================================================================
