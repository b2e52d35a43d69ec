----------------------------- MODULE InputEpoch -----------------------------
(***************************************************************************)
(* The counts by which wxverify tells whether a scoring input may have     *)
(* changed: the input epoch, moved by the writer's transactions, and the   *)
(* external-commit count, moved by a probe connection.  Two clients rely   *)
(* on them: a job that computes from a snapshot and applies the result     *)
(* only if the epoch is still the one it read, and a page reader that pins *)
(* its snapshot to the counts.                                             *)
(*                                                                         *)
(* Sources: wxverify/db/connection.py, db/snapshot.py.                     *)
(*                                                                         *)
(* The writer's thread, the readers' threads, the event loop and the other *)
(* connections on the file interleave; one action per step that another    *)
(* of them can see.  PRAGMA data_version of a connection is modelled by    *)
(* what it tells: the commits made by the other connections so far.        *)
(***************************************************************************)
EXTENDS Integers, FiniteSets

CONSTANTS
  Jobs,        \* the jobs that apply results with write_if_current
  Readers,     \* the pooled readers
  NoJob,       \* the job of a plain write
  MaxForeign,  \* bound: commits by other connections
  MaxOwn,      \* bound: commits of the writer that changed the file
  MaxEpoch     \* bound: no write begins once the epoch is here

ASSUME ConstantsAssumption ==
  /\ NoJob \notin Jobs
  /\ MaxForeign \in Nat /\ MaxOwn \in Nat /\ MaxEpoch \in Nat

VARIABLES
  \* the database file
  inputs,    \* the version of the scoring inputs it holds
  foreign,   \* how many commits other connections have made
  own,       \* how many commits of the writer changed it
  \* Database's fields
  epoch,     \* _input_epoch
  dvSeen,    \* _dv_seen, a data_version of the writer
  ext,       \* _external_seq
  probeDv,   \* _probe_dv, a data_version of the probe
  \* the write transaction on _conn, at most one at a time (_write_lock)
  wpc,       \* where it is
  write,     \* what it is: its job, whether it is exempt, how it went
  seen,      \* the probe's data_version read by _absorb_own_commit
  \* the clients
  jpc, jEpoch, jInputs,      \* a job: step, epoch in hand, inputs in its snapshot
  rpc, rCounts, rInputs,     \* a reader: step, counts read, inputs in its snapshot
  pins       \* history: every pin registered, with the inputs of its snapshot

fileVars   == <<inputs, foreign, own>>
countVars  == <<epoch, dvSeen, ext, probeDv>>
writeVars  == <<wpc, write, seen>>
jobVars    == <<jpc, jEpoch, jInputs>>
readerVars == <<rpc, rCounts, rInputs, pins>>
vars == <<fileVars, countVars, writeVars, jobVars, readerVars>>

-----------------------------------------------------------------------------

DataVersion == [foreign : Nat, own : Nat]
Counts == [ext : Nat, epoch : Nat]

\* PRAGMA data_version on the writer and on the probe, which never writes.
WriterDv == foreign
ProbeDv  == [foreign |-> foreign, own |-> own]

\* _probe_lock is held between the two reads of _absorb_own_commit.
ProbeLocked == wpc = "absorbing"

Idle == [job |-> NoJob, exempt |-> FALSE, changed |-> FALSE, done |-> FALSE]

-----------------------------------------------------------------------------
(* The write transaction: _run_epoch_txn under _write_lock.                *)

\* Mutant of Noticed: the changed data_version is stored, the epoch stays.
NoticedSilently == epoch

\* _body, inside BEGIN IMMEDIATE: a changed data_version moves the epoch.
Noticed == IF WriterDv # dvSeen THEN epoch + 1 ELSE epoch

\* write, write_sync and write_if_current: a transaction begins, and fn runs
\* unless an expected epoch no longer matches (_EpochMovedSignal).
Begin(job, exempt) ==
  /\ wpc = "idle" /\ epoch < MaxEpoch
  /\ dvSeen' = WriterDv
  /\ epoch' = Noticed
  /\ wpc' = IF job \in Jobs /\ jEpoch[job] # Noticed THEN "absorb" ELSE "running"
  /\ write' = [Idle EXCEPT !.job = job, !.exempt = exempt]
  /\ UNCHANGED <<fileVars, ext, probeDv, seen, readerVars>>

Write ==
  /\ \E exempt \in BOOLEAN : Begin(NoJob, exempt)
  /\ UNCHANGED jobVars

Apply(j) ==
  /\ jpc[j] = "computed"
  /\ Begin(j, FALSE)
  /\ jpc' = [jpc EXCEPT ![j] = "applying"]
  /\ UNCHANGED <<jEpoch, jInputs>>

\* BEGIN IMMEDIATE fails: nothing of _body runs.
BeginFails ==
  /\ wpc = "idle" /\ epoch < MaxEpoch
  /\ wpc' = "absorb"
  /\ write' = Idle
  /\ UNCHANGED <<fileVars, countVars, seen, jobVars, readerVars>>

\* fn changed rows and the commit went through.  An exempt write changes no
\* scoring input.
Commit ==
  /\ wpc = "running" /\ own < MaxOwn
  /\ own' = own + 1
  /\ inputs' \in IF write.exempt THEN {inputs} ELSE {inputs, inputs + 1}
  /\ write' = [write EXCEPT !.changed = TRUE, !.done = TRUE]
  /\ jInputs' = [j \in Jobs |-> IF j = write.job THEN inputs' ELSE jInputs[j]]
  /\ wpc' = "ended"
  /\ UNCHANGED <<foreign, countVars, seen, jpc, jEpoch, readerVars>>

\* fn changed no row: the commit leaves the file as it was.
CommitNothing ==
  /\ wpc = "running"
  /\ write' = [write EXCEPT !.done = TRUE]
  /\ wpc' = "ended"
  /\ UNCHANGED <<fileVars, countVars, seen, jobVars, readerVars>>

\* fn or the commit raises, after changing rows or before.
Rollback ==
  /\ wpc = "running"
  /\ \E changed \in BOOLEAN : write' = [write EXCEPT !.changed = changed]
  /\ wpc' = "ended"
  /\ UNCHANGED <<fileVars, countVars, seen, jobVars, readerVars>>

MovesEpoch == write.changed /\ ~write.exempt

\* The finally of _run_epoch_txn: changed rows move the epoch.
Bump ==
  /\ wpc = "ended"
  /\ epoch' = IF MovesEpoch THEN epoch + 1 ELSE epoch
  /\ wpc' = "absorb"
  /\ UNCHANGED <<fileVars, dvSeen, ext, probeDv, write, seen, jobVars, readerVars>>

\* _absorb_own_commit, under _probe_lock: the probe's data_version ...
AbsorbProbe ==
  /\ wpc = "absorb"
  /\ seen' = ProbeDv
  /\ wpc' = "absorbing"
  /\ UNCHANGED <<fileVars, countVars, write, jobVars, readerVars>>

\* The transaction returns to its caller: a job goes on to its next chunk with
\* the epoch after its write, or starts over.
Return ==
  /\ wpc' = "idle"
  /\ write' = Idle
  /\ jpc' = [j \in Jobs |-> IF j # write.job THEN jpc[j]
                            ELSE IF write.done THEN "computed" ELSE "start"]
  /\ jEpoch' = [j \in Jobs |-> IF j = write.job THEN epoch ELSE jEpoch[j]]
  /\ UNCHANGED <<fileVars, epoch, dvSeen, seen, jInputs, readerVars>>

\* Mutant of AbsorbOwn: the writer's data_version is not compared.
AbsorbOwnUncounted ==
  /\ wpc = "absorbing"
  /\ ext' = ext
  /\ probeDv' = seen
  /\ Return

\* ... then the writer's: a commit by another connection since the transaction
\* began is counted, and what the probe saw is the new baseline.
AbsorbOwn ==
  /\ wpc = "absorbing"
  /\ ext' = IF WriterDv # dvSeen THEN ext + 1 ELSE ext
  /\ probeDv' = seen
  /\ Return

\* A read that fails: nothing is acknowledged.
AbsorbFails ==
  /\ wpc \in {"absorb", "absorbing"}
  /\ UNCHANGED <<ext, probeDv>>
  /\ Return

-----------------------------------------------------------------------------
(* A job that computes from a snapshot: FencedWriter.read_at_epoch.        *)

\* The epoch is read on the event loop, with no lock ...  A job that raised
\* while it computed is followed by the next one.
ReadEpoch(j) ==
  /\ jpc[j] \in {"start", "computed"}
  /\ jEpoch' = [jEpoch EXCEPT ![j] = epoch]
  /\ jpc' = [jpc EXCEPT ![j] = "epoch"]
  /\ UNCHANGED <<fileVars, countVars, writeVars, jInputs, readerVars>>

\* ... before the snapshot is taken on a pooled reader.
ReadSnapshot(j) ==
  /\ jpc[j] = "epoch"
  /\ jInputs' = [jInputs EXCEPT ![j] = inputs]
  /\ jpc' = [jpc EXCEPT ![j] = "computed"]
  /\ UNCHANGED <<fileVars, countVars, writeVars, jEpoch, readerVars>>

-----------------------------------------------------------------------------
(* A page reader: pinned_snapshot on a thread of its own.                  *)

\* external_commit_seq: a moved probe is acknowledged and counted.
Lookup ==
  /\ ~ProbeLocked
  /\ probeDv' = ProbeDv
  /\ ext' = IF ProbeDv # probeDv THEN ext + 1 ELSE ext
  /\ UNCHANGED <<fileVars, epoch, dvSeen, writeVars, jobVars>>

RStep(r, from, to) ==
  /\ rpc[r] = from
  /\ rpc' = [rpc EXCEPT ![r] = to]

\* input_counts before the snapshot: the external count, then the epoch.
CountBefore(r) ==
  /\ RStep(r, "start", "epoch1")
  /\ Lookup
  /\ rCounts' = [rCounts EXCEPT ![r].ext = ext']
  /\ UNCHANGED <<rInputs, pins>>

EpochBefore(r) ==
  /\ RStep(r, "epoch1", "begin")
  /\ rCounts' = [rCounts EXCEPT ![r].epoch = epoch]
  /\ UNCHANGED <<fileVars, countVars, writeVars, jobVars, rInputs, pins>>

\* BEGIN DEFERRED and the priming read.
Snapshot(r) ==
  /\ RStep(r, "begin", "count2")
  /\ rInputs' = [rInputs EXCEPT ![r] = inputs]
  /\ UNCHANGED <<fileVars, countVars, writeVars, jobVars, rCounts, pins>>

\* input_counts after it; a moved count is "counts_moved", with no pin.
CountAfter(r) ==
  /\ Lookup
  /\ RStep(r, "count2", IF ext' = rCounts[r].ext THEN "epoch2" ELSE "start")
  /\ UNCHANGED <<rCounts, rInputs, pins>>

EpochAfter(r) ==
  /\ RStep(r, "epoch2", "start")
  /\ pins' = IF epoch = rCounts[r].epoch
             THEN pins \cup {[counts |-> rCounts[r], inputs |-> rInputs[r]]}
             ELSE pins
  /\ UNCHANGED <<fileVars, countVars, writeVars, jobVars, rCounts, rInputs>>

\* The probe cannot be read: "probe_error".
ProbeFails(r) ==
  /\ rpc[r] \in {"start", "count2"} /\ ~ProbeLocked
  /\ rpc' = [rpc EXCEPT ![r] = "start"]
  /\ UNCHANGED <<fileVars, countVars, writeVars, jobVars, rCounts, rInputs, pins>>

-----------------------------------------------------------------------------
(* Other connections on the file, kept out by the writer's file lock while *)
(* its transaction is open.                                                *)

ForeignCommit ==
  /\ wpc # "running" /\ foreign < MaxForeign
  /\ foreign' = foreign + 1
  /\ inputs' \in {inputs, inputs + 1}
  /\ UNCHANGED <<own, countVars, writeVars, jobVars, readerVars>>

-----------------------------------------------------------------------------

\* After _open: its baselines are the file's, and its bump made the epoch 1.
Init ==
  /\ inputs = 0 /\ foreign = 0 /\ own = 0
  /\ epoch = 1 /\ dvSeen = 0 /\ ext = 0 /\ probeDv = [foreign |-> 0, own |-> 0]
  /\ wpc = "idle" /\ write = Idle /\ seen = [foreign |-> 0, own |-> 0]
  /\ jpc = [j \in Jobs |-> "start"]
  /\ jEpoch = [j \in Jobs |-> 0]
  /\ jInputs = [j \in Jobs |-> 0]
  /\ rpc = [r \in Readers |-> "start"]
  /\ rCounts = [r \in Readers |-> [ext |-> 0, epoch |-> 0]]
  /\ rInputs = [r \in Readers |-> 0]
  /\ pins = {}

JobStep(j) == Apply(j) \/ ReadEpoch(j) \/ ReadSnapshot(j)

WriteStep == \/ Write \/ BeginFails \/ Commit \/ CommitNothing \/ Rollback
             \/ Bump \/ AbsorbProbe \/ AbsorbOwn \/ AbsorbFails

ReaderStep(r) == \/ CountBefore(r) \/ EpochBefore(r) \/ Snapshot(r)
                 \/ CountAfter(r) \/ EpochAfter(r) \/ ProbeFails(r)

Next == \/ WriteStep
        \/ \E j \in Jobs : JobStep(j)
        \/ \E r \in Readers : ReaderStep(r)
        \/ ForeignCommit

Spec == Init /\ [][Next]_vars

-----------------------------------------------------------------------------
(* Properties.                                                             *)

\* Every variable holds values the code can store.
TypeOK ==
  /\ inputs \in Nat /\ foreign \in Nat /\ own \in Nat
  /\ epoch \in Nat /\ dvSeen \in Nat /\ ext \in Nat
  /\ probeDv \in DataVersion /\ seen \in DataVersion
  /\ wpc \in {"idle", "running", "ended", "absorb", "absorbing"}
  /\ write \in [job : Jobs \cup {NoJob}, exempt : BOOLEAN,
                changed : BOOLEAN, done : BOOLEAN]
  /\ jpc \in [Jobs -> {"start", "epoch", "computed", "applying"}]
  /\ jEpoch \in [Jobs -> Nat] /\ jInputs \in [Jobs -> Nat]
  /\ rpc \in [Readers -> {"start", "epoch1", "begin", "count2", "epoch2"}]
  /\ rCounts \in [Readers -> Counts] /\ rInputs \in [Readers -> Nat]
  /\ pins \subseteq [counts : Counts, inputs : Nat]

\* write_if_current runs fn only over the inputs its values were computed from:
\* those of the job's snapshot, or those its own last chunk left.
NoStaleApply ==
  wpc = "running" /\ write.job # NoJob => jInputs[write.job] = inputs

\* Snapshots pinned to the same counts hold the same inputs, so a value cached
\* under a pin is right for every later snapshot with that pin.
PinsAgree ==
  \A p, q \in pins : p.counts = q.counts => p.inputs = q.inputs
=============================================================================
