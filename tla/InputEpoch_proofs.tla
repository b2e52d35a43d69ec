------------------------- MODULE InputEpoch_proofs -------------------------
(* Proofs of InputEpoch's invariants, for any number of jobs, readers,     *)
(* commits and writes.                                                     *)
EXTENDS InputEpoch, TLAPS

-----------------------------------------------------------------------------
(* The inductive invariant.                                                *)

\* No stored count or data_version is ahead of what it was read from.
NothingAhead ==
  /\ dvSeen <= foreign
  /\ probeDv.foreign <= foreign /\ probeDv.own <= own
  /\ seen.foreign <= foreign /\ seen.own <= own
  /\ \A j \in Jobs : jEpoch[j] <= epoch
  /\ \A r \in Readers : rCounts[r].ext <= ext /\ rCounts[r].epoch <= epoch
  /\ \A p \in pins : p.counts.ext <= ext /\ p.counts.epoch <= epoch

\* What the transaction's place says of it; no other connection commits while
\* it is open, and its job waits for it.
WriteFit ==
  /\ wpc = "idle" => write = Idle
  /\ wpc = "running" => dvSeen = foreign /\ ~write.done /\ ~write.changed
  /\ \A j \in Jobs : write.job = j => jpc[j] = "applying"

\* Nothing has changed the inputs that the epoch does not show, or will not
\* show before the next transaction begins.
AllShown == foreign = dvSeen /\ ~(wpc = "ended" /\ MovesEpoch)

\* A job whose epoch is still the current one computed from the present
\* inputs, unless a change is on its way to the epoch.
JobsFresh ==
  \A j \in Jobs :
    jpc[j] = "computed" /\ jEpoch[j] = epoch /\ AllShown => jInputs[j] = inputs

\* A job's own transaction runs over its inputs and, once it ended well, is
\* all that has changed them.
AppliedFresh ==
  \A j \in Jobs :
    /\ write.job = j /\ foreign = dvSeen
    /\ wpc = "running" \/ write.done
    => jInputs[j] = inputs

\* A change that no lookup has counted yet and that will still move a count.
Uncounted == probeDv # ProbeDv /\ ~AllShown

\* Inputs seen at the present counts are the present ones, or the change since
\* is still to be counted.
Explained(i) == i = inputs \/ Uncounted

PinsCurrent ==
  \A p \in pins :
    p.counts.ext = ext /\ p.counts.epoch = epoch => Explained(p.inputs)

ReadersCurrent ==
  \A r \in Readers :
    /\ rpc[r] \in {"count2", "epoch2"}
    /\ rCounts[r].ext = ext /\ rCounts[r].epoch = epoch
    => Explained(rInputs[r])

\* The reader is about to pin its snapshot unless the epoch moves.
Pinning(r) == rpc[r] = "epoch2" /\ rCounts[r].epoch = epoch

PinningAgree ==
  \A r \in Readers : Pinning(r) =>
    /\ \A p \in pins : p.counts = rCounts[r] => p.inputs = rInputs[r]
    /\ \A q \in Readers :
         Pinning(q) /\ rCounts[q] = rCounts[r] => rInputs[q] = rInputs[r]

CountInv == TypeOK /\ NothingAhead /\ WriteFit
JobInv   == JobsFresh /\ AppliedFresh
PinInv   == PinsCurrent /\ ReadersCurrent /\ PinningAgree /\ PinsAgree
Inv      == CountInv /\ JobInv /\ PinInv

-----------------------------------------------------------------------------
(* Types.                                                                  *)

LEMMA InitCountInv == Init => CountInv
  <1> SUFFICES ASSUME Init PROVE CountInv
    OBVIOUS
  <1>1. TypeOK
    BY DEF Init, TypeOK, DataVersion, Counts, Idle
  <1>2. NothingAhead
    BY DEF Init, NothingAhead
  <1>3. WriteFit
    BY ConstantsAssumption DEF Init, WriteFit, Idle
  <1> QED BY <1>1, <1>2, <1>3 DEF CountInv

\* The writer's transactions keep the types.
LEMMA WriteTypes ==
  ASSUME TypeOK,
         WriteStep \/ \E j \in Jobs : Apply(j)
  PROVE  TypeOK'
  <1> USE DEF TypeOK, fileVars, countVars, writeVars, jobVars, readerVars
  <1>1. ASSUME NEW job \in Jobs \cup {NoJob}, NEW exempt \in BOOLEAN, Begin(job, exempt)
        PROVE  /\ dvSeen' \in Nat /\ epoch' \in Nat
               /\ wpc' \in {"absorb", "running"}
               /\ write' \in [job : Jobs \cup {NoJob}, exempt : BOOLEAN,
                              changed : BOOLEAN, done : BOOLEAN]
    <2>1. dvSeen' \in Nat /\ epoch' \in Nat /\ wpc' \in {"absorb", "running"}
      BY <1>1 DEF Begin, Noticed, WriterDv
    <2>2. write' = [job |-> job, exempt |-> exempt, changed |-> FALSE, done |-> FALSE]
      BY <1>1 DEF Begin, Idle
    <2> QED BY <1>1, <2>1, <2>2
  <1>2. CASE Write
    BY <1>1, <1>2 DEF Write, Begin
  <1>3. ASSUME NEW j \in Jobs, Apply(j) PROVE TypeOK'
    <2>1. Begin(j, FALSE) /\ jpc' \in [Jobs -> {"start", "epoch", "computed", "applying"}]
      BY <1>3 DEF Apply
    <2>2. UNCHANGED <<fileVars, ext, probeDv, seen, readerVars, jEpoch, jInputs>>
      BY <1>3 DEF Apply, Begin
    <2>3. /\ dvSeen' \in Nat /\ epoch' \in Nat
          /\ wpc' \in {"absorb", "running"}
          /\ write' \in [job : Jobs \cup {NoJob}, exempt : BOOLEAN,
                         changed : BOOLEAN, done : BOOLEAN]
      <3>1. FALSE \in BOOLEAN /\ j \in Jobs \cup {NoJob}
        OBVIOUS
      <3> HIDE DEF TypeOK
      <3> QED BY <1>1, <2>1, <3>1
    <2> QED BY <2>1, <2>2, <2>3
  <1>4. CASE BeginFails
    BY <1>4 DEF BeginFails, Idle
  <1>5. CASE Commit
    <2>1. inputs' \in Nat
      BY <1>5 DEF Commit
    <2>2. write' \in [job : Jobs \cup {NoJob}, exempt : BOOLEAN,
                      changed : BOOLEAN, done : BOOLEAN]
      BY <1>5 DEF Commit
    <2>3. jInputs' \in [Jobs -> Nat]
      BY <1>5, <2>1 DEF Commit
    <2> QED BY <1>5, <2>1, <2>2, <2>3 DEF Commit
  <1>6. CASE CommitNothing
    BY <1>6 DEF CommitNothing
  <1>7. CASE Rollback
    BY <1>7 DEF Rollback
  <1>8. CASE Bump
    BY <1>8 DEF Bump
  <1>9. CASE AbsorbProbe
    BY <1>9 DEF AbsorbProbe, ProbeDv, DataVersion
  <1>10. ASSUME Return, ext' \in Nat, probeDv' \in DataVersion PROVE TypeOK'
    BY <1>10 DEF Return, Idle
  <1>11. CASE AbsorbOwn
    BY <1>10, <1>11 DEF AbsorbOwn
  <1>12. CASE AbsorbFails
    BY <1>10, <1>12 DEF AbsorbFails
  <1> QED BY <1>2, <1>3, <1>4, <1>5, <1>6, <1>7, <1>8, <1>9, <1>11, <1>12 DEF WriteStep

\* So do the jobs' reads, the readers and the other connections.
LEMMA OtherTypes ==
  ASSUME TypeOK,
         \/ \E j \in Jobs : ReadEpoch(j) \/ ReadSnapshot(j)
         \/ \E r \in Readers : ReaderStep(r)
         \/ ForeignCommit
  PROVE  TypeOK'
  <1> USE DEF TypeOK, fileVars, countVars, writeVars, jobVars, readerVars
  <1>1. ASSUME NEW j \in Jobs, ReadEpoch(j) \/ ReadSnapshot(j) PROVE TypeOK'
    BY <1>1 DEF ReadEpoch, ReadSnapshot
  <1>2. CASE ForeignCommit
    BY <1>2 DEF ForeignCommit
  <1>3. ASSUME Lookup PROVE ext' \in Nat /\ probeDv' \in DataVersion
    BY <1>3 DEF Lookup, ProbeDv, DataVersion
  <1>4. ASSUME NEW r \in Readers, ReaderStep(r) PROVE TypeOK'
    <2>1. CASE CountBefore(r)
      <3>1. rCounts' \in [Readers -> Counts]
        BY <1>3, <2>1 DEF CountBefore, Counts
      <3> QED BY <1>3, <2>1, <3>1 DEF CountBefore, Lookup, RStep
    <2>2. CASE EpochBefore(r)
      <3>1. rCounts' \in [Readers -> Counts]
        BY <2>2 DEF EpochBefore, Counts
      <3> QED BY <2>2, <3>1 DEF EpochBefore, RStep
    <2>3. CASE Snapshot(r)
      BY <2>3 DEF Snapshot, RStep
    <2>4. CASE CountAfter(r)
      BY <1>3, <2>4 DEF CountAfter, Lookup, RStep
    <2>5. CASE EpochAfter(r)
      BY <2>5 DEF EpochAfter, RStep
    <2>6. CASE ProbeFails(r)
      BY <2>6 DEF ProbeFails
    <2> QED BY <1>4, <2>1, <2>2, <2>3, <2>4, <2>5, <2>6 DEF ReaderStep
  <1> QED BY <1>1, <1>2, <1>4

LEMMA TypesKept == ASSUME TypeOK, [Next]_vars PROVE TypeOK'
  <1>1. CASE UNCHANGED vars
    BY <1>1 DEF vars, fileVars, countVars, writeVars, jobVars, readerVars, TypeOK
  <1> QED BY <1>1, WriteTypes, OtherTypes DEF Next, JobStep

-----------------------------------------------------------------------------
(* The counts and the transaction.                                         *)

\* A transaction that begins over the counts.
LEMMA BeginCounts ==
  ASSUME CountInv, NEW job \in Jobs \cup {NoJob}, NEW exempt, Begin(job, exempt)
  PROVE  /\ wpc = "idle" /\ foreign' = foreign
         /\ dvSeen' = foreign /\ epoch \in Nat /\ epoch <= epoch'
         /\ foreign # dvSeen => epoch' = epoch + 1
         /\ foreign = dvSeen => epoch' = epoch
         /\ wpc' \in {"running", "absorb"}
         /\ wpc' = "running" /\ job \in Jobs => jEpoch[job] = epoch'
         /\ write' = [job |-> job, exempt |-> exempt, changed |-> FALSE, done |-> FALSE]
         /\ UNCHANGED <<inputs, own, ext, probeDv, seen, rpc, rCounts, rInputs, pins>>
  <1>1. write' = [job |-> job, exempt |-> exempt, changed |-> FALSE, done |-> FALSE]
    BY DEF Begin, Idle
  <1>2. epoch \in Nat /\ epoch' = Noticed /\ dvSeen' = foreign /\ foreign' = foreign
    BY DEF Begin, WriterDv, CountInv, TypeOK, fileVars
  <1>3. /\ wpc = "idle" /\ wpc' \in {"running", "absorb"}
        /\ wpc' = "running" /\ job \in Jobs => jEpoch[job] = epoch'
    BY <1>2 DEF Begin
  <1>4. UNCHANGED <<inputs, own, ext, probeDv, seen, rpc, rCounts, rInputs, pins>>
    BY DEF Begin, fileVars, readerVars
  <1> QED BY <1>1, <1>2, <1>3, <1>4 DEF Noticed, WriterDv

\* No count ever goes back.
LEMMA CountsGrow ==
  ASSUME CountInv, [Next]_vars
  PROVE  ext <= ext' /\ epoch <= epoch' /\ foreign <= foreign' /\ own <= own'
  <1> DEFINE Grow == ext <= ext' /\ epoch <= epoch' /\ foreign <= foreign' /\ own <= own'
  <1>1. /\ ext \in Nat /\ epoch \in Nat /\ foreign \in Nat /\ own \in Nat
        /\ FALSE \in BOOLEAN
    BY DEF CountInv, TypeOK
  <1> USE DEF fileVars, countVars, writeVars, jobVars, readerVars
  <1>2. CASE UNCHANGED vars
    BY <1>1, <1>2 DEF vars
  <1>3. ASSUME NEW job \in Jobs \cup {NoJob}, NEW exempt, Begin(job, exempt) PROVE Grow
    BY <1>1, <1>3, BeginCounts
  <1>4. CASE Write
    BY <1>3, <1>4 DEF Write
  <1>5. CASE BeginFails \/ CommitNothing \/ Rollback \/ AbsorbProbe
    BY <1>1, <1>5 DEF BeginFails, CommitNothing, Rollback, AbsorbProbe
  <1>6. CASE Commit \/ Bump
    BY <1>1, <1>6 DEF Commit, Bump
  <1>7. CASE AbsorbOwn \/ AbsorbFails
    BY <1>1, <1>7 DEF AbsorbOwn, AbsorbFails, Return
  <1>8. ASSUME NEW j \in Jobs, JobStep(j) PROVE Grow
    <2>1. CASE Apply(j)
      BY <1>3, <2>1 DEF Apply
    <2>2. CASE ReadEpoch(j) \/ ReadSnapshot(j)
      BY <1>1, <2>2 DEF ReadEpoch, ReadSnapshot
    <2> QED BY <1>8, <2>1, <2>2 DEF JobStep
  <1>9. ASSUME NEW r \in Readers, ReaderStep(r) PROVE Grow
    BY <1>1, <1>9 DEF ReaderStep, CountBefore, EpochBefore, Snapshot, CountAfter,
                      EpochAfter, ProbeFails, Lookup
  <1>10. CASE ForeignCommit
    BY <1>1, <1>10 DEF ForeignCommit
  <1> QED BY <1>2, <1>4, <1>5, <1>6, <1>7, <1>8, <1>9, <1>10 DEF Next, WriteStep

\* A lookup, whoever makes it.
LEMMA LookupCounts ==
  ASSUME CountInv, Lookup
  PROVE  /\ wpc # "absorbing" /\ probeDv' = ProbeDv
         /\ probeDv = ProbeDv => ext' = ext
         /\ probeDv # ProbeDv => ext' = ext + 1
         /\ UNCHANGED <<inputs, foreign, own, epoch, dvSeen, wpc, write, seen,
                        jpc, jEpoch, jInputs>>
  BY DEF Lookup, ProbeLocked, fileVars, writeVars, jobVars

\* Only a reader's step changes what the readers hold.
LEMMA OnlyReaders ==
  ASSUME [Next]_vars
  PROVE  UNCHANGED <<rpc, rCounts, rInputs, pins>> \/ \E r \in Readers : ReaderStep(r)
  BY DEF Next, vars, WriteStep, JobStep, Write, Apply, Begin, BeginFails, Commit,
         CommitNothing, Rollback, Bump, AbsorbProbe, AbsorbOwn, AbsorbFails, Return,
         ReadEpoch, ReadSnapshot, ForeignCommit,
         fileVars, countVars, writeVars, jobVars, readerVars

\* Nothing stored runs ahead of what it was read from.
LEMMA AheadKept ==
  ASSUME CountInv, [Next]_vars
  PROVE  NothingAhead'
  <1>1. /\ TypeOK /\ TypeOK' /\ NothingAhead
        /\ ext <= ext' /\ epoch <= epoch' /\ foreign <= foreign' /\ own <= own'
    BY CountsGrow, TypesKept DEF CountInv
  <1>2. /\ foreign \in Nat /\ own \in Nat /\ epoch \in Nat /\ ext \in Nat /\ dvSeen \in Nat
        /\ foreign' \in Nat /\ own' \in Nat /\ epoch' \in Nat /\ ext' \in Nat /\ dvSeen' \in Nat
    BY <1>1 DEF TypeOK
  <1>3. /\ probeDv \in DataVersion /\ seen \in DataVersion
        /\ probeDv' \in DataVersion /\ seen' \in DataVersion
    BY <1>1 DEF TypeOK
  <1> USE DEF fileVars, countVars, writeVars, jobVars, readerVars
  <1>4. dvSeen' = dvSeen \/ dvSeen' = foreign
    BY <1>1 DEF Next, vars, WriteStep, JobStep, ReaderStep, Write, Apply, Begin, WriterDv,
       BeginFails, Commit, CommitNothing, Rollback, Bump, AbsorbProbe, AbsorbOwn,
       AbsorbFails, Return, ReadEpoch, ReadSnapshot, CountBefore, EpochBefore, Snapshot,
       CountAfter, EpochAfter, ProbeFails, Lookup, ForeignCommit
  <1>5. probeDv' = probeDv \/ probeDv' = ProbeDv \/ probeDv' = seen
    BY <1>1 DEF Next, vars, WriteStep, JobStep, ReaderStep, Write, Apply, Begin, WriterDv,
       BeginFails, Commit, CommitNothing, Rollback, Bump, AbsorbProbe, AbsorbOwn,
       AbsorbFails, Return, ReadEpoch, ReadSnapshot, CountBefore, EpochBefore, Snapshot,
       CountAfter, EpochAfter, ProbeFails, Lookup, ForeignCommit
  <1>6. seen' = seen \/ seen' = ProbeDv
    BY <1>1 DEF Next, vars, WriteStep, JobStep, ReaderStep, Write, Apply, Begin, WriterDv,
       BeginFails, Commit, CommitNothing, Rollback, Bump, AbsorbProbe, AbsorbOwn,
       AbsorbFails, Return, ReadEpoch, ReadSnapshot, CountBefore, EpochBefore, Snapshot,
       CountAfter, EpochAfter, ProbeFails, Lookup, ForeignCommit
  <1>7. /\ dvSeen' <= foreign'
        /\ probeDv'.foreign <= foreign' /\ probeDv'.own <= own'
        /\ seen'.foreign <= foreign' /\ seen'.own <= own'
    BY <1>1, <1>2, <1>3, <1>4, <1>5, <1>6 DEF NothingAhead, ProbeDv, DataVersion
  <1>8. ASSUME NEW j \in Jobs PROVE jEpoch'[j] <= epoch'
    <2>1. jEpoch'[j] = jEpoch[j] \/ jEpoch'[j] = epoch
      BY <1>1 DEF TypeOK, Next, vars, WriteStep, JobStep, ReaderStep, Write, Apply, Begin,
         BeginFails, Commit, CommitNothing, Rollback, Bump, AbsorbProbe, AbsorbOwn,
         AbsorbFails, Return, ReadEpoch, ReadSnapshot, CountBefore, EpochBefore, Snapshot,
         CountAfter, EpochAfter, ProbeFails, Lookup, ForeignCommit
    <2>2. jEpoch[j] \in Nat /\ jEpoch[j] <= epoch
      BY <1>1 DEF TypeOK, NothingAhead
    <2> QED BY <1>1, <1>2, <2>1, <2>2
  <1>9. ASSUME NEW r \in Readers
        PROVE  rCounts'[r].ext <= ext' /\ rCounts'[r].epoch <= epoch'
    <2>1. rCounts[r] \in Counts /\ rCounts \in [Readers -> Counts]
      BY <1>1 DEF TypeOK
    <2>2. \/ rCounts'[r] = rCounts[r]
          \/ rCounts'[r] = [rCounts[r] EXCEPT !.ext = ext']
          \/ rCounts'[r] = [rCounts[r] EXCEPT !.epoch = epoch] /\ epoch' = epoch
      BY <2>1, OnlyReaders DEF ReaderStep, CountBefore, EpochBefore, Snapshot, CountAfter,
         EpochAfter, ProbeFails
    <2>3. rCounts[r].ext <= ext /\ rCounts[r].epoch <= epoch
      BY <1>1 DEF NothingAhead
    <2>4. /\ rCounts'[r].ext \in {rCounts[r].ext, ext'}
          /\ rCounts'[r].epoch \in {rCounts[r].epoch, epoch}
      BY <2>1, <2>2 DEF Counts
    <2> QED BY <1>1, <1>2, <2>1, <2>3, <2>4 DEF Counts
  <1>10. ASSUME NEW p \in pins' PROVE p.counts.ext <= ext' /\ p.counts.epoch <= epoch'
    <2>1. p \in pins \/ \E r \in Readers : p.counts = rCounts[r]
      BY OnlyReaders DEF ReaderStep, CountBefore, EpochBefore, Snapshot, CountAfter,
         EpochAfter, ProbeFails
    <2>2. p.counts.ext <= ext /\ p.counts.epoch <= epoch
      BY <1>1, <2>1 DEF NothingAhead
    <2>3. p.counts.ext \in Nat /\ p.counts.epoch \in Nat
      BY <1>1 DEF TypeOK, Counts
    <2> QED BY <1>1, <1>2, <2>2, <2>3
  <1> QED BY <1>7, <1>8, <1>9, <1>10 DEF NothingAhead

\* What a transaction's place says of it stays true.
LEMMA WriteFitKept ==
  ASSUME CountInv, [Next]_vars
  PROVE  WriteFit'
  <1>1. TypeOK /\ WriteFit
    BY DEF CountInv
  <1> USE DEF fileVars, countVars, writeVars, jobVars, readerVars
  <1>2. CASE UNCHANGED vars
    BY <1>1, <1>2 DEF vars, WriteFit
  <1>3. ASSUME NEW job \in Jobs \cup {NoJob}, NEW exempt, Begin(job, exempt),
               jpc' = IF job = NoJob THEN jpc ELSE [jpc EXCEPT ![job] = "applying"]
        PROVE  WriteFit'
    <2>1. ASSUME NEW j \in Jobs, write'.job = j PROVE jpc'[j] = "applying"
      BY <1>1, <1>3, <2>1, BeginCounts, ConstantsAssumption DEF TypeOK
    <2> QED BY <1>3, <2>1, BeginCounts DEF WriteFit
  <1>4. CASE Write
    BY <1>3, <1>4 DEF Write
  <1>5. ASSUME NEW j \in Jobs, Apply(j) PROVE WriteFit'
    BY <1>3, <1>5, ConstantsAssumption DEF Apply
  <1>6. CASE BeginFails
    BY <1>6, ConstantsAssumption DEF BeginFails, WriteFit, Idle
  <1>7. CASE Commit \/ CommitNothing \/ Rollback
    <2>1. write'.job = write.job /\ jpc' = jpc /\ wpc' = "ended"
      BY <1>1, <1>7 DEF Commit, CommitNothing, Rollback, TypeOK
    <2> QED BY <1>1, <2>1 DEF WriteFit
  <1>8. CASE Bump \/ AbsorbProbe
    BY <1>1, <1>8 DEF Bump, AbsorbProbe, WriteFit
  <1>9. CASE AbsorbOwn \/ AbsorbFails
    <2>1. write' = Idle /\ wpc' = "idle"
      BY <1>9 DEF AbsorbOwn, AbsorbFails, Return
    <2> QED BY <2>1, ConstantsAssumption DEF WriteFit, Idle
  <1>10. ASSUME NEW j \in Jobs, ReadEpoch(j) \/ ReadSnapshot(j) PROVE WriteFit'
    BY <1>1, <1>10 DEF ReadEpoch, ReadSnapshot, WriteFit, TypeOK
  <1>11. ASSUME NEW r \in Readers, ReaderStep(r) PROVE WriteFit'
    <2>1. UNCHANGED <<wpc, write, dvSeen, foreign, jpc>>
      BY <1>11 DEF ReaderStep, CountBefore, EpochBefore, Snapshot, CountAfter,
                   EpochAfter, ProbeFails, Lookup
    <2> QED BY <1>1, <2>1 DEF WriteFit
  <1>12. CASE ForeignCommit
    BY <1>1, <1>12 DEF ForeignCommit, WriteFit
  <1> QED BY <1>2, <1>4, <1>5, <1>6, <1>7, <1>8, <1>9, <1>10, <1>11, <1>12
          DEF Next, WriteStep, JobStep

LEMMA CountInvKept == ASSUME CountInv, [Next]_vars PROVE CountInv'
  BY TypesKept, AheadKept, WriteFitKept DEF CountInv

-----------------------------------------------------------------------------
(* The jobs.                                                               *)

\* A commit by another connection moves both data_versions.
LEMMA ForeignUnseen ==
  ASSUME CountInv, ForeignCommit
  PROVE  /\ dvSeen' = dvSeen /\ foreign' # dvSeen'
         /\ probeDv' = probeDv /\ probeDv' # ProbeDv'
  <1>1. /\ foreign' = foreign + 1 /\ dvSeen' = dvSeen /\ probeDv' = probeDv
        /\ foreign \in Nat /\ dvSeen \in Nat /\ probeDv \in DataVersion
        /\ dvSeen <= foreign /\ probeDv.foreign <= foreign
    BY DEF ForeignCommit, countVars, CountInv, TypeOK, NothingAhead
  <1>2. probeDv'.foreign # foreign'
    BY <1>1 DEF DataVersion
  <1> QED BY <1>1, <1>2 DEF ProbeDv

\* A change on its way to the epoch is never forgotten: as long as the epoch
\* stands still, inputs that were shown stay or the change is not shown yet.
LEMMA ShownOrMoved ==
  ASSUME CountInv, [Next]_vars, epoch' = epoch, AllShown'
  PROVE  AllShown /\ inputs' = inputs
  <1>1. TypeOK /\ NothingAhead /\ WriteFit
    BY DEF CountInv
  <1> USE DEF fileVars, countVars, writeVars, jobVars, readerVars, AllShown, MovesEpoch
  <1>2. CASE UNCHANGED vars
    BY <1>2 DEF vars
  <1>3. ASSUME NEW job \in Jobs \cup {NoJob}, NEW exempt, Begin(job, exempt)
        PROVE  AllShown /\ inputs' = inputs
    BY <1>1, <1>3, BeginCounts DEF TypeOK
  <1>4. CASE Write
    BY <1>3, <1>4 DEF Write
  <1>5. ASSUME NEW j \in Jobs, JobStep(j) PROVE AllShown /\ inputs' = inputs
    <2>1. CASE Apply(j)
      BY <1>3, <2>1 DEF Apply
    <2>2. CASE ReadEpoch(j) \/ ReadSnapshot(j)
      BY <2>2 DEF ReadEpoch, ReadSnapshot
    <2> QED BY <1>5, <2>1, <2>2 DEF JobStep
  <1>6. CASE BeginFails
    BY <1>6 DEF BeginFails
  <1>7. CASE Commit
    <2>1. /\ wpc = "running" /\ wpc' = "ended" /\ write'.changed /\ write'.exempt = write.exempt
          /\ write.exempt \in BOOLEAN /\ UNCHANGED <<foreign, dvSeen>>
          /\ write.exempt => inputs' = inputs
      BY <1>1, <1>7 DEF Commit, TypeOK
    <2> QED BY <2>1
  <1>8. CASE CommitNothing \/ Rollback
    BY <1>8 DEF CommitNothing, Rollback
  <1>9. CASE Bump
    <2>1. ~MovesEpoch
      <3>1. epoch \in Nat /\ epoch' = IF MovesEpoch THEN epoch + 1 ELSE epoch
        BY <1>1, <1>9 DEF Bump, TypeOK
      <3> HIDE DEF MovesEpoch
      <3> QED BY <3>1
    <2>2. UNCHANGED <<foreign, dvSeen, inputs>>
      BY <1>9 DEF Bump
    <2> QED BY <2>1, <2>2
  <1>10. CASE AbsorbProbe \/ AbsorbOwn \/ AbsorbFails
    BY <1>10 DEF AbsorbProbe, AbsorbOwn, AbsorbFails, Return
  <1>11. ASSUME NEW r \in Readers, ReaderStep(r) PROVE AllShown /\ inputs' = inputs
    BY <1>11 DEF ReaderStep, CountBefore, EpochBefore, Snapshot, CountAfter,
                 EpochAfter, ProbeFails, Lookup
  <1>12. CASE ForeignCommit
    BY <1>12, ForeignUnseen
  <1> QED BY <1>2, <1>4, <1>5, <1>6, <1>7, <1>8, <1>9, <1>10, <1>11, <1>12
          DEF Next, WriteStep

LEMMA InitJobInv == Init => JobInv
  BY ConstantsAssumption DEF Init, JobInv, JobsFresh, AppliedFresh, Idle

\* What a job holds changes only by its own steps and its own transaction's.
LEMMA JobsFreshKept ==
  ASSUME CountInv, JobInv, [Next]_vars
  PROVE  JobsFresh'
  <1>1. TypeOK /\ NothingAhead /\ WriteFit /\ CountInv'
    BY CountInvKept DEF CountInv
  <1> SUFFICES ASSUME NEW j \in Jobs,
                      jpc'[j] = "computed", jEpoch'[j] = epoch', AllShown'
               PROVE  jInputs'[j] = inputs'
    BY DEF JobsFresh
  <1> USE DEF fileVars, countVars, writeVars, jobVars, readerVars
  <1>2. CASE ReadSnapshot(j)
    BY <1>1, <1>2 DEF ReadSnapshot, TypeOK
  <1>3. CASE (AbsorbOwn \/ AbsorbFails) /\ write.job = j
    <2>1. jInputs' = jInputs /\ inputs' = inputs /\ foreign = dvSeen /\ write.done
      BY <1>3 DEF AbsorbOwn, AbsorbFails, Return, AllShown
    <2> QED BY <1>3, <2>1 DEF JobInv, AppliedFresh
  <1>4. CASE ~ReadSnapshot(j) /\ ~((AbsorbOwn \/ AbsorbFails) /\ write.job = j)
    <2> DEFINE Kept == jpc[j] = "computed" /\ jEpoch[j] = jEpoch'[j] /\ jInputs'[j] = jInputs[j]
    <2>1. Kept
      <3>1. CASE UNCHANGED vars
        BY <3>1 DEF vars
      <3>2. CASE Commit
        BY <1>1, <3>2 DEF Commit, WriteFit, TypeOK
      <3>3. CASE WriteStep /\ ~Commit
        BY <1>1, <1>4, <3>3 DEF WriteStep, Write, Begin, BeginFails, CommitNothing, Rollback,
           Bump, AbsorbProbe, AbsorbOwn, AbsorbFails, Return, TypeOK
      <3>4. ASSUME NEW i \in Jobs, JobStep(i) PROVE Kept
        BY <1>1, <1>4, <3>4 DEF JobStep, Apply, Begin, ReadEpoch, ReadSnapshot, TypeOK
      <3>5. ASSUME NEW r \in Readers, ReaderStep(r) PROVE UNCHANGED jobVars
        BY <3>5 DEF ReaderStep, CountBefore, EpochBefore, Snapshot, CountAfter,
                    EpochAfter, ProbeFails, Lookup
      <3>6. CASE ForeignCommit
        BY <3>6 DEF ForeignCommit
      <3> QED BY <3>1, <3>2, <3>3, <3>4, <3>5, <3>6 DEF Next
    <2>2. epoch' = epoch
      <3>1. jEpoch[j] <= epoch /\ epoch <= epoch' /\ jEpoch[j] \in Nat
            /\ epoch \in Nat /\ epoch' \in Nat
        BY <1>1, CountsGrow DEF NothingAhead, TypeOK, CountInv
      <3> QED BY <2>1, <3>1
    <2>3. AllShown /\ inputs' = inputs
      BY <2>2, ShownOrMoved
    <2> QED BY <2>1, <2>2, <2>3 DEF JobInv, JobsFresh
  <1> QED BY <1>2, <1>3, <1>4

LEMMA AppliedFreshKept ==
  ASSUME CountInv, JobInv, [Next]_vars
  PROVE  AppliedFresh'
  <1>1. TypeOK /\ NothingAhead /\ WriteFit
    BY DEF CountInv
  <1> SUFFICES ASSUME NEW j \in Jobs, write'.job = j, foreign' = dvSeen',
                      wpc' = "running" \/ write'.done
               PROVE  jInputs'[j] = inputs'
    BY DEF AppliedFresh
  <1>2. j # NoJob /\ j \in Jobs \cup {NoJob} /\ FALSE \in BOOLEAN
    BY ConstantsAssumption
  <1>3. AppliedFresh /\ JobsFresh
    BY DEF JobInv
  <1> USE DEF fileVars, countVars, writeVars, jobVars, readerVars
  <1>4. CASE UNCHANGED vars
    BY <1>3, <1>4 DEF vars, AppliedFresh
  <1>5. ASSUME NEW i \in Jobs \cup {NoJob}, NEW exempt, Begin(i, exempt), i # NoJob => Apply(i)
        PROVE  jInputs'[j] = inputs'
    <2>1. i = j /\ ~write'.done /\ wpc' = "running"
      BY <1>5, BeginCounts
    <2>2. jpc[j] = "computed" /\ jInputs' = jInputs
      BY <1>2, <1>5, <2>1 DEF Apply
    <2>3. jEpoch[j] = epoch /\ foreign = dvSeen /\ wpc = "idle" /\ inputs' = inputs
      <3>1. jEpoch[j] <= epoch /\ epoch \in Nat /\ jEpoch[j] \in Nat
        BY <1>1 DEF TypeOK, NothingAhead
      <3>2. /\ jEpoch[j] = epoch' /\ wpc = "idle" /\ inputs' = inputs
            /\ foreign # dvSeen => epoch' = epoch + 1
            /\ foreign = dvSeen => epoch' = epoch
        BY <1>5, <2>1, BeginCounts
      <3> QED BY <3>1, <3>2
    <2> QED BY <1>3, <2>2, <2>3 DEF JobsFresh, AllShown
  <1>6. CASE Write
    BY <1>5, <1>6 DEF Write
  <1>7. ASSUME NEW i \in Jobs, JobStep(i) PROVE jInputs'[j] = inputs'
    <2>1. CASE Apply(i)
      BY <1>2, <1>5, <2>1 DEF Apply
    <2>2. CASE ReadEpoch(i) \/ ReadSnapshot(i)
      <3>1. /\ UNCHANGED <<write, wpc, foreign, dvSeen, inputs>>
            /\ jpc[i] # "applying" /\ (i # j => jInputs'[j] = jInputs[j])
        BY <1>1, <2>2 DEF ReadEpoch, ReadSnapshot, TypeOK
      <3>2. jpc[j] = "applying"
        BY <1>1, <3>1 DEF WriteFit
      <3> QED BY <1>3, <3>1, <3>2 DEF AppliedFresh
    <2> QED BY <1>7, <2>1, <2>2 DEF JobStep
  <1>8. CASE BeginFails
    BY <1>2, <1>8 DEF BeginFails, Idle
  <1>9. CASE Commit
    BY <1>1, <1>9 DEF Commit, TypeOK
  <1>10. CASE CommitNothing
    <2>1. write.job = j /\ wpc = "running" /\ UNCHANGED <<foreign, dvSeen, jInputs, inputs>>
      BY <1>1, <1>10 DEF CommitNothing, TypeOK
    <2> QED BY <1>3, <2>1 DEF AppliedFresh
  <1>11. CASE Rollback
    <2>1. wpc = "running" /\ wpc' = "ended" /\ write'.done = write.done
      BY <1>1, <1>11 DEF Rollback, TypeOK
    <2> QED BY <1>1, <2>1 DEF WriteFit
  <1>12. CASE Bump \/ AbsorbProbe
    BY <1>3, <1>12 DEF Bump, AbsorbProbe, AppliedFresh
  <1>13. CASE AbsorbOwn \/ AbsorbFails
    BY <1>2, <1>13 DEF AbsorbOwn, AbsorbFails, Return, Idle
  <1>14. ASSUME NEW r \in Readers, ReaderStep(r) PROVE jInputs'[j] = inputs'
    <2>1. UNCHANGED <<write, wpc, foreign, dvSeen, inputs, jInputs>>
      BY <1>14 DEF ReaderStep, CountBefore, EpochBefore, Snapshot, CountAfter,
                   EpochAfter, ProbeFails, Lookup
    <2> QED BY <1>3, <2>1 DEF AppliedFresh
  <1>15. CASE ForeignCommit
    BY <1>15, ForeignUnseen
  <1> QED BY <1>4, <1>6, <1>7, <1>8, <1>9, <1>10, <1>11, <1>12, <1>13, <1>14, <1>15
          DEF Next, WriteStep

-----------------------------------------------------------------------------
(* The pins.                                                               *)

\* Inputs change with a commit, and the probe has not seen that commit.
LEMMA InputsChange ==
  ASSUME CountInv, [Next]_vars, inputs' # inputs
  PROVE  probeDv' # ProbeDv'
  <1> USE DEF fileVars, countVars, writeVars, jobVars, readerVars
  <1>1. CASE Commit
    <2>1. /\ own' = own + 1 /\ probeDv' = probeDv /\ own \in Nat
          /\ probeDv \in DataVersion /\ probeDv.own <= own
      BY <1>1 DEF Commit, CountInv, TypeOK, NothingAhead
    <2>2. probeDv'.own # own'
      BY <2>1 DEF DataVersion
    <2> QED BY <2>2 DEF ProbeDv
  <1>2. CASE ForeignCommit
    BY <1>2, ForeignUnseen
  <1>3. CASE ~Commit /\ ~ForeignCommit
    <2>1. UNCHANGED inputs
      BY <1>3 DEF Next, vars, WriteStep, JobStep, ReaderStep, Write, Apply, Begin,
         BeginFails, CommitNothing, Rollback, Bump, AbsorbProbe, AbsorbOwn,
         AbsorbFails, Return, ReadEpoch, ReadSnapshot, CountBefore, EpochBefore, Snapshot,
         CountAfter, EpochAfter, ProbeFails, Lookup
    <2> QED BY <2>1
  <1> QED BY <1>1, <1>2, <1>3

\* A commit that the probe has not seen is acknowledged by a lookup, which
\* counts it, or by a transaction that has shown everything.
LEMMA AcknowledgedShown ==
  ASSUME CountInv, [Next]_vars, ext' = ext,
         probeDv # ProbeDv, probeDv' = ProbeDv'
  PROVE  AllShown'
  <1>1. TypeOK /\ TypeOK' /\ NothingAhead
    BY TypesKept DEF CountInv
  <1>2. ext \in Nat /\ ext + 1 # ext
    BY <1>1 DEF TypeOK
  <1> USE DEF fileVars, countVars, writeVars, jobVars, readerVars
  <1>3. CASE AbsorbOwn
    <2>1. foreign = dvSeen /\ UNCHANGED <<foreign, dvSeen>> /\ wpc' = "idle"
      BY <1>2, <1>3 DEF AbsorbOwn, Return, WriterDv
    <2> QED BY <2>1 DEF AllShown
  <1>4. ~Lookup
    BY <1>2, LookupCounts
  <1>5. CASE ForeignCommit
    BY <1>5, ForeignUnseen
  <1>6. CASE Commit
    <2>1. /\ own' = own + 1 /\ probeDv' = probeDv /\ own \in Nat
          /\ probeDv \in DataVersion /\ probeDv.own <= own
      BY <1>1, <1>6 DEF Commit, TypeOK, NothingAhead
    <2>2. probeDv'.own # own'
      BY <2>1 DEF DataVersion
    <2> QED BY <2>2 DEF ProbeDv
  <1>7. CASE ~AbsorbOwn /\ ~Commit /\ ~ForeignCommit
    <2>1. UNCHANGED <<probeDv, foreign, own>>
      BY <1>4, <1>7 DEF Next, vars, WriteStep, JobStep, ReaderStep, Write, Apply, Begin,
         BeginFails, CommitNothing, Rollback, Bump, AbsorbProbe,
         AbsorbFails, Return, ReadEpoch, ReadSnapshot, CountBefore, EpochBefore, Snapshot,
         CountAfter, EpochAfter, ProbeFails
    <2> QED BY <2>1 DEF ProbeDv
  <1> QED BY <1>3, <1>5, <1>6, <1>7

\* As long as neither count moves, inputs explained before the step are
\* explained after it.
LEMMA StaysExplained ==
  ASSUME CountInv, [Next]_vars, ext' = ext, epoch' = epoch,
         NEW i, Explained(i)
  PROVE  Explained(i)'
  <1>1. CASE AllShown'
    BY <1>1, ShownOrMoved DEF Explained, Uncounted
  <1>2. ASSUME ~AllShown', probeDv' = ProbeDv'
        PROVE  i = inputs'
    <2>1. probeDv = ProbeDv
      BY <1>2, AcknowledgedShown
    <2>2. inputs' = inputs
      BY <1>2, InputsChange
    <2> QED BY <2>1, <2>2 DEF Explained, Uncounted
  <1> QED BY <1>1, <1>2 DEF Explained, Uncounted

LEMMA InitPinInv == Init => PinInv
  BY DEF Init, PinInv, PinsCurrent, ReadersCurrent, PinningAgree, Pinning, PinsAgree

\* A pin at the present counts was registered at these counts, or stands for a
\* reader that holds them.
LEMMA PinsCurrentKept ==
  ASSUME CountInv, PinInv, [Next]_vars
  PROVE  PinsCurrent'
  <1>1. CountInv' /\ PinsCurrent /\ ReadersCurrent /\ NothingAhead /\ TypeOK
    BY CountInvKept DEF CountInv, PinInv
  <1> SUFFICES ASSUME NEW p \in pins', p.counts.ext = ext', p.counts.epoch = epoch'
               PROVE  Explained(p.inputs)'
    BY DEF PinsCurrent
  <1>2. ext <= ext' /\ epoch <= epoch' /\ {ext, ext', epoch, epoch'} \subseteq Nat
    BY <1>1, CountsGrow DEF CountInv, TypeOK
  <1>3. CASE p \in pins
    <2>1. /\ p.counts.ext <= ext /\ p.counts.epoch <= epoch
      BY <1>1, <1>3 DEF NothingAhead
    <2>2. ext' = ext /\ epoch' = epoch
      BY <1>2, <2>1
    <2>3. Explained(p.inputs)
      BY <1>1, <1>3, <2>2 DEF PinsCurrent
    <2> QED BY <2>2, <2>3, StaysExplained
  <1>4. CASE p \notin pins
    <2>1. PICK r \in Readers : /\ EpochAfter(r) /\ rpc[r] = "epoch2"
                              /\ p.counts = rCounts[r] /\ p.inputs = rInputs[r]
      BY <1>4, OnlyReaders DEF ReaderStep, CountBefore, EpochBefore, Snapshot, CountAfter,
         EpochAfter, ProbeFails, RStep
    <2>2. ext' = ext /\ epoch' = epoch
      BY <2>1 DEF EpochAfter, countVars
    <2>3. Explained(p.inputs)
      BY <1>1, <2>1, <2>2 DEF ReadersCurrent
    <2> QED BY <2>2, <2>3, StaysExplained
  <1> QED BY <1>3, <1>4

\* What each step may do to a reader's place, counts and snapshot.
LEMMA ReaderMoves ==
  ASSUME TypeOK, [Next]_vars, NEW r \in Readers
  PROVE  \/ rpc'[r] \notin {"count2", "epoch2"}
         \/ UNCHANGED <<rpc, rCounts, rInputs>>
         \/ rpc'[r] = rpc[r] /\ rCounts'[r] = rCounts[r] /\ rInputs'[r] = rInputs[r]
         \/ Snapshot(r) /\ rpc'[r] = "count2" /\ rInputs'[r] = inputs
         \/ CountAfter(r) /\ rpc[r] = "count2" /\ rpc'[r] = "epoch2"
              /\ ext' = rCounts[r].ext /\ rCounts'[r] = rCounts[r] /\ rInputs'[r] = rInputs[r]
  <1>1. CASE UNCHANGED <<rpc, rCounts, rInputs, pins>>
    BY <1>1
  <1>2. ASSUME NEW q \in Readers, ReaderStep(q), q # r
        PROVE  rpc'[r] = rpc[r] /\ rCounts'[r] = rCounts[r] /\ rInputs'[r] = rInputs[r]
    BY <1>2 DEF TypeOK, ReaderStep, CountBefore, EpochBefore, Snapshot, CountAfter,
                EpochAfter, ProbeFails, RStep
  <1>3. CASE CountBefore(r) \/ EpochBefore(r) \/ EpochAfter(r) \/ ProbeFails(r)
    BY <1>3 DEF TypeOK, CountBefore, EpochBefore, EpochAfter, ProbeFails, RStep
  <1>4. CASE Snapshot(r)
    BY <1>4 DEF TypeOK, Snapshot, RStep
  <1>5. CASE CountAfter(r)
    BY <1>5 DEF TypeOK, CountAfter, RStep
  <1> QED BY <1>1, <1>2, <1>3, <1>4, <1>5, OnlyReaders DEF ReaderStep

\* So does a snapshot whose counts are still the present ones.
LEMMA ReadersCurrentKept ==
  ASSUME CountInv, PinInv, [Next]_vars
  PROVE  ReadersCurrent'
  <1>1. CountInv' /\ ReadersCurrent /\ NothingAhead /\ TypeOK
    BY CountInvKept DEF CountInv, PinInv
  <1> SUFFICES ASSUME NEW r \in Readers, rpc'[r] \in {"count2", "epoch2"},
                      rCounts'[r].ext = ext', rCounts'[r].epoch = epoch',
                      NEW i, i = rInputs'[r]
               PROVE  Explained(i)'
    BY DEF ReadersCurrent, Explained
  <1>2. ext <= ext' /\ epoch <= epoch' /\ {ext, ext', epoch, epoch'} \subseteq Nat
    BY <1>1, CountsGrow DEF CountInv, TypeOK
  <1>3. CASE Snapshot(r) /\ rInputs'[r] = inputs
    <2>1. inputs' = inputs
      BY <1>3 DEF Snapshot, fileVars
    <2> QED BY <1>3, <2>1 DEF Explained
  <1>4. ASSUME rpc[r] \in {"count2", "epoch2"}, rCounts'[r] = rCounts[r], rInputs'[r] = rInputs[r]
        PROVE  Explained(i)'
    <2>1. rCounts[r].ext <= ext /\ rCounts[r].epoch <= epoch
      BY <1>1 DEF NothingAhead
    <2>2. ext' = ext /\ epoch' = epoch
      BY <1>2, <1>4, <2>1
    <2>3. Explained(i)
      BY <1>1, <1>4, <2>2 DEF ReadersCurrent
    <2> QED BY <2>2, <2>3, StaysExplained
  <1> QED BY <1>1, <1>3, <1>4, ReaderMoves

\* A reader that finds the external count unmoved after its snapshot, with the
\* epoch unmoved too, holds the present inputs, and so does every other
\* snapshot at its counts.
LEMMA NewPinning ==
  ASSUME CountInv, PinInv, [Next]_vars, NEW r \in Readers,
         CountAfter(r), rpc[r] = "count2", ext' = rCounts[r].ext, rCounts[r].epoch = epoch'
  PROVE  /\ pins' = pins /\ rInputs' = rInputs /\ rCounts' = rCounts /\ epoch' = epoch
         /\ rInputs[r] = inputs
         /\ \A p \in pins : p.counts = rCounts[r] => p.inputs = inputs
         /\ \A q \in Readers :
              rpc[q] = "epoch2" /\ rCounts[q] = rCounts[r] => rInputs[q] = inputs
  <1>1. Lookup /\ pins' = pins /\ rInputs' = rInputs /\ rCounts' = rCounts
    BY DEF CountAfter, RStep
  <1>2. /\ epoch' = epoch /\ ext \in Nat /\ rCounts[r].ext \in Nat /\ ext' \in Nat
        /\ rCounts[r].ext <= ext /\ ext <= ext'
    BY <1>1, CountsGrow, LookupCounts, TypesKept DEF CountInv, TypeOK, Counts, NothingAhead
  <1>3. ext' = ext
    BY <1>2
  <1>4. probeDv = ProbeDv
    BY <1>1, <1>2, <1>3, LookupCounts
  <1>5. ASSUME NEW i, Explained(i) PROVE i = inputs
    BY <1>4, <1>5 DEF Explained, Uncounted
  <1>6. rCounts[r].ext = ext /\ rCounts[r].epoch = epoch /\ PinsCurrent /\ ReadersCurrent
    BY <1>2, <1>3 DEF PinInv
  <1>7. Explained(rInputs[r])
    BY <1>6 DEF ReadersCurrent
  <1>8. ASSUME NEW p \in pins, p.counts = rCounts[r] PROVE p.inputs = inputs
    BY <1>5, <1>6, <1>8 DEF PinsCurrent
  <1>9. ASSUME NEW q \in Readers, rpc[q] = "epoch2", rCounts[q] = rCounts[r]
        PROVE  rInputs[q] = inputs
    BY <1>5, <1>6, <1>9 DEF ReadersCurrent
  <1> QED BY <1>1, <1>2, <1>5, <1>7, <1>8, <1>9

\* The step that registers a pin.
LEMMA NewPin ==
  ASSUME [Next]_vars
  PROVE  \/ pins' = pins
         \/ \E r \in Readers :
              /\ EpochAfter(r) /\ Pinning(r)
              /\ pins' = pins \cup {[counts |-> rCounts[r], inputs |-> rInputs[r]]}
  BY OnlyReaders DEF ReaderStep, CountBefore, EpochBefore, Snapshot, CountAfter,
     EpochAfter, ProbeFails, RStep, Pinning

LEMMA PinsAgreeKept ==
  ASSUME PinInv, [Next]_vars
  PROVE  PinsAgree'
  <1>1. PinsAgree /\ PinningAgree
    BY DEF PinInv
  <1>2. CASE pins' = pins
    BY <1>1, <1>2 DEF PinsAgree
  <1>3. ASSUME NEW r \in Readers, Pinning(r),
               pins' = pins \cup {[counts |-> rCounts[r], inputs |-> rInputs[r]]}
        PROVE  PinsAgree'
    <2>1. ASSUME NEW p \in pins, p.counts = rCounts[r] PROVE p.inputs = rInputs[r]
      BY <1>1, <1>3, <2>1 DEF PinningAgree
    <2> QED BY <1>1, <1>3, <2>1 DEF PinsAgree
  <1> QED BY <1>2, <1>3, NewPin

LEMMA PinningAgreeKept ==
  ASSUME CountInv, PinInv, [Next]_vars
  PROVE  PinningAgree'
  <1>1. TypeOK /\ TypeOK' /\ NothingAhead /\ PinningAgree
    BY CountInvKept DEF CountInv, PinInv
  <1>2. epoch <= epoch' /\ epoch \in Nat /\ epoch' \in Nat
    BY <1>1, CountsGrow DEF TypeOK
  <1> DEFINE Was(r) == /\ Pinning(r) /\ epoch' = epoch
                       /\ rCounts'[r] = rCounts[r] /\ rInputs'[r] = rInputs[r]
             New(r) == /\ CountAfter(r) /\ rpc[r] = "count2" /\ ext' = rCounts[r].ext
                       /\ rCounts[r].epoch = epoch'
  <1>3. ASSUME NEW r \in Readers, Pinning(r)' PROVE Was(r) \/ New(r)
    <2>1. ASSUME rpc[r] = "epoch2", rCounts'[r] = rCounts[r], rInputs'[r] = rInputs[r]
          PROVE  Was(r)
      <3>1. rCounts[r].epoch <= epoch /\ rCounts[r].epoch = epoch'
        BY <1>1, <1>3, <2>1 DEF NothingAhead, Pinning
      <3> QED BY <1>2, <2>1, <3>1 DEF Pinning
    <2> QED BY <1>1, <1>3, <2>1, ReaderMoves DEF Pinning
  <1>4. ASSUME NEW r \in Readers, Pinning(r)', NEW p \in pins', p.counts = rCounts'[r]
        PROVE  p.inputs = rInputs'[r]
    <2>1. CASE New(r)
      BY <1>4, <2>1, NewPinning
    <2>2. CASE Was(r) /\ p \in pins
      BY <1>1, <1>4, <2>2 DEF PinningAgree
    <2>3. CASE Was(r) /\ p \notin pins
      <3>1. PICK q \in Readers : Pinning(q) /\ p.counts = rCounts[q] /\ p.inputs = rInputs[q]
        BY <1>4, <2>3, NewPin
      <3> QED BY <1>1, <1>4, <2>3, <3>1 DEF PinningAgree
    <2> QED BY <1>3, <1>4, <2>1, <2>2, <2>3
  <1>5. ASSUME NEW r \in Readers, Pinning(r)', NEW q \in Readers, Pinning(q)',
               rCounts'[q] = rCounts'[r]
        PROVE  rInputs'[q] = rInputs'[r]
    <2>1. CASE Was(r) /\ Was(q)
      BY <1>1, <1>5, <2>1 DEF PinningAgree
    <2>2. CASE New(r) /\ Was(q)
      BY <1>5, <2>2, NewPinning DEF Pinning
    <2>3. CASE Was(r) /\ New(q)
      BY <1>5, <2>3, NewPinning DEF Pinning
    <2>4. CASE New(r) /\ New(q)
      BY <2>4, NewPinning
    <2> QED BY <1>3, <1>5, <2>1, <2>2, <2>3, <2>4
  <1> QED BY <1>4, <1>5 DEF PinningAgree

-----------------------------------------------------------------------------
(* The theorems.                                                           *)

LEMMA Invariance == Spec => []Inv
  <1>1. Init => Inv
    BY InitCountInv, InitJobInv, InitPinInv DEF Inv
  <1>2. Inv /\ [Next]_vars => Inv'
    BY CountInvKept, JobsFreshKept, AppliedFreshKept, PinsCurrentKept, ReadersCurrentKept,
       PinsAgreeKept, PinningAgreeKept DEF Inv, JobInv, PinInv
  <1> QED BY <1>1, <1>2, PTL DEF Spec

\* Every variable of the counts, the transaction and their clients keeps its type.
THEOREM TypeCorrect == Spec => []TypeOK
  <1>1. Inv => TypeOK
    BY DEF Inv, CountInv
  <1> QED BY <1>1, Invariance, PTL

\* write_if_current never runs fn over inputs other than those the values were
\* computed from, or the job's own last chunk left.
THEOREM NothingStaleIsApplied == Spec => []NoStaleApply
  <1>1. Inv => NoStaleApply
    <2> SUFFICES ASSUME Inv, wpc = "running", write.job # NoJob
                 PROVE  jInputs[write.job] = inputs
      BY DEF NoStaleApply
    <2>1. write.job \in Jobs /\ foreign = dvSeen
      BY DEF Inv, CountInv, TypeOK, WriteFit
    <2> QED BY <2>1 DEF Inv, JobInv, AppliedFresh
  <1> QED BY <1>1, Invariance, PTL

\* Snapshots with the same pin hold the same inputs: the pair of counts is a
\* right cache key, although neither count alone is.
THEOREM EqualPinsEqualInputs == Spec => []PinsAgree
  <1>1. Inv => PinsAgree
    BY DEF Inv, PinInv
  <1> QED BY <1>1, Invariance, PTL
=============================================================================
