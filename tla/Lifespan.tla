------------------------------ MODULE Lifespan ------------------------------
(***************************************************************************)
(* A wxverify process from its open database to its end: the worker's two  *)
(* lanes and the pages on the pool of readers and the one writer, threads  *)
(* that cannot be cut, a cancel deferred until its thread has ended, the   *)
(* drain of the lanes, the shutdown reclaim, the stop budget with its      *)
(* grace, and the close of the connections only when none is in use.       *)
(*                                                                         *)
(* Sources: db/connection.py (read, _settle_reader, write, close_if_idle,  *)
(* interrupt_writer), core/aio.py, core/stop.py (wait_within_budget),      *)
(* worker/processor.py (run_worker and what it calls, the claims),         *)
(* worker/current_obs_poller.py (its loop), api/app.py (lifespan after     *)
(* init_db, _cancel_and_reap, _shutdown_database, _stop_on_worker_done).   *)
(*                                                                         *)
(* A client's coroutine and the thread that runs its statement are apart:  *)
(* `op` is where the coroutine waits, `threads` what is really running.    *)
(***************************************************************************)
EXTENDS Integers, FiniteSets

CONSTANTS
  Lanes,      \* the worker's lanes
  Pages,      \* handlers of page requests; they only read
  Reclaim,    \* the shutdown reclaim's task
  Conns,      \* the pooled readers
  Nobody,     \* no client, no connection
  MaxOps,     \* bound: reads and writes begun, in all
  MaxFailures \* bound: lanes that end on their own, statements and connections
              \* that fail, and deaths, together

ASSUME LifespanConstantsAssumption ==
  /\ Lanes \cap Pages = {} /\ Reclaim \notin Lanes \cup Pages
  /\ Nobody \notin Lanes \cup Pages \cup Conns \cup {Reclaim}
  /\ IsFiniteSet(Conns) /\ "writer" \notin Conns
  /\ MaxOps \in Nat /\ MaxFailures \in Nat

Clients == Lanes \cup Pages \cup {Reclaim}

VARIABLES
  op,        \* "idle", "rwait", "read", "wwait", "write" or "ended", per client
  on,        \* the reader that its read holds
  kind,      \* what its write does: "claim", "work", "finish" or "reclaim"
  cut,       \* a cancel has been requested of it
  threads,   \* executor threads: who started it, and its connection or "writer"
  reader,    \* a pooled reader: "clean", "dirty" (in a transaction), or "closed"
  pool,      \* the queue of the readers nobody holds
  lock,      \* the holder of _write_lock
  claimed,   \* the lanes whose job is `running` in the file
  worker,    \* run_worker: "up", "draining", "reclaiming", "ended", or "crashed"
  asked,     \* its own cancel has arrived
  life,      \* the lifespan: "up", "reaping", "closed", or the process "down"
  budget,    \* of the stop: "none", "within", "over", or "spent"
  unmended,  \* history: a reclaim's write failed or was left behind
  ops,       \* reads and writes so far
  failures   \* failures so far

lifeVars == <<op, on, kind, cut, threads, reader, pool, lock, claimed, worker, asked,
              life, budget, unmended, ops, failures>>
clientVars == <<op, on, kind, cut>>
dbVars == <<threads, reader, pool, lock, claimed>>
endVars == <<worker, asked, life, budget>>

Alive == life # "down"

Count == ops < MaxOps /\ ops' = ops + 1

Fails == failures < MaxFailures /\ failures' = failures + 1

Starts(k) == \E t \in threads : t.by = k

-----------------------------------------------------------------------------
(* A read.                                                                 *)

\* A closed reader, or one of a closed database, raises at once.
Thread(k, c) == IF reader[c] = "closed" THEN {} ELSE {[by |-> k, on |-> c]}

BeginRead(k) ==
  /\ Alive /\ k # Reclaim /\ op[k] = "idle" /\ ~cut[k]
  /\ Count
  /\ op' = [op EXCEPT ![k] = "rwait"]
  /\ UNCHANGED <<on, kind, cut, dbVars, endVars, unmended, failures>>

\* `_read_pool.get()`, and the thread.
TakeReader(k) ==
  /\ Alive /\ op[k] = "rwait" /\ ~cut[k]
  /\ \E c \in pool :
       /\ pool' = pool \ {c}
       /\ on' = [on EXCEPT ![k] = c]
       /\ threads' = threads \cup Thread(k, c)
  /\ op' = [op EXCEPT ![k] = "read"]
  /\ UNCHANGED <<kind, cut, reader, lock, claimed, endVars, unmended, ops, failures>>

\* The thread ends; a read that raised may leave its transaction open.
ReadThreadEnds ==
  /\ Alive
  /\ \E t \in threads :
       /\ t.on \in Conns
       /\ threads' = threads \ {t}
       /\ \/ UNCHANGED reader
          \/ reader' = [reader EXCEPT ![t.on] = "dirty"]
  /\ UNCHANGED <<clientVars, pool, lock, claimed, endVars, unmended, ops, failures>>

\* Mutant of Resumes: a cancel ends the wait for the thread.
ResumesCut(k) == cut[k] \/ ~Starts(k)

\* run_to_completion: the coroutine goes on once its thread has ended, however
\* many cancels arrive before.
Resumes(k) == ~Starts(k)

\* _settle_reader returns one connection, whatever state the reader is in.
Settled(c) == {c}

\* A cancel that waited is raised again now.
Return(k) == op' = [op EXCEPT ![k] = IF cut[k] /\ k \in Lanes THEN "ended" ELSE "idle"]

\* The end of `read`: a dirty reader is rolled back, or closed and replaced, or,
\* when the new one does not open, returned closed.
EndRead(k) ==
  /\ Alive /\ op[k] = "read" /\ Resumes(k)
  /\ LET c == on[k] IN
       /\ \/ reader[c] # "dirty" /\ UNCHANGED <<reader, failures>>
          \/ reader[c] = "dirty" /\ reader' = [reader EXCEPT ![c] = "clean"]
             /\ UNCHANGED failures
          \/ reader[c] = "dirty" /\ Fails
             /\ reader' = [reader EXCEPT ![c] = "closed"]
       /\ pool' = pool \cup Settled(c)
  /\ on' = [on EXCEPT ![k] = Nobody]
  /\ Return(k)
  /\ UNCHANGED <<kind, cut, threads, lock, claimed, endVars, unmended, ops>>

-----------------------------------------------------------------------------
(* A write.                                                                *)

\* What a lane writes next: without a job a claim, and none once STOP is set;
\* with one, its work, then its end.
NextWrites(k) ==
  CASE k = Reclaim              -> {"reclaim"}
    [] k \in Lanes \cap claimed -> {"work", "finish"}
    [] k \in Lanes              -> IF budget = "none" THEN {"claim"} ELSE {}
    [] OTHER                    -> {}

BeginWrite(k) ==
  /\ Alive /\ k \in Lanes /\ op[k] = "idle" /\ ~cut[k]
  /\ Count
  /\ op' = [op EXCEPT ![k] = "wwait"]
  /\ \E w \in NextWrites(k) : kind' = [kind EXCEPT ![k] = w]
  /\ UNCHANGED <<on, cut, dbVars, endVars, unmended, failures>>

\* The lock, and the thread; a closed writer raises at once.
TakeLock(k) ==
  /\ Alive /\ op[k] = "wwait" /\ ~cut[k] /\ lock = Nobody
  /\ lock' = k
  /\ op' = [op EXCEPT ![k] = "write"]
  /\ threads' = IF life = "closed" THEN threads
                ELSE threads \cup {[by |-> k, on |-> "writer"]}
  /\ UNCHANGED <<on, kind, cut, reader, pool, claimed, endVars, unmended, ops, failures>>

Committed(k) ==
  CASE kind[k] = "claim"   -> claimed \cup {k}
    [] kind[k] = "finish"  -> claimed \ {k}
    [] kind[k] = "reclaim" -> {}
    [] OTHER               -> claimed

\* The transaction commits, or rolls back with the statement that failed.
WriteThreadEnds ==
  /\ Alive
  /\ \E t \in threads :
       /\ t.on = "writer"
       /\ threads' = threads \ {t}
       /\ \/ claimed' = Committed(t.by) /\ UNCHANGED <<unmended, failures>>
          \/ /\ Fails
             /\ unmended' = (unmended \/ t.by = Reclaim)
             /\ UNCHANGED claimed
  /\ UNCHANGED <<clientVars, reader, pool, lock, endVars, ops>>

EndWrite(k) ==
  /\ Alive /\ op[k] = "write" /\ Resumes(k)
  /\ lock' = Nobody
  /\ IF k = Reclaim THEN op' = [op EXCEPT ![k] = "ended"] ELSE Return(k)
  /\ UNCHANGED <<on, kind, cut, threads, reader, pool, claimed, endVars, unmended, ops,
                 failures>>

-----------------------------------------------------------------------------
(* The end of a lane, and of the worker.                                   *)

\* A cancelled lane ends where it waits for anything but its thread.
LaneCut(k) ==
  /\ Alive /\ k \in Lanes /\ cut[k] /\ op[k] \in {"idle", "rwait", "wwait"}
  /\ op' = [op EXCEPT ![k] = "ended"]
  /\ UNCHANGED <<on, kind, cut, dbVars, endVars, unmended, ops, failures>>

LaneFails(k) ==
  /\ Alive /\ k \in Lanes /\ op[k] = "idle" /\ ~cut[k]
  /\ Fails
  /\ op' = [op EXCEPT ![k] = "ended"]
  /\ UNCHANGED <<on, kind, cut, dbVars, endVars, unmended, ops>>

\* run_worker: its own cancel, or a lane that has ended, and the cancel of both.
BeginDrain ==
  /\ Alive /\ worker = "up"
  /\ asked \/ \E k \in Lanes : op[k] = "ended"
  /\ worker' = "draining"
  /\ cut' = [k \in Clients |-> cut[k] \/ k \in Lanes]
  /\ UNCHANGED <<op, on, kind, dbVars, asked, life, budget, unmended, ops, failures>>

\* _cancel_and_drain waits for every lane.
Drained == \A k \in Lanes : op[k] = "ended"

\* Mutant of Spent: the wait has no limit.
SpentNever == FALSE

\* wait_within_budget returns with what it waits on still running.
Spent == budget = "spent"

\* The drain is over: with its cancel the worker runs one reclaim, and without,
\* its failure ends the process (os._exit), jobs `running` as they are.
EndDrain ==
  /\ Alive /\ worker = "draining"
  /\ Drained \/ Spent
  /\ IF asked
       THEN /\ worker' = "reclaiming"
            /\ op' = [op EXCEPT ![Reclaim] = "wwait"]
            /\ kind' = [kind EXCEPT ![Reclaim] = "reclaim"]
            /\ UNCHANGED life
       ELSE worker' = "crashed" /\ life' = "down" /\ UNCHANGED <<op, kind>>
  /\ UNCHANGED <<on, cut, dbVars, asked, budget, unmended, ops, failures>>

EndReclaim ==
  /\ Alive /\ worker = "reclaiming"
  /\ op[Reclaim] = "ended" \/ Spent
  /\ worker' = "ended"
  /\ unmended' = (unmended \/ op[Reclaim] # "ended")
  /\ UNCHANGED <<clientVars, dbVars, asked, life, budget, ops, failures>>

-----------------------------------------------------------------------------
(* The lifespan.                                                           *)

\* Its `finally`: request_stop, and _cancel_and_reap cancels the worker.
BeginReap ==
  /\ life = "up"
  /\ life' = "reaping" /\ budget' = "within" /\ asked' = TRUE
  /\ UNCHANGED <<clientVars, dbVars, worker, unmended, ops, failures>>

\* The budget runs out: the waits interrupt the writer, whose statement, if one
\* is running, fails; then the grace does.
BudgetRunsOut ==
  /\ Alive /\ budget = "within"
  /\ budget' = "over"
  /\ \/ UNCHANGED <<threads, unmended>>
     \/ \E t \in threads :
          /\ t.on = "writer"
          /\ threads' = threads \ {t}
          /\ unmended' = (unmended \/ t.by = Reclaim)
  /\ UNCHANGED <<clientVars, reader, pool, lock, claimed, worker, asked, life, ops, failures>>

GraceRunsOut ==
  /\ Alive /\ budget = "over"
  /\ budget' = "spent"
  /\ UNCHANGED <<clientVars, dbVars, worker, asked, life, unmended, ops, failures>>

\* close_if_idle: the lock is free and the pool is whole.
Idle == lock = Nobody /\ Cardinality(pool) = Cardinality(Conns)

\* The reap is over; the connections are closed, if none of them is in use.
EndReap ==
  /\ life = "reaping"
  /\ worker = "ended" \/ Spent
  /\ life' = "closed"
  /\ reader' = IF Idle THEN [c \in Conns |-> "closed"] ELSE reader
  /\ unmended' = (unmended \/ worker # "ended")
  /\ UNCHANGED <<clientVars, threads, pool, lock, claimed, worker, asked, budget, ops,
                 failures>>

\* The process dies, at any time, or has ended.
ProcessEnds ==
  /\ \/ life \in {"up", "reaping"} /\ Fails
     \/ life = "closed" /\ UNCHANGED failures
  /\ life' = "down"
  /\ UNCHANGED <<clientVars, dbVars, worker, asked, budget, unmended, ops>>

\* The next process: reset_stop, a fresh database object, and reclaim_all_stale
\* before its worker starts.
Boot ==
  /\ life = "down"
  /\ op' = [k \in Clients |-> "idle"] /\ on' = [k \in Clients |-> Nobody]
  /\ kind' = [k \in Clients |-> "work"] /\ cut' = [k \in Clients |-> FALSE]
  /\ threads' = {} /\ reader' = [c \in Conns |-> "clean"] /\ pool' = Conns
  /\ lock' = Nobody /\ claimed' = {}
  /\ worker' = "up" /\ asked' = FALSE /\ life' = "up" /\ budget' = "none"
  /\ unmended' = FALSE
  /\ UNCHANGED <<ops, failures>>

LifeInit ==
  /\ op = [k \in Clients |-> "idle"] /\ on = [k \in Clients |-> Nobody]
  /\ kind = [k \in Clients |-> "work"] /\ cut = [k \in Clients |-> FALSE]
  /\ threads = {} /\ reader = [c \in Conns |-> "clean"] /\ pool = Conns
  /\ lock = Nobody /\ claimed = {}
  /\ worker = "up" /\ asked = FALSE /\ life = "up" /\ budget = "none"
  /\ unmended = FALSE /\ ops = 0 /\ failures = 0

\* What needs no thread to end: the loop takes these steps by itself.
Ending ==
  \/ \E k \in Lanes : LaneCut(k)
  \/ BeginDrain \/ EndDrain \/ EndReclaim
  \/ BudgetRunsOut \/ GraceRunsOut \/ EndReap

LifeNext ==
  \/ \E k \in Clients : \/ BeginRead(k) \/ TakeReader(k) \/ EndRead(k)
                        \/ BeginWrite(k) \/ TakeLock(k) \/ EndWrite(k)
  \/ ReadThreadEnds \/ WriteThreadEnds
  \/ \E k \in Lanes : LaneFails(k)
  \/ BeginReap \/ Ending \/ ProcessEnds \/ Boot

LifeSpec == LifeInit /\ [][LifeNext]_lifeVars

-----------------------------------------------------------------------------
(* Properties.                                                             *)

LifespanTypeOK ==
  /\ op \in [Clients -> {"idle", "rwait", "read", "wwait", "write", "ended"}]
  /\ on \in [Clients -> Conns \cup {Nobody}]
  /\ kind \in [Clients -> {"claim", "work", "finish", "reclaim"}]
  /\ cut \in [Clients -> BOOLEAN]
  /\ threads \subseteq [by : Clients, on : Conns \cup {"writer"}]
  /\ reader \in [Conns -> {"clean", "dirty", "closed"}]
  /\ pool \subseteq Conns /\ lock \in Clients \cup {Nobody} /\ claimed \subseteq Lanes
  /\ worker \in {"up", "draining", "reclaiming", "ended", "crashed"}
  /\ life \in {"up", "reaping", "closed", "down"}
  /\ budget \in {"none", "within", "over", "spent"}
  /\ {asked, unmended} \subseteq BOOLEAN
  /\ ops \in 0..MaxOps /\ failures \in 0..MaxFailures

\* A connection is used by one thread at most, and none is closed under its
\* thread; a reader is in the pool or held by one read, never both or neither,
\* and in the pool it holds no snapshot, whatever is cancelled or fails.
\* connection.py:592-655, 820-865.
ConnectionsApart ==
  /\ \A s, t \in threads : s.on = t.on => s = t
  /\ \A t \in threads : t.on \in Conns => reader[t.on] # "closed" /\ t.on \notin pool
  /\ \A c \in Conns : /\ c \notin pool <=> \E k \in Clients : on[k] = c
                      /\ \A j, k \in Clients : on[j] = c /\ on[k] = c => j = k
                      /\ c \in pool => reader[c] # "dirty"

\* A stop within its budget leaves no job `running` behind: the reclaim comes
\* after every write of a lane, one already past its cancel included.
\* processor.py:102-200.
NothingStranded == life = "closed" /\ ~unmended /\ worker = "ended" => claimed = {}

\* A stop ends, though no thread ever does.  stop.py:120-160.
ShutdownEnds == life = "reaping" ~> life \in {"closed", "down"}

=============================================================================
