-------------------------- MODULE Programs_proofs --------------------------
(* Proofs of the safety properties of the three programs of MCPrograms, each  *)
(* for its own specification: wxverify's start, for any files that earlier    *)
(* releases leave and any number of stops, faults and edits; its process, for *)
(* any lanes, pages and readers; and py-ddns, for any addresses and bounds.   *)
EXTENDS DdnsUpdater, Startup, Lifespan, FiniteSetTheorems, TLAPS

-----------------------------------------------------------------------------
(* The process (Lifespan): the inductive invariant.                        *)

\* A client holds a reader while it reads, and no other client holds that one;
\* a reader is in the pool when nobody holds it.
HoldersFit ==
  /\ \A k \in Clients : on[k] \in Conns <=> op[k] = "read"
  /\ \A j, k \in Clients : on[j] \in Conns /\ on[j] = on[k] => j = k
  /\ \A c \in Conns : c \in pool <=> \A k \in Clients : on[k] # c

\* The lock is held by the one client that writes.
LockFits == \A k \in Clients : op[k] = "write" <=> lock = k

\* Only a lane claims.
KindsFit == \A k \in Clients : kind[k] = "claim" => k \in Lanes

\* A thread is its client's: it uses the reader or the lock that the client
\* still holds, whatever cancels have come.
ThreadsFit ==
  \A t \in threads :
    /\ t.on \in Conns => on[t.by] = t.on
    /\ t.on = "writer" => op[t.by] = "write"

\* No thread has a closed reader, and no reader in the pool has a snapshot.
ReadersFit ==
  /\ \A t \in threads : t.on \in Conns => reader[t.on] # "closed"
  /\ \A c \in pool : reader[c] # "dirty"

\* The reclaim's write waits for the drain of the lanes, which are cut by then.
ReclaimFits ==
  /\ op[Reclaim] \notin {"rwait", "read"}
  /\ op[Reclaim] # "idle" => worker \in {"reclaiming", "ended"}
                             /\ kind[Reclaim] = "reclaim"
  /\ worker # "up" => \A k \in Lanes : cut[k]

\* From the lock of the reclaim on no lane writes, and what it leaves is mended
\* or known not to be.
ReclaimMends ==
  /\ op[Reclaim] \in {"write", "ended"} =>
       /\ \A k \in Lanes : op[k] # "write"
       /\ ~unmended /\ ~Starts(Reclaim) => claimed = {}
  /\ worker = "ended" /\ ~unmended => op[Reclaim] = "ended"
  /\ life = "closed" /\ ~unmended => worker = "ended"

LifeInv ==
  /\ LifespanTypeOK
  /\ HoldersFit
  /\ LockFits
  /\ KindsFit
  /\ ThreadsFit
  /\ ReadersFit
  /\ ReclaimFits
  /\ ReclaimMends

\* What holds as the process starts.
LEMMA LifeInitInv == LifeInit => LifeInv
  <1> SUFFICES ASSUME LifeInit PROVE LifeInv
    OBVIOUS
  <1> USE LifespanConstantsAssumption DEF LifeInit, Clients
  <1>1. LifespanTypeOK
    <2>1. {asked, unmended} \subseteq BOOLEAN
      OBVIOUS
    <2>2. ops \in 0..MaxOps /\ failures \in 0..MaxFailures
      OBVIOUS
    <2> QED BY <2>1, <2>2 DEF LifespanTypeOK
  <1>2. HoldersFit /\ LockFits /\ KindsFit /\ ThreadsFit /\ ReadersFit
    BY DEF HoldersFit, LockFits, KindsFit, ThreadsFit, ReadersFit
  <1>3. ReclaimFits /\ ReclaimMends
    BY DEF ReclaimFits, ReclaimMends
  <1> QED BY <1>1, <1>2, <1>3 DEF LifeInv

\* Types.
LEMMA LifeTypeStep ==
  ASSUME LifeInv, [LifeNext]_lifeVars
  PROVE  LifespanTypeOK'
  <1> USE LifespanConstantsAssumption DEF LifeInv, LifespanTypeOK, Clients
  <1>1. ASSUME NEW k \in Clients, BeginRead(k) PROVE LifespanTypeOK'
    BY <1>1 DEF BeginRead, Count, clientVars, dbVars, endVars, LifespanTypeOK
  <1>2. ASSUME NEW k \in Clients, TakeReader(k) PROVE LifespanTypeOK'
    BY <1>2 DEF TakeReader, Thread, clientVars, dbVars, endVars, LifespanTypeOK
  <1>3. ASSUME NEW k \in Clients, EndRead(k) PROVE LifespanTypeOK'
    <2> USE DEF Clients
    <2>1. PICK c \in Conns : on[k] = c
      BY <1>3 DEF EndRead, HoldersFit
    <2>2. /\ reader' \in [Conns -> {"clean", "dirty", "closed"}]
          /\ failures' \in 0..MaxFailures
      BY <1>3, <2>1 DEF EndRead, Fails
    <2>3. op' \in [Clients -> {"idle", "rwait", "read", "wwait", "write", "ended"}]
      BY <1>3 DEF EndRead, Return
    <2>4. pool' \subseteq Conns /\ on' \in [Clients -> Conns \cup {Nobody}]
      BY <1>3, <2>1 DEF EndRead, Settled
    <2> QED BY <1>3, <2>2, <2>3, <2>4 DEF EndRead, endVars, LifespanTypeOK
  <1>4. ASSUME NEW k \in Clients, BeginWrite(k) PROVE LifespanTypeOK'
    BY <1>4 DEF BeginWrite, NextWrites, Count, clientVars, dbVars, endVars, LifespanTypeOK
  <1>5. ASSUME NEW k \in Clients, TakeLock(k) PROVE LifespanTypeOK'
    BY <1>5 DEF TakeLock, clientVars, dbVars, endVars, LifespanTypeOK
  <1>6. ASSUME NEW k \in Clients, EndWrite(k) PROVE LifespanTypeOK'
    BY <1>6
       DEF EndWrite, Resumes, Starts, Return, clientVars, dbVars, endVars, LifespanTypeOK
  <1>7. CASE ReadThreadEnds
    BY <1>7 DEF ReadThreadEnds, clientVars, dbVars, endVars, LifespanTypeOK
  <1>8. CASE WriteThreadEnds
    <2>1. PICK t \in threads : /\ t.on = "writer"
                              /\ threads' = threads \ {t}
                              /\ \/ claimed' = Committed(t.by) /\ UNCHANGED <<unmended, failures>>
                                 \/ /\ Fails
                                    /\ unmended' = (unmended \/ t.by = Reclaim)
                                    /\ UNCHANGED claimed
      BY <1>8 DEF WriteThreadEnds
    <2>2. claimed' \subseteq Lanes
      <3>1. t.by = Reclaim \/ t.by \in Lanes \/ t.by \in Pages
        BY DEF Clients
      <3>2. kind[t.by] = "claim" => t.by \in Lanes
        BY DEF KindsFit, Clients
      <3> QED BY <2>1, <3>1, <3>2 DEF Committed
    <2>3. unmended' \in BOOLEAN
      BY <2>1
    <2>4. failures' \in 0..MaxFailures
      BY <2>1 DEF Fails
    <2> QED BY <1>8, <2>1, <2>2, <2>3, <2>4
               DEF WriteThreadEnds, clientVars, endVars, LifespanTypeOK
  <1>9. ASSUME NEW k \in Lanes, LaneFails(k) PROVE LifespanTypeOK'
    BY <1>9 DEF LaneFails, Fails, clientVars, dbVars, endVars, LifespanTypeOK
  <1>10. ASSUME NEW k \in Lanes, LaneCut(k) PROVE LifespanTypeOK'
    BY <1>10 DEF LaneCut, clientVars, dbVars, endVars, LifespanTypeOK
  <1>11. CASE BeginReap
    BY <1>11 DEF BeginReap, clientVars, dbVars, endVars, LifespanTypeOK
  <1>12. CASE BeginDrain
    BY <1>12 DEF BeginDrain, clientVars, dbVars, endVars, LifespanTypeOK
  <1>13. CASE EndDrain
    BY <1>13 DEF EndDrain, clientVars, dbVars, endVars, LifespanTypeOK
  <1>14. CASE EndReclaim
    BY <1>14 DEF EndReclaim, clientVars, dbVars, endVars, LifespanTypeOK
  <1>15. CASE BudgetRunsOut
    BY <1>15 DEF BudgetRunsOut, clientVars, dbVars, endVars, LifespanTypeOK
  <1>16. CASE GraceRunsOut
    BY <1>16 DEF GraceRunsOut, clientVars, dbVars, endVars, LifespanTypeOK
  <1>17. CASE EndReap
    BY <1>17 DEF EndReap, clientVars, dbVars, endVars, LifespanTypeOK
  <1>18. CASE ProcessEnds
    BY <1>18 DEF ProcessEnds, Fails, clientVars, dbVars, endVars, LifespanTypeOK
  <1>19. CASE Boot
    BY <1>19 DEF Boot, clientVars, dbVars, endVars, LifespanTypeOK
  <1>20. CASE UNCHANGED lifeVars
    BY <1>20 DEF lifeVars, LifespanTypeOK
  <1> QED BY <1>1, <1>2, <1>3, <1>4, <1>5, <1>6, <1>7, <1>8, <1>9, <1>10, <1>11, <1>12,
             <1>13, <1>14, <1>15, <1>16, <1>17, <1>18, <1>19, <1>20
             DEF LifeNext, Ending

\* Readers are taken and returned one by one.
LEMMA HoldersStep ==
  ASSUME LifeInv, [LifeNext]_lifeVars
  PROVE  HoldersFit'
  <1> USE LifespanConstantsAssumption DEF LifeInv, LifespanTypeOK, HoldersFit
  <1>1. ASSUME NEW k \in Clients, BeginRead(k) PROVE HoldersFit'
    BY <1>1 DEF BeginRead, Count, clientVars, dbVars, endVars, HoldersFit
  <1>2. ASSUME NEW k \in Clients, TakeReader(k) PROVE HoldersFit'
    BY <1>2 DEF TakeReader, Thread, clientVars, dbVars, endVars, HoldersFit
  <1>3. ASSUME NEW k \in Clients, EndRead(k) PROVE HoldersFit'
    BY <1>3
       DEF EndRead, Resumes, Starts, Settled, Return, Fails, clientVars, dbVars, endVars,
           HoldersFit
  <1>4. ASSUME NEW k \in Clients, BeginWrite(k) PROVE HoldersFit'
    BY <1>4 DEF BeginWrite, NextWrites, Count, clientVars, dbVars, endVars, HoldersFit
  <1>5. ASSUME NEW k \in Clients, TakeLock(k) PROVE HoldersFit'
    BY <1>5 DEF TakeLock, clientVars, dbVars, endVars, HoldersFit
  <1>6. ASSUME NEW k \in Clients, EndWrite(k) PROVE HoldersFit'
    BY <1>6 DEF EndWrite, Resumes, Starts, Return, clientVars, dbVars, endVars, HoldersFit
  <1>7. CASE ReadThreadEnds
    BY <1>7 DEF ReadThreadEnds, clientVars, dbVars, endVars, HoldersFit
  <1>8. CASE WriteThreadEnds
    BY <1>8 DEF WriteThreadEnds, Committed, Fails, clientVars, dbVars, endVars, HoldersFit
  <1>9. ASSUME NEW k \in Lanes, LaneFails(k) PROVE HoldersFit'
    BY <1>9 DEF LaneFails, Fails, clientVars, dbVars, endVars, HoldersFit
  <1>10. ASSUME NEW k \in Lanes, LaneCut(k) PROVE HoldersFit'
    BY <1>10 DEF LaneCut, clientVars, dbVars, endVars, HoldersFit
  <1>11. CASE BeginReap
    BY <1>11 DEF BeginReap, clientVars, dbVars, endVars, HoldersFit
  <1>12. CASE BeginDrain
    BY <1>12 DEF BeginDrain, clientVars, dbVars, endVars, HoldersFit
  <1>13. CASE EndDrain
    BY <1>13 DEF EndDrain, clientVars, dbVars, endVars, HoldersFit, ReclaimFits, Clients
  <1>14. CASE EndReclaim
    BY <1>14 DEF EndReclaim, clientVars, dbVars, endVars, HoldersFit
  <1>15. CASE BudgetRunsOut
    BY <1>15 DEF BudgetRunsOut, clientVars, dbVars, endVars, HoldersFit
  <1>16. CASE GraceRunsOut
    BY <1>16 DEF GraceRunsOut, clientVars, dbVars, endVars, HoldersFit
  <1>17. CASE EndReap
    BY <1>17 DEF EndReap, clientVars, dbVars, endVars, HoldersFit
  <1>18. CASE ProcessEnds
    BY <1>18 DEF ProcessEnds, Fails, clientVars, dbVars, endVars, HoldersFit
  <1>19. CASE Boot
    BY <1>19 DEF Boot, clientVars, dbVars, endVars, HoldersFit
  <1>20. CASE UNCHANGED lifeVars
    BY <1>20 DEF lifeVars, HoldersFit
  <1> QED BY <1>1, <1>2, <1>3, <1>4, <1>5, <1>6, <1>7, <1>8, <1>9, <1>10, <1>11, <1>12,
             <1>13, <1>14, <1>15, <1>16, <1>17, <1>18, <1>19, <1>20
             DEF LifeNext, Ending

\* The lock is taken and released by the client that writes.
LEMMA LockStep ==
  ASSUME LifeInv, [LifeNext]_lifeVars
  PROVE  LockFits'
  <1> USE LifespanConstantsAssumption DEF LifeInv, LifespanTypeOK, LockFits, Clients
  <1>1. ASSUME NEW k \in Clients, BeginRead(k) PROVE LockFits'
    BY <1>1 DEF BeginRead, Count, clientVars, dbVars, endVars, LockFits
  <1>2. ASSUME NEW k \in Clients, TakeReader(k) PROVE LockFits'
    BY <1>2 DEF TakeReader, Thread, clientVars, dbVars, endVars, LockFits
  <1>3. ASSUME NEW k \in Clients, EndRead(k) PROVE LockFits'
    BY <1>3
       DEF EndRead, Resumes, Starts, Settled, Return, Fails, clientVars, dbVars, endVars,
           LockFits
  <1>4. ASSUME NEW k \in Clients, BeginWrite(k) PROVE LockFits'
    BY <1>4 DEF BeginWrite, NextWrites, Count, clientVars, dbVars, endVars, LockFits
  <1>5. ASSUME NEW k \in Clients, TakeLock(k) PROVE LockFits'
    BY <1>5 DEF TakeLock, clientVars, dbVars, endVars, LockFits
  <1>6. ASSUME NEW k \in Clients, EndWrite(k) PROVE LockFits'
    BY <1>6 DEF EndWrite, Resumes, Starts, Return, clientVars, dbVars, endVars, LockFits
  <1>7. CASE ReadThreadEnds
    BY <1>7 DEF ReadThreadEnds, clientVars, dbVars, endVars, LockFits
  <1>8. CASE WriteThreadEnds
    BY <1>8 DEF WriteThreadEnds, Committed, Fails, clientVars, dbVars, endVars, LockFits
  <1>9. ASSUME NEW k \in Lanes, LaneFails(k) PROVE LockFits'
    BY <1>9 DEF LaneFails, Fails, clientVars, dbVars, endVars, LockFits
  <1>10. ASSUME NEW k \in Lanes, LaneCut(k) PROVE LockFits'
    BY <1>10 DEF LaneCut, clientVars, dbVars, endVars, LockFits
  <1>11. CASE BeginReap
    BY <1>11 DEF BeginReap, clientVars, dbVars, endVars, LockFits
  <1>12. CASE BeginDrain
    BY <1>12 DEF BeginDrain, clientVars, dbVars, endVars, LockFits
  <1>13. CASE EndDrain
    BY <1>13 DEF EndDrain, clientVars, dbVars, endVars, LockFits, ReclaimFits, Clients
  <1>14. CASE EndReclaim
    BY <1>14 DEF EndReclaim, clientVars, dbVars, endVars, LockFits
  <1>15. CASE BudgetRunsOut
    BY <1>15 DEF BudgetRunsOut, clientVars, dbVars, endVars, LockFits
  <1>16. CASE GraceRunsOut
    BY <1>16 DEF GraceRunsOut, clientVars, dbVars, endVars, LockFits
  <1>17. CASE EndReap
    BY <1>17 DEF EndReap, clientVars, dbVars, endVars, LockFits
  <1>18. CASE ProcessEnds
    BY <1>18 DEF ProcessEnds, Fails, clientVars, dbVars, endVars, LockFits
  <1>19. CASE Boot
    BY <1>19 DEF Boot, clientVars, dbVars, endVars, LockFits
  <1>20. CASE UNCHANGED lifeVars
    BY <1>20 DEF lifeVars, LockFits
  <1> QED BY <1>1, <1>2, <1>3, <1>4, <1>5, <1>6, <1>7, <1>8, <1>9, <1>10, <1>11, <1>12,
             <1>13, <1>14, <1>15, <1>16, <1>17, <1>18, <1>19, <1>20
             DEF LifeNext, Ending

\* What a client is about to write fits it.
LEMMA KindsStep ==
  ASSUME LifeInv, [LifeNext]_lifeVars
  PROVE  KindsFit'
  <1> USE LifespanConstantsAssumption DEF LifeInv, LifespanTypeOK, KindsFit, Clients
  <1>1. ASSUME NEW k \in Clients, BeginRead(k) PROVE KindsFit'
    BY <1>1 DEF BeginRead, Count, clientVars, dbVars, endVars, KindsFit
  <1>2. ASSUME NEW k \in Clients, TakeReader(k) PROVE KindsFit'
    BY <1>2 DEF TakeReader, Thread, clientVars, dbVars, endVars, KindsFit
  <1>3. ASSUME NEW k \in Clients, EndRead(k) PROVE KindsFit'
    BY <1>3
       DEF EndRead, Resumes, Starts, Settled, Return, Fails, clientVars, dbVars, endVars,
           KindsFit
  <1>4. ASSUME NEW k \in Clients, BeginWrite(k) PROVE KindsFit'
    BY <1>4 DEF BeginWrite, NextWrites, Count, clientVars, dbVars, endVars, KindsFit
  <1>5. ASSUME NEW k \in Clients, TakeLock(k) PROVE KindsFit'
    BY <1>5 DEF TakeLock, clientVars, dbVars, endVars, KindsFit
  <1>6. ASSUME NEW k \in Clients, EndWrite(k) PROVE KindsFit'
    BY <1>6 DEF EndWrite, Resumes, Starts, Return, clientVars, dbVars, endVars, KindsFit
  <1>7. CASE ReadThreadEnds
    BY <1>7 DEF ReadThreadEnds, clientVars, dbVars, endVars, KindsFit
  <1>8. CASE WriteThreadEnds
    BY <1>8 DEF WriteThreadEnds, Committed, Fails, clientVars, dbVars, endVars, KindsFit
  <1>9. ASSUME NEW k \in Lanes, LaneFails(k) PROVE KindsFit'
    BY <1>9 DEF LaneFails, Fails, clientVars, dbVars, endVars, KindsFit
  <1>10. ASSUME NEW k \in Lanes, LaneCut(k) PROVE KindsFit'
    BY <1>10 DEF LaneCut, clientVars, dbVars, endVars, KindsFit
  <1>11. CASE BeginReap
    BY <1>11 DEF BeginReap, clientVars, dbVars, endVars, KindsFit
  <1>12. CASE BeginDrain
    BY <1>12 DEF BeginDrain, clientVars, dbVars, endVars, KindsFit
  <1>13. CASE EndDrain
    BY <1>13 DEF EndDrain, clientVars, dbVars, endVars, KindsFit
  <1>14. CASE EndReclaim
    BY <1>14 DEF EndReclaim, clientVars, dbVars, endVars, KindsFit
  <1>15. CASE BudgetRunsOut
    BY <1>15 DEF BudgetRunsOut, clientVars, dbVars, endVars, KindsFit
  <1>16. CASE GraceRunsOut
    BY <1>16 DEF GraceRunsOut, clientVars, dbVars, endVars, KindsFit
  <1>17. CASE EndReap
    BY <1>17 DEF EndReap, clientVars, dbVars, endVars, KindsFit
  <1>18. CASE ProcessEnds
    BY <1>18 DEF ProcessEnds, Fails, clientVars, dbVars, endVars, KindsFit
  <1>19. CASE Boot
    BY <1>19 DEF Boot, clientVars, dbVars, endVars, KindsFit
  <1>20. CASE UNCHANGED lifeVars
    BY <1>20 DEF lifeVars, KindsFit
  <1> QED BY <1>1, <1>2, <1>3, <1>4, <1>5, <1>6, <1>7, <1>8, <1>9, <1>10, <1>11, <1>12,
             <1>13, <1>14, <1>15, <1>16, <1>17, <1>18, <1>19, <1>20
             DEF LifeNext, Ending

\* A client goes on only after its thread.
LEMMA ThreadsStep ==
  ASSUME LifeInv, [LifeNext]_lifeVars
  PROVE  ThreadsFit'
  <1> USE LifespanConstantsAssumption DEF LifeInv, LifespanTypeOK, HoldersFit, ThreadsFit
  <1>1. ASSUME NEW k \in Clients, BeginRead(k) PROVE ThreadsFit'
    BY <1>1 DEF BeginRead, Count, clientVars, dbVars, endVars, ThreadsFit
  <1>2. ASSUME NEW k \in Clients, TakeReader(k) PROVE ThreadsFit'
    BY <1>2 DEF TakeReader, Thread, clientVars, dbVars, endVars, ThreadsFit
  <1>3. ASSUME NEW k \in Clients, EndRead(k) PROVE ThreadsFit'
    BY <1>3
       DEF EndRead, Resumes, Starts, Settled, Return, Fails, clientVars, dbVars, endVars,
           ThreadsFit
  <1>4. ASSUME NEW k \in Clients, BeginWrite(k) PROVE ThreadsFit'
    BY <1>4 DEF BeginWrite, NextWrites, Count, clientVars, dbVars, endVars, ThreadsFit
  <1>5. ASSUME NEW k \in Clients, TakeLock(k) PROVE ThreadsFit'
    BY <1>5 DEF TakeLock, clientVars, dbVars, endVars, ThreadsFit
  <1>6. ASSUME NEW k \in Clients, EndWrite(k) PROVE ThreadsFit'
    BY <1>6 DEF EndWrite, Resumes, Starts, Return, clientVars, dbVars, endVars, ThreadsFit
  <1>7. CASE ReadThreadEnds
    BY <1>7 DEF ReadThreadEnds, clientVars, dbVars, endVars, ThreadsFit
  <1>8. CASE WriteThreadEnds
    BY <1>8 DEF WriteThreadEnds, Committed, Fails, clientVars, dbVars, endVars, ThreadsFit
  <1>9. ASSUME NEW k \in Lanes, LaneFails(k) PROVE ThreadsFit'
    BY <1>9 DEF LaneFails, Fails, clientVars, dbVars, endVars, ThreadsFit
  <1>10. ASSUME NEW k \in Lanes, LaneCut(k) PROVE ThreadsFit'
    BY <1>10 DEF LaneCut, clientVars, dbVars, endVars, ThreadsFit
  <1>11. CASE BeginReap
    BY <1>11 DEF BeginReap, clientVars, dbVars, endVars, ThreadsFit
  <1>12. CASE BeginDrain
    BY <1>12 DEF BeginDrain, clientVars, dbVars, endVars, ThreadsFit
  <1>13. CASE EndDrain
    BY <1>13 DEF EndDrain, clientVars, dbVars, endVars, ThreadsFit, ReclaimFits, Clients
  <1>14. CASE EndReclaim
    BY <1>14 DEF EndReclaim, clientVars, dbVars, endVars, ThreadsFit
  <1>15. CASE BudgetRunsOut
    BY <1>15 DEF BudgetRunsOut, clientVars, dbVars, endVars, ThreadsFit
  <1>16. CASE GraceRunsOut
    BY <1>16 DEF GraceRunsOut, clientVars, dbVars, endVars, ThreadsFit
  <1>17. CASE EndReap
    BY <1>17 DEF EndReap, clientVars, dbVars, endVars, ThreadsFit
  <1>18. CASE ProcessEnds
    BY <1>18 DEF ProcessEnds, Fails, clientVars, dbVars, endVars, ThreadsFit
  <1>19. CASE Boot
    BY <1>19 DEF Boot, clientVars, dbVars, endVars, ThreadsFit
  <1>20. CASE UNCHANGED lifeVars
    BY <1>20 DEF lifeVars, ThreadsFit
  <1> QED BY <1>1, <1>2, <1>3, <1>4, <1>5, <1>6, <1>7, <1>8, <1>9, <1>10, <1>11, <1>12,
             <1>13, <1>14, <1>15, <1>16, <1>17, <1>18, <1>19, <1>20
             DEF LifeNext, Ending

\* A reader is closed, or returned, only without a thread.
LEMMA ReadersStep ==
  ASSUME LifeInv, [LifeNext]_lifeVars
  PROVE  ReadersFit'
  <1> USE LifespanConstantsAssumption DEF LifeInv, LifespanTypeOK, HoldersFit, ThreadsFit, ReadersFit
  <1>1. ASSUME NEW k \in Clients, BeginRead(k) PROVE ReadersFit'
    BY <1>1 DEF BeginRead, Count, clientVars, dbVars, endVars, ReadersFit
  <1>2. ASSUME NEW k \in Clients, TakeReader(k) PROVE ReadersFit'
    BY <1>2 DEF TakeReader, Thread, clientVars, dbVars, endVars, ReadersFit
  <1>3. ASSUME NEW k \in Clients, EndRead(k) PROVE ReadersFit'
    BY <1>3
       DEF EndRead, Resumes, Starts, Settled, Return, Fails, clientVars, dbVars, endVars,
           ReadersFit
  <1>4. ASSUME NEW k \in Clients, BeginWrite(k) PROVE ReadersFit'
    BY <1>4 DEF BeginWrite, NextWrites, Count, clientVars, dbVars, endVars, ReadersFit
  <1>5. ASSUME NEW k \in Clients, TakeLock(k) PROVE ReadersFit'
    BY <1>5 DEF TakeLock, clientVars, dbVars, endVars, ReadersFit
  <1>6. ASSUME NEW k \in Clients, EndWrite(k) PROVE ReadersFit'
    BY <1>6 DEF EndWrite, Resumes, Starts, Return, clientVars, dbVars, endVars, ReadersFit
  <1>7. CASE ReadThreadEnds
    BY <1>7 DEF ReadThreadEnds, clientVars, dbVars, endVars, ReadersFit
  <1>8. CASE WriteThreadEnds
    BY <1>8 DEF WriteThreadEnds, Committed, Fails, clientVars, dbVars, endVars, ReadersFit
  <1>9. ASSUME NEW k \in Lanes, LaneFails(k) PROVE ReadersFit'
    BY <1>9 DEF LaneFails, Fails, clientVars, dbVars, endVars, ReadersFit
  <1>10. ASSUME NEW k \in Lanes, LaneCut(k) PROVE ReadersFit'
    BY <1>10 DEF LaneCut, clientVars, dbVars, endVars, ReadersFit
  <1>11. CASE BeginReap
    BY <1>11 DEF BeginReap, clientVars, dbVars, endVars, ReadersFit
  <1>12. CASE BeginDrain
    BY <1>12 DEF BeginDrain, clientVars, dbVars, endVars, ReadersFit
  <1>13. CASE EndDrain
    BY <1>13 DEF EndDrain, clientVars, dbVars, endVars, ReadersFit
  <1>14. CASE EndReclaim
    BY <1>14 DEF EndReclaim, clientVars, dbVars, endVars, ReadersFit
  <1>15. CASE BudgetRunsOut
    BY <1>15 DEF BudgetRunsOut, clientVars, dbVars, endVars, ReadersFit
  <1>16. CASE GraceRunsOut
    BY <1>16 DEF GraceRunsOut, clientVars, dbVars, endVars, ReadersFit
  <1>17. CASE EndReap
    <2>1. CASE Idle
      <3>1. pool = Conns
        BY <2>1, FS_Subset DEF Idle
      <3>2. threads' = threads /\ pool' = pool /\ \A c \in Conns : reader'[c] = "closed"
        BY <1>17, <2>1 DEF EndReap
      <3>3. \A t \in threads : t.on \notin Conns
        BY <3>1
      <3> QED BY <3>1, <3>2, <3>3 DEF ReadersFit
    <2>2. CASE ~Idle
      BY <1>17, <2>2 DEF EndReap
    <2> QED BY <2>1, <2>2
  <1>18. CASE ProcessEnds
    BY <1>18 DEF ProcessEnds, Fails, clientVars, dbVars, endVars, ReadersFit
  <1>19. CASE Boot
    BY <1>19 DEF Boot, clientVars, dbVars, endVars, ReadersFit
  <1>20. CASE UNCHANGED lifeVars
    BY <1>20 DEF lifeVars, ReadersFit
  <1> QED BY <1>1, <1>2, <1>3, <1>4, <1>5, <1>6, <1>7, <1>8, <1>9, <1>10, <1>11, <1>12,
             <1>13, <1>14, <1>15, <1>16, <1>17, <1>18, <1>19, <1>20
             DEF LifeNext, Ending

\* The reclaim starts after the drain.
LEMMA ReclaimStep ==
  ASSUME LifeInv, [LifeNext]_lifeVars
  PROVE  ReclaimFits'
  <1> USE LifespanConstantsAssumption DEF LifeInv, LifespanTypeOK, ReclaimFits, Clients
  <1>1. ASSUME NEW k \in Clients, BeginRead(k) PROVE ReclaimFits'
    BY <1>1 DEF BeginRead, Count, clientVars, dbVars, endVars, ReclaimFits
  <1>2. ASSUME NEW k \in Clients, TakeReader(k) PROVE ReclaimFits'
    BY <1>2 DEF TakeReader, Thread, clientVars, dbVars, endVars, ReclaimFits
  <1>3. ASSUME NEW k \in Clients, EndRead(k) PROVE ReclaimFits'
    BY <1>3
       DEF EndRead, Resumes, Starts, Settled, Return, Fails, clientVars, dbVars, endVars,
           ReclaimFits
  <1>4. ASSUME NEW k \in Clients, BeginWrite(k) PROVE ReclaimFits'
    BY <1>4 DEF BeginWrite, NextWrites, Count, clientVars, dbVars, endVars, ReclaimFits
  <1>5. ASSUME NEW k \in Clients, TakeLock(k) PROVE ReclaimFits'
    BY <1>5 DEF TakeLock, clientVars, dbVars, endVars, ReclaimFits
  <1>6. ASSUME NEW k \in Clients, EndWrite(k) PROVE ReclaimFits'
    BY <1>6 DEF EndWrite, Resumes, Starts, Return, clientVars, dbVars, endVars, ReclaimFits
  <1>7. CASE ReadThreadEnds
    BY <1>7 DEF ReadThreadEnds, clientVars, dbVars, endVars, ReclaimFits
  <1>8. CASE WriteThreadEnds
    BY <1>8 DEF WriteThreadEnds, Committed, Fails, clientVars, dbVars, endVars, ReclaimFits
  <1>9. ASSUME NEW k \in Lanes, LaneFails(k) PROVE ReclaimFits'
    BY <1>9 DEF LaneFails, Fails, clientVars, dbVars, endVars, ReclaimFits
  <1>10. ASSUME NEW k \in Lanes, LaneCut(k) PROVE ReclaimFits'
    BY <1>10 DEF LaneCut, clientVars, dbVars, endVars, ReclaimFits
  <1>11. CASE BeginReap
    BY <1>11 DEF BeginReap, clientVars, dbVars, endVars, ReclaimFits
  <1>12. CASE BeginDrain
    BY <1>12 DEF BeginDrain, clientVars, dbVars, endVars, ReclaimFits
  <1>13. CASE EndDrain
    BY <1>13 DEF EndDrain, clientVars, dbVars, endVars, ReclaimFits
  <1>14. CASE EndReclaim
    BY <1>14 DEF EndReclaim, clientVars, dbVars, endVars, ReclaimFits
  <1>15. CASE BudgetRunsOut
    BY <1>15 DEF BudgetRunsOut, clientVars, dbVars, endVars, ReclaimFits
  <1>16. CASE GraceRunsOut
    BY <1>16 DEF GraceRunsOut, clientVars, dbVars, endVars, ReclaimFits
  <1>17. CASE EndReap
    BY <1>17 DEF EndReap, clientVars, dbVars, endVars, ReclaimFits
  <1>18. CASE ProcessEnds
    BY <1>18 DEF ProcessEnds, Fails, clientVars, dbVars, endVars, ReclaimFits
  <1>19. CASE Boot
    BY <1>19 DEF Boot, clientVars, dbVars, endVars, ReclaimFits
  <1>20. CASE UNCHANGED lifeVars
    BY <1>20 DEF lifeVars, ReclaimFits
  <1> QED BY <1>1, <1>2, <1>3, <1>4, <1>5, <1>6, <1>7, <1>8, <1>9, <1>10, <1>11, <1>12,
             <1>13, <1>14, <1>15, <1>16, <1>17, <1>18, <1>19, <1>20
             DEF LifeNext, Ending

\* The reclaim's write is the last of all.
LEMMA MendStep ==
  ASSUME LifeInv, [LifeNext]_lifeVars
  PROVE  ReclaimMends'
  <1> USE LifespanConstantsAssumption DEF LifeInv, LifespanTypeOK, HoldersFit, LockFits, ThreadsFit, ReclaimFits, ReclaimMends, Clients, Starts
  <1>1. ASSUME NEW k \in Clients, BeginRead(k) PROVE ReclaimMends'
    BY <1>1 DEF BeginRead, Count, clientVars, dbVars, endVars, ReclaimMends
  <1>2. ASSUME NEW k \in Clients, TakeReader(k) PROVE ReclaimMends'
    BY <1>2 DEF TakeReader, Thread, clientVars, dbVars, endVars, ReclaimMends
  <1>3. ASSUME NEW k \in Clients, EndRead(k) PROVE ReclaimMends'
    BY <1>3
       DEF EndRead, Resumes, Starts, Settled, Return, Fails, clientVars, dbVars, endVars,
           ReclaimMends
  <1>4. ASSUME NEW k \in Clients, BeginWrite(k) PROVE ReclaimMends'
    BY <1>4 DEF BeginWrite, NextWrites, Count, clientVars, dbVars, endVars, ReclaimMends
  <1>5. ASSUME NEW k \in Clients, TakeLock(k) PROVE ReclaimMends'
    <2>1. CASE k = Reclaim
      <3>1. \A j \in Lanes : op[j] # "write"
        BY <1>5 DEF TakeLock
      <3>2. op[Reclaim] = "wwait" /\ op' = [op EXCEPT ![Reclaim] = "write"]
        BY <1>5, <2>1 DEF TakeLock
      <3>3. life # "closed" => \E t \in threads' : t.by = Reclaim
        <4>1. life # "closed" => [by |-> Reclaim, on |-> "writer"] \in threads'
          BY <1>5, <2>1 DEF TakeLock
        <4> QED BY <4>1
      <3>4. life = "closed" => unmended
        BY <3>2
      <3> QED BY <1>5, <3>1, <3>2, <3>3, <3>4 DEF TakeLock, endVars
    <2>2. CASE k \in Pages
      <3>1. /\ \A j \in Lanes \cup {Reclaim} : op'[j] = op[j]
            /\ Starts(Reclaim) => Starts(Reclaim)'
        BY <1>5, <2>2 DEF TakeLock
      <3> QED BY <1>5, <2>2, <3>1 DEF TakeLock, endVars
    <2>3. CASE k \in Lanes
      <3>1. worker = "up"
        BY <1>5, <2>3 DEF TakeLock
      <3>2. op[Reclaim] = "idle"
        BY <3>1
      <3> QED BY <1>5, <2>3, <3>1, <3>2 DEF TakeLock, endVars
    <2> QED BY <2>1, <2>2, <2>3
  <1>6. ASSUME NEW k \in Clients, EndWrite(k) PROVE ReclaimMends'
    BY <1>6 DEF EndWrite, Resumes, Starts, Return, clientVars, dbVars, endVars, ReclaimMends
  <1>7. CASE ReadThreadEnds
    BY <1>7 DEF ReadThreadEnds, clientVars, dbVars, endVars, ReclaimMends
  <1>8. CASE WriteThreadEnds
    <2>1. PICK t \in threads : /\ t.on = "writer"
                              /\ threads' = threads \ {t}
                              /\ \/ claimed' = Committed(t.by) /\ UNCHANGED unmended
                                 \/ /\ unmended' = (unmended \/ t.by = Reclaim)
                                    /\ UNCHANGED claimed
      BY <1>8 DEF WriteThreadEnds
    <2>2. UNCHANGED <<op, worker, life>> /\ op[t.by] = "write" /\ t.by \in Clients
      BY <1>8, <2>1 DEF WriteThreadEnds, clientVars, endVars
    <2>3. unmended => unmended'
      BY <2>1
    <2>4. ASSUME op[Reclaim] \in {"write", "ended"}, ~unmended', ~Starts(Reclaim)'
          PROVE  claimed' = {}
      <3>1. CASE t.by = Reclaim
        BY <2>1, <2>2, <2>4, <3>1 DEF Committed
      <3>2. CASE t.by # Reclaim
        <4>1. ~Starts(Reclaim) /\ claimed = {}
          BY <2>1, <2>3, <2>4, <3>2
        <4>2. t.by \notin Lanes
          BY <2>2, <2>4
        <4> QED BY <2>1, <4>1, <4>2 DEF Committed, KindsFit
      <3> QED BY <3>1, <3>2
    <2> QED BY <2>2, <2>3, <2>4
  <1>9. ASSUME NEW k \in Lanes, LaneFails(k) PROVE ReclaimMends'
    BY <1>9 DEF LaneFails, Fails, clientVars, dbVars, endVars, ReclaimMends
  <1>10. ASSUME NEW k \in Lanes, LaneCut(k) PROVE ReclaimMends'
    BY <1>10 DEF LaneCut, clientVars, dbVars, endVars, ReclaimMends
  <1>11. CASE BeginReap
    BY <1>11 DEF BeginReap, clientVars, dbVars, endVars, ReclaimMends
  <1>12. CASE BeginDrain
    BY <1>12 DEF BeginDrain, clientVars, dbVars, endVars, ReclaimMends
  <1>13. CASE EndDrain
    BY <1>13 DEF EndDrain, clientVars, dbVars, endVars, ReclaimMends
  <1>14. CASE EndReclaim
    BY <1>14 DEF EndReclaim, clientVars, dbVars, endVars, ReclaimMends
  <1>15. CASE BudgetRunsOut
    BY <1>15 DEF BudgetRunsOut, clientVars, dbVars, endVars, ReclaimMends
  <1>16. CASE GraceRunsOut
    BY <1>16 DEF GraceRunsOut, clientVars, dbVars, endVars, ReclaimMends
  <1>17. CASE EndReap
    BY <1>17 DEF EndReap, clientVars, dbVars, endVars, ReclaimMends
  <1>18. CASE ProcessEnds
    BY <1>18 DEF ProcessEnds, Fails, clientVars, dbVars, endVars, ReclaimMends
  <1>19. CASE Boot
    BY <1>19 DEF Boot, clientVars, dbVars, endVars, ReclaimMends
  <1>20. CASE UNCHANGED lifeVars
    BY <1>20 DEF lifeVars, ReclaimMends
  <1> QED BY <1>1, <1>2, <1>3, <1>4, <1>5, <1>6, <1>7, <1>8, <1>9, <1>10, <1>11, <1>12,
             <1>13, <1>14, <1>15, <1>16, <1>17, <1>18, <1>19, <1>20
             DEF LifeNext, Ending

LEMMA LifeInvStep == LifeInv /\ [LifeNext]_lifeVars => LifeInv'
  BY LifeTypeStep, HoldersStep, LockStep, KindsStep, ThreadsStep, ReadersStep,
     ReclaimStep, MendStep
     DEF LifeInv

\* Every variable of the process keeps its type.
THEOREM LifespanTypeCorrect == LifeSpec => []LifespanTypeOK
  <1>1. LifeInv => LifespanTypeOK
    BY DEF LifeInv
  <1> QED BY LifeInitInv, LifeInvStep, <1>1, PTL DEF LifeSpec

\* No two threads share a connection, none loses its own under it, and every
\* reader is either in the pool, without a snapshot, or one client's
\* (connection.py: read, _settle_reader, close_if_idle).
THEOREM ConnectionsStayApart == LifeSpec => []ConnectionsApart
  <1>1. LifeInv => ConnectionsApart
    <2> SUFFICES ASSUME LifeInv PROVE ConnectionsApart
      OBVIOUS
    <2> USE LifespanConstantsAssumption DEF LifeInv, LifespanTypeOK
    <2>1. \A t \in threads : t.by \in Clients /\ t.on \in Conns \cup {"writer"}
                             /\ t = [by |-> t.by, on |-> t.on]
      OBVIOUS
    <2>2. \A s, t \in threads : s.on = t.on => s.by = t.by
      BY <2>1 DEF HoldersFit, ThreadsFit, LockFits
    <2>3. \A s, t \in threads : s.on = t.on => s = t
      BY <2>1, <2>2
    <2>4. \A t \in threads : t.on \in Conns => reader[t.on] # "closed" /\ t.on \notin pool
      BY <2>1 DEF HoldersFit, ThreadsFit, ReadersFit
    <2>5. \A c \in Conns : c \notin pool <=> \E k \in Clients : on[k] = c
      BY DEF HoldersFit
    <2>6. \A c \in Conns : /\ \A j, k \in Clients : on[j] = c /\ on[k] = c => j = k
                           /\ c \in pool => reader[c] # "dirty"
      BY DEF HoldersFit, ReadersFit
    <2> QED BY <2>3, <2>4, <2>5, <2>6 DEF ConnectionsApart
  <1> QED BY LifeInitInv, LifeInvStep, <1>1, PTL DEF LifeSpec

\* A stop within its budget leaves no job `running`: the reclaim's write comes
\* after every write of a lane (processor.py: run_worker, _shutdown_reclaim).
THEOREM NothingIsStranded == LifeSpec => []NothingStranded
  <1>1. LifeInv => NothingStranded
    <2> SUFFICES ASSUME LifeInv, life = "closed", ~unmended, worker = "ended"
                 PROVE  claimed = {}
      BY DEF NothingStranded
    <2>1. op[Reclaim] = "ended"
      BY DEF LifeInv, ReclaimMends
    <2>2. ~Starts(Reclaim)
      BY <2>1 DEF LifeInv, ThreadsFit, HoldersFit, LifespanTypeOK, Starts, Clients
    <2> QED BY <2>1, <2>2 DEF LifeInv, ReclaimMends
  <1> QED BY LifeInitInv, LifeInvStep, <1>1, PTL DEF LifeSpec

-----------------------------------------------------------------------------
(* The start (Startup): the script's places.                               *)

Steps == Range(Script)

LEMMA ScriptSteps ==
  /\ Len(Script) = 40 /\ DOMAIN Script = 1..40
  /\ \A i, j \in 1..40 : Script[i] = Script[j] => i = j
  BY SMTT(60) DEF Script

LEMMA PlaceIs == \A i \in 1..40 : Place(Script[i]) = i
  BY ScriptSteps DEF Place

LEMMA PlaceFits == \A s \in Steps : Place(s) \in 1..40 /\ Script[Place(s)] = s
  BY ScriptSteps, PlaceIs DEF Steps, Range

LEMMA AfterFits ==
  \A s \in Steps : Place(s) < 40 => After(s) \in Steps /\ Place(After(s)) = Place(s) + 1
  BY ScriptSteps, PlaceIs, PlaceFits DEF Steps, Range, After

LEMMA BetweenFits ==
  ASSUME NEW s \in Steps, NEW t \in Steps, NEW u
  PROVE  u \in Between(s, t) <=> u \in Steps /\ Place(s) <= Place(u) /\ Place(u) <= Place(t)
  BY ScriptSteps, PlaceIs, PlaceFits DEF Steps, Range, Between

\* The place of every statement.
LEMMA Places ==
  \A s \in Steps :
    /\ s = "set_handler" <=> Place(s) = 1
    /\ s = "register" <=> Place(s) = 2
    /\ s = "read_version" <=> Place(s) = 3
    /\ s = "create_tables" <=> Place(s) = 4
    /\ s = "v17_begin" <=> Place(s) = 5
    /\ s = "v17_date_map" <=> Place(s) = 6
    /\ s = "v17_convert" <=> Place(s) = 7
    /\ s = "v17_copy" <=> Place(s) = 8
    /\ s = "v17_delete" <=> Place(s) = 9
    /\ s = "v17_drop" <=> Place(s) = 10
    /\ s = "v17_release" <=> Place(s) = 11
    /\ s = "drop_record" <=> Place(s) = 12
    /\ s = "create_indexes" <=> Place(s) = 13
    /\ s = "google_horizon" <=> Place(s) = 14
    /\ s = "google_horizon_key" <=> Place(s) = 15
    /\ s = "open_meteo_horizon" <=> Place(s) = 16
    /\ s = "open_meteo_horizon_key" <=> Place(s) = 17
    /\ s = "open_meteo_interval" <=> Place(s) = 18
    /\ s = "open_meteo_interval_key" <=> Place(s) = 19
    /\ s = "pause_member" <=> Place(s) = 20
    /\ s = "member_key" <=> Place(s) = 21
    /\ s = "seed" <=> Place(s) = 22
    /\ s = "boundary" <=> Place(s) = 23
    /\ s = "daily_close_on" <=> Place(s) = 24
    /\ s = "download_record_since" <=> Place(s) = 25
    /\ s = "storage_compacted" <=> Place(s) = 26
    /\ s = "version" <=> Place(s) = 27
    /\ s = "unregister" <=> Place(s) = 28
    /\ s = "clear_handler" <=> Place(s) = 29
    /\ s = "sanitize" <=> Place(s) = 30
    /\ s = "set_handler_again" <=> Place(s) = 31
    /\ s = "register_again" <=> Place(s) = 32
    /\ s = "measure" <=> Place(s) = 33
    /\ s = "checkpoint_before" <=> Place(s) = 34
    /\ s = "vacuum" <=> Place(s) = 35
    /\ s = "checkpoint_after" <=> Place(s) = 36
    /\ s = "marker" <=> Place(s) = 37
    /\ s = "unregister_again" <=> Place(s) = 38
    /\ s = "clear_handler_again" <=> Place(s) = 39
    /\ s = "open_readers" <=> Place(s) = 40
  <1>1. /\ Script[1] = "set_handler"
        /\ Script[2] = "register"
        /\ Script[3] = "read_version"
        /\ Script[4] = "create_tables"
        /\ Script[5] = "v17_begin"
        /\ Script[6] = "v17_date_map"
        /\ Script[7] = "v17_convert"
        /\ Script[8] = "v17_copy"
        /\ Script[9] = "v17_delete"
        /\ Script[10] = "v17_drop"
        /\ Script[11] = "v17_release"
        /\ Script[12] = "drop_record"
        /\ Script[13] = "create_indexes"
        /\ Script[14] = "google_horizon"
        /\ Script[15] = "google_horizon_key"
        /\ Script[16] = "open_meteo_horizon"
        /\ Script[17] = "open_meteo_horizon_key"
        /\ Script[18] = "open_meteo_interval"
        /\ Script[19] = "open_meteo_interval_key"
        /\ Script[20] = "pause_member"
        /\ Script[21] = "member_key"
        /\ Script[22] = "seed"
        /\ Script[23] = "boundary"
        /\ Script[24] = "daily_close_on"
        /\ Script[25] = "download_record_since"
        /\ Script[26] = "storage_compacted"
        /\ Script[27] = "version"
        /\ Script[28] = "unregister"
        /\ Script[29] = "clear_handler"
        /\ Script[30] = "sanitize"
        /\ Script[31] = "set_handler_again"
        /\ Script[32] = "register_again"
        /\ Script[33] = "measure"
        /\ Script[34] = "checkpoint_before"
        /\ Script[35] = "vacuum"
        /\ Script[36] = "checkpoint_after"
        /\ Script[37] = "marker"
        /\ Script[38] = "unregister_again"
        /\ Script[39] = "clear_handler_again"
        /\ Script[40] = "open_readers"
    BY DEF Script
  <1>2. \A s \in Steps, i \in 1..40 : s = Script[i] <=> Place(s) = i
    BY PlaceIs, PlaceFits
  <1> QED BY <1>1, <1>2

LEMMA NamedSteps ==
  {"set_handler", "v17_date_map", "v17_release", "read_version", "version", "measure",
   "marker", "unregister_again"} \subseteq Steps
  <1>1. /\ Script[1] = "set_handler" /\ Script[6] = "v17_date_map"
        /\ Script[11] = "v17_release" /\ Script[3] = "read_version"
        /\ Script[27] = "version" /\ Script[33] = "measure" /\ Script[37] = "marker"
        /\ Script[38] = "unregister_again"
    BY DEF Script
  <1> QED BY <1>1, ScriptSteps DEF Steps, Range

\* What the places say of the groups of statements.
LEMMA GroupsFit ==
  ASSUME NEW s \in Steps
  PROVE  /\ s \in Upgrade <=> Place(s) \in 6..11
         /\ s \in Compaction <=> Place(s) \in 33..37
         /\ s \in Bookkeeping <=> Place(s) \in {1, 2, 28, 29, 31, 32, 38, 39, 40}
         /\ s \in FreshKeys <=> Place(s) \in {24, 25, 26}
  <1>1. /\ Place("v17_date_map") = 6 /\ Place("v17_release") = 11
        /\ Place("read_version") = 3 /\ Place("version") = 27
        /\ Place("measure") = 33 /\ Place("marker") = 37
    BY NamedSteps, Places
  <1>2. /\ s \in Upgrade <=> Place(s) \in 6..11
        /\ s \in Compaction <=> Place(s) \in 33..37
        /\ s \in Migrations <=> Place(s) \in 3..27
    BY <1>1, NamedSteps, BetweenFits, PlaceFits DEF Upgrade, Compaction, Migrations
  <1>3. s = "sanitize" <=> Place(s) = 30
    BY Places
  <1>4. s \in Bookkeeping <=> Place(s) \in {1, 2, 28, 29, 31, 32, 38, 39, 40}
    BY <1>2, <1>3, PlaceFits DEF Bookkeeping, Steps
  <1>5. s \in FreshKeys <=> Place(s) \in {24, 25, 26}
    BY Places DEF FreshKeys
  <1> QED BY <1>2, <1>4, <1>5

-----------------------------------------------------------------------------
(* The start: the inductive invariant.                                     *)

\* What the start has reached, by place in the script: read_version is 3, the
\* upgrade 6 to 11, drop_record 12, the fetch interval's key 19, member_key 21,
\* seed 22 and version 27.
Past(p) == proc = "opening" /\ p < Place(at)

Runs == stmt # "idle"

Edited == "open_meteo_interval"

\* A statement runs in an opening process, and one of the upgrade in its
\* savepoint.
StatementFits ==
  /\ proc # "opening" => ~saving /\ ~Runs
  /\ saving => Place(at) \in 6..11
  /\ Runs => /\ at \notin Bookkeeping
             /\ Place(at) \in 6..11 => saving
             /\ at = "v17_begin" => current = 16

\* A file that is refused is as it was found; any other has the version that
\* run_migrations read until the last statement but one has written it.
VersionFits ==
  /\ Refused(file) => file = origin /\ proc # "serving" /\ ~Past(3)
  /\ proc = "refused" => file = origin
  /\ Past(3) /\ ~Past(27) => current = file.version
  /\ Past(27) \/ proc = "serving" => file.version = 17

\* What the file's version and the place say of the old tables.
TablesFit ==
  /\ file.version \in {0, 17} => ~file.tables /\ ~file.record
  /\ file.version = 16 /\ file.tables => file.history = {}
  /\ ~Refused(file) /\ ~file.tables => file.old = {} /\ ~file.removed
  /\ Past(5) /\ ~saving => ~file.tables
  /\ Past(12) => ~file.record

\* Every forecast of the first file is in the old tables or in the history.
RowsFit ==
  /\ file.old \cap file.history = {}
  /\ file.old \cup file.history = origin.old \cup origin.history

\* The connection sees the file, or inside the savepoint what its place says.
WorkFits ==
  /\ ~saving => work = file
  /\ saving =>
       /\ file.tables /\ file.version = 16 /\ work.version = 16
       /\ work.keys = file.keys /\ work.member = file.member /\ work.value = file.value
       /\ work.old = IF Past(10) THEN {} ELSE file.old
       /\ work.tables <=> ~Past(10)
       /\ Past(9) => ~work.removed
       /\ work.history = file.old \cap ((IF Past(7) THEN {"pre_close"} ELSE {}) \cup
                                        (IF Past(8) THEN {"closed"} ELSE {}))

\* The keys of what a finished start has left to the operator are written.
ChoiceFits ==
  /\ "interval" \in settled => Edited \in file.keys /\ file.value[Edited] # "none"
  /\ "member" \in settled => "member_drop" \in file.keys
  /\ Past(19) => Edited \in file.keys
  /\ Past(21) => file.member = "absent" \/ "member_drop" \in file.keys
  /\ Past(22) => file.value[Edited] # "none"

StartupInv ==
  /\ StartupTypeOK
  /\ StatementFits
  /\ VersionFits
  /\ TablesFit
  /\ RowsFit
  /\ WorkFits
  /\ ChoiceFits

LEMMA StartupInitInv == StartupInit => StartupInv
  <1> SUFFICES ASSUME StartupInit PROVE StartupInv
    OBVIOUS
  <1> USE StartupConstantsAssumption, OldFilesAssumption DEF StartupInit
  <1>1. Fresh \in File /\ Fresh.old = {} /\ Fresh.history = {} /\ Fresh.version = 0
        /\ ~Fresh.tables /\ ~Fresh.removed /\ ~Fresh.record
    BY DEF Fresh, File
  <1>2. file \in File /\ work \in File /\ origin \in File
    BY <1>1
  <1>3. at \in Range(Script)
    BY NamedSteps DEF Steps
  <1>4. count \in [stops : 0..MaxStops, faults : 0..MaxFaults, edits : 0..MaxEdits]
    OBVIOUS
  <1>5. {saving, registered, handler, stopping, reach} \subseteq BOOLEAN
    OBVIOUS
  <1>6. StartupTypeOK
    BY <1>2, <1>3, <1>4, <1>5 DEF StartupTypeOK
  <1>7. StatementFits /\ WorkFits /\ ChoiceFits
    BY DEF StatementFits, WorkFits, ChoiceFits, Past, Runs
  <1>8. VersionFits /\ RowsFit
    BY <1>1 DEF VersionFits, RowsFit, Past
  <1>9. TablesFit
    <2>1. CASE file = Fresh
      BY <1>1, <2>1 DEF TablesFit, Past
    <2>2. CASE file \in OldFiles
      <3>1. file.version \notin {0, 17} /\ (~Refused(file) => file.version = 16)
        BY <2>2 DEF Refused
      <3> QED BY <2>2, <3>1 DEF TablesFit, Past
    <2> QED BY <2>1, <2>2
  <1> QED BY <1>6, <1>7, <1>8, <1>9 DEF StartupInv

-----------------------------------------------------------------------------
(* The start: what each kind of step changes.                              *)

LEMMA WriteKeyFits ==
  ASSUME NEW f \in File, NEW k \in Corrections \cup FreshKeys \cup {"member_drop", "boundary"}
  PROVE  /\ WriteKey(f, k) \in File
         /\ WriteKey(f, k) = [f EXCEPT !.keys = f.keys \cup {k}]
  BY DEF WriteKey, File

LEMMA CorrectFits ==
  ASSUME NEW f \in File, NEW c \in Corrections
  PROVE  /\ Correct(f, c) \in File
         /\ \A x \in {"version", "tables", "old", "history", "removed", "record", "keys",
                      "member"} : Correct(f, c)[x] = f[x]
         /\ f.value[Edited] # "none" => Correct(f, c).value[Edited] # "none"
         /\ Edited \in f.keys => Correct(f, c).value[Edited] = f.value[Edited]
  BY DEF Correct, File, Corrections, Edited

\* What a statement writes, field by field.
LEMMA EffectFits ==
  ASSUME work \in File, at \in Steps
  PROVE  /\ Effect(at) \in File
         /\ Effect(at).version = IF at = "version" THEN 17 ELSE work.version
         /\ Effect(at).tables = (work.tables /\ at # "v17_drop")
         /\ Effect(at).old = IF at = "v17_drop" THEN {} ELSE work.old
         /\ Effect(at).history = work.history \cup (IF at = "v17_convert" THEN work.old \cap {"pre_close"}
                                        ELSE IF at = "v17_copy" THEN work.old \cap {"closed"} ELSE {})
         /\ Effect(at).removed => work.removed /\ at # "v17_delete"
         /\ Effect(at).record => work.record /\ at # "drop_record"
         /\ work.keys \subseteq Effect(at).keys
         /\ at = "open_meteo_interval_key" => Edited \in Effect(at).keys
         /\ at = "member_key" => Effect(at).member = "absent" \/ "member_drop" \in Effect(at).keys
         /\ "member_drop" \in work.keys => Effect(at).member = work.member
         /\ Effect(at).member = "absent" <=> work.member = "absent"
         /\ Edited \in work.keys /\ work.value[Edited] # "none" => Effect(at).value[Edited] = work.value[Edited]
         /\ work.value[Edited] # "none" \/ at = "seed" => Effect(at).value[Edited] # "none"
         /\ Place(at) \in 6..11 => <<Effect(at).keys, Effect(at).member, Effect(at).value>> = <<work.keys, work.member, work.value>>
  <1> DEFINE Fits == 
         /\ Effect(at) \in File
         /\ Effect(at).version = IF at = "version" THEN 17 ELSE work.version
         /\ Effect(at).tables = (work.tables /\ at # "v17_drop")
         /\ Effect(at).old = IF at = "v17_drop" THEN {} ELSE work.old
         /\ Effect(at).history = work.history \cup (IF at = "v17_convert" THEN work.old \cap {"pre_close"}
                                        ELSE IF at = "v17_copy" THEN work.old \cap {"closed"} ELSE {})
         /\ Effect(at).removed => work.removed /\ at # "v17_delete"
         /\ Effect(at).record => work.record /\ at # "drop_record"
         /\ work.keys \subseteq Effect(at).keys
         /\ at = "open_meteo_interval_key" => Edited \in Effect(at).keys
         /\ at = "member_key" => Effect(at).member = "absent" \/ "member_drop" \in Effect(at).keys
         /\ "member_drop" \in work.keys => Effect(at).member = work.member
         /\ Effect(at).member = "absent" <=> work.member = "absent"
         /\ Edited \in work.keys /\ work.value[Edited] # "none" => Effect(at).value[Edited] = work.value[Edited]
         /\ work.value[Edited] # "none" \/ at = "seed" => Effect(at).value[Edited] # "none"
         /\ Place(at) \in 6..11 => <<Effect(at).keys, Effect(at).member, Effect(at).value>> = <<work.keys, work.member, work.value>>
  <1> SUFFICES Fits
    OBVIOUS
  <1>0. Place(at) \in 1..40
    BY PlaceFits
  <1>1. CASE at = "v17_convert"
    <2>1. Effect(at) = ConvertPreClose(work)
      BY <1>1 DEF Effect, Corrections, FreshKeys
    <2>2. Place(at) = 7
      BY <1>1, Places
    <2> QED BY <1>1, <2>1, <2>2 DEF File, Edited, Corrections, ConvertPreClose, Rows
  <1>2. CASE at = "v17_copy"
    <2>1. Effect(at) = CopyClosePairs(work)
      BY <1>2 DEF Effect, Corrections, FreshKeys
    <2>2. Place(at) = 8
      BY <1>2, Places
    <2> QED BY <1>2, <2>1, <2>2 DEF File, Edited, Corrections, CopyClosePairs, Rows
  <1>3. CASE at = "v17_delete"
    <2>1. Effect(at) = DeleteRemovedJobsKeys(work)
      BY <1>3 DEF Effect, Corrections, FreshKeys
    <2>2. Place(at) = 9
      BY <1>3, Places
    <2> QED BY <1>3, <2>1, <2>2 DEF File, Edited, Corrections, DeleteRemovedJobsKeys
  <1>4. CASE at = "v17_drop"
    <2>1. Effect(at) = DropTables(work)
      BY <1>4 DEF Effect, Corrections, FreshKeys
    <2>2. Place(at) = 10
      BY <1>4, Places
    <2> QED BY <1>4, <2>1, <2>2 DEF File, Edited, Corrections, DropTables
  <1>5. CASE at = "drop_record"
    <2>1. Effect(at) = DropForecastRecord(work)
      BY <1>5 DEF Effect, Corrections, FreshKeys
    <2>2. Place(at) = 12
      BY <1>5, Places
    <2> QED BY <1>5, <2>1, <2>2 DEF File, Edited, Corrections, DropForecastRecord
  <1>6. CASE at = "create_indexes"
    <2>1. Effect(at) = CreateIndexes(work)
      BY <1>6 DEF Effect, Corrections, FreshKeys
    <2>2. Place(at) = 13
      BY <1>6, Places
    <2> QED BY <1>6, <2>1, <2>2 DEF File, Edited, Corrections, CreateIndexes
  <1>7. CASE at = "pause_member"
    <2>1. Effect(at) = PauseMember(work)
      BY <1>7 DEF Effect, Corrections, FreshKeys
    <2>2. Place(at) = 20
      BY <1>7, Places
    <2> QED BY <1>7, <2>1, <2>2 DEF File, Edited, Corrections, PauseMember
  <1>8. CASE at = "seed"
    <2>1. Effect(at) = Seed(work)
      BY <1>8 DEF Effect, Corrections, FreshKeys
    <2>2. Place(at) = 22
      BY <1>8, Places
    <2> QED BY <1>8, <2>1, <2>2 DEF File, Edited, Corrections, Seed
  <1>9. CASE at = "sanitize"
    <2>1. Effect(at) = Sanitize(work)
      BY <1>9 DEF Effect, Corrections, FreshKeys
    <2>2. Place(at) = 30
      BY <1>9, Places
    <2> QED BY <1>9, <2>1, <2>2 DEF File, Edited, Corrections, Sanitize
  <1>10. CASE at = "vacuum"
    <2>1. Effect(at) = Vacuum(work)
      BY <1>10 DEF Effect, Corrections, FreshKeys
    <2>2. Place(at) = 35
      BY <1>10, Places
    <2> QED BY <1>10, <2>1, <2>2 DEF File, Edited, Corrections, Vacuum
  <1>11. CASE at = "version"
    <2>1. Effect(at) = [work EXCEPT !.version = 17]
      BY <1>11 DEF Effect, Corrections, FreshKeys
    <2>2. Place(at) = 27
      BY <1>11, Places
    <2> QED BY <1>11, <2>1, <2>2 DEF File, Edited, Corrections
  <1>12. CASE at = "google_horizon"
    <2>1. Effect(at) = Correct(work, at)
      BY <1>12 DEF Effect, Corrections, FreshKeys
    <2>2. Place(at) = 14 /\ at \in Corrections
      BY <1>12, Places DEF Corrections
    <2> QED BY <1>12, <2>1, <2>2, CorrectFits DEF File
  <1>13. CASE at = "open_meteo_horizon"
    <2>1. Effect(at) = Correct(work, at)
      BY <1>13 DEF Effect, Corrections, FreshKeys
    <2>2. Place(at) = 16 /\ at \in Corrections
      BY <1>13, Places DEF Corrections
    <2> QED BY <1>13, <2>1, <2>2, CorrectFits DEF File
  <1>14. CASE at = "open_meteo_interval"
    <2>1. Effect(at) = Correct(work, at)
      BY <1>14 DEF Effect, Corrections, FreshKeys
    <2>2. Place(at) = 18 /\ at \in Corrections
      BY <1>14, Places DEF Corrections
    <2> QED BY <1>14, <2>1, <2>2, CorrectFits DEF File
  <1>15. CASE at = "google_horizon_key"
    <2>1. Effect(at) = WriteKey(work, "google_horizon")
      BY <1>15 DEF Effect, Corrections, FreshKeys
    <2>2. Place(at) = 15
      BY <1>15, Places
    <2> QED BY <1>15, <2>1, <2>2 DEF WriteKey, File, Edited, Corrections, FreshKeys
  <1>16. CASE at = "open_meteo_horizon_key"
    <2>1. Effect(at) = WriteKey(work, "open_meteo_horizon")
      BY <1>16 DEF Effect, Corrections, FreshKeys
    <2>2. Place(at) = 17
      BY <1>16, Places
    <2> QED BY <1>16, <2>1, <2>2 DEF WriteKey, File, Edited, Corrections, FreshKeys
  <1>17. CASE at = "open_meteo_interval_key"
    <2>1. Effect(at) = WriteKey(work, "open_meteo_interval")
      BY <1>17 DEF Effect, Corrections, FreshKeys
    <2>2. Place(at) = 19
      BY <1>17, Places
    <2> QED BY <1>17, <2>1, <2>2 DEF WriteKey, File, Edited, Corrections, FreshKeys
  <1>18. CASE at = "boundary"
    <2>1. Effect(at) = WriteKey(work, "boundary")
      BY <1>18 DEF Effect, Corrections, FreshKeys
    <2>2. Place(at) = 23
      BY <1>18, Places
    <2> QED BY <1>18, <2>1, <2>2 DEF WriteKey, File, Edited, Corrections, FreshKeys
  <1>19. CASE at = "marker"
    <2>1. Effect(at) = WriteKey(work, "storage_compacted")
      BY <1>19 DEF Effect, Corrections, FreshKeys
    <2>2. Place(at) = 37
      BY <1>19, Places
    <2> QED BY <1>19, <2>1, <2>2 DEF WriteKey, File, Edited, Corrections, FreshKeys
  <1>20. CASE at = "daily_close_on"
    <2>1. Effect(at) = WriteKey(work, "daily_close_on")
      BY <1>20 DEF Effect, Corrections, FreshKeys
    <2>2. Place(at) = 24
      BY <1>20, Places
    <2> QED BY <1>20, <2>1, <2>2 DEF WriteKey, File, Edited, Corrections, FreshKeys
  <1>21. CASE at = "download_record_since"
    <2>1. Effect(at) = WriteKey(work, "download_record_since")
      BY <1>21 DEF Effect, Corrections, FreshKeys
    <2>2. Place(at) = 25
      BY <1>21, Places
    <2> QED BY <1>21, <2>1, <2>2 DEF WriteKey, File, Edited, Corrections, FreshKeys
  <1>22. CASE at = "storage_compacted"
    <2>1. Effect(at) = WriteKey(work, "storage_compacted")
      BY <1>22 DEF Effect, Corrections, FreshKeys
    <2>2. Place(at) = 26
      BY <1>22, Places
    <2> QED BY <1>22, <2>1, <2>2 DEF WriteKey, File, Edited, Corrections, FreshKeys
  <1>23. CASE at = "member_key"
    <2>1. Effect(at) = WriteMemberKey(work)
      BY <1>23 DEF Effect, Corrections, FreshKeys
    <2>2. Place(at) = 21
      BY <1>23, Places
    <2> QED BY <1>23, <2>1, <2>2 DEF WriteMemberKey, WriteKey, File, Edited
  <1>24. CASE at \notin Corrections \cup FreshKeys \cup
                {"v17_convert", "v17_copy", "v17_delete", "v17_drop", "drop_record", "create_indexes", "pause_member", "seed", "sanitize", "vacuum", "version", "google_horizon_key", "open_meteo_horizon_key", "open_meteo_interval_key", "boundary", "marker", "member_key"}
    <2>1. Effect(at) = work
      BY <1>24 DEF Effect
    <2> QED BY <1>24, <2>1 DEF File
  <1> QED BY <1>1, <1>2, <1>3, <1>4, <1>5, <1>6, <1>7, <1>8, <1>9, <1>10, <1>11, <1>12,
             <1>13, <1>14, <1>15, <1>16, <1>17, <1>18, <1>19, <1>20, <1>21, <1>22, <1>23,
             <1>24
         DEF FreshKeys, Corrections

-----------------------------------------------------------------------------
(* The start: the shapes of its steps.                                      *)

Rests == UNCHANGED <<file, work, current, saving, origin>>

\* The process starts.
Opens ==
  /\ Rests /\ settled' = settled
  /\ proc = "down" /\ proc' = "opening" /\ stmt' = "idle" /\ Place(at') = 1 /\ at' \in Steps

\* The start goes on and writes nothing: its own bookkeeping, a statement left
\* out, or one that failed and was logged.
Advances ==
  /\ Rests /\ settled' = settled
  /\ proc = "opening" /\ proc' = "opening" /\ stmt' = "idle" /\ at' \in Steps
  /\ \/ Place(at') = Place(at) + 1 /\ Place(at) \in {1, 2, 28, 29, 30, 31, 32, 38, 39}
     \/ /\ Place(at') = Place(at) + 1 /\ Skipped(at)
        /\ Place(at) \in {5, 24, 25, 26} \cup (6..11) \cup (33..37)
     \/ Place(at) \in 33..37 /\ Place(at') = 38

\* The last step: the readers are open.
Serves ==
  /\ Rests /\ proc = "opening" /\ Place(at) = 40
  /\ proc' = "serving" /\ at' = at /\ stmt' = "idle"
  /\ settled' = settled \cup {"interval"} \cup
                 (IF file.member = "absent" THEN {} ELSE {"member"})

\* Nothing that the file depends on moves.
Stays ==
  /\ Rests /\ settled' = settled /\ at' = at
  /\ \/ proc' = proc /\ stmt' = stmt
     \/ /\ proc = "opening" /\ proc' = "opening" /\ Runs'
        /\ at \notin Bookkeeping /\ ~Skipped(at)
     \/ /\ proc = "opening" /\ proc' = "refused" /\ ~Runs'
        /\ Place(at) = 3 /\ Refused(file)
     \/ proc = "serving" /\ proc' = "down" /\ stmt' = stmt

\* The process is gone.
Ends == Gone /\ settled' = settled

\* A statement ends.
Writes ==
  /\ proc = "opening" /\ proc' = "opening" /\ Runs /\ ~Runs' /\ stmt' = "idle"
  /\ settled' = settled /\ origin' = origin
  /\ Place(at) = 3 => ~Refused(file)
  /\ work' = Effect(at)
  /\ saving' = (IF Place(at) = 5 THEN work.tables ELSE saving /\ Place(at) # 11)
  /\ file' = IF saving /\ Place(at) # 11 THEN file ELSE Effect(at)
  /\ current' = IF Place(at) = 3 THEN file.version ELSE current
  /\ at' \in Steps
  /\ Place(at') = Place(at) + 1 \/ (Place(at) = 33 /\ Place(at') = 38)

\* A statement that raises is passed over, or takes the process with it.
LEMMA RaiseShape ==
  ASSUME StartupInv, proc = "opening", settled' = settled, NEW i \in BOOLEAN, Raise(i)
  PROVE  Advances \/ Ends
  <1>0. at \in Steps /\ Place(at) \in 1..40
    BY PlaceFits DEF StartupInv, StartupTypeOK, Steps
  <1>1. CASE at = "sanitize" /\ GoTo(After(at)) /\ UNCHANGED <<file, work, proc, current, saving, origin>>
    <2>1. Place(at) = 30
      BY <1>0, <1>1, Places
    <2> QED BY <1>0, <1>1, <2>1, AfterFits DEF Advances, Rests, GoTo
  <1>2. CASE /\ at \in Compaction /\ GoTo("unregister_again")
             /\ UNCHANGED <<file, work, proc, current, saving, origin>>
    <2>1. Place(at) \in 33..37 /\ at' \in Steps /\ Place(at') = 38
      BY <1>0, <1>2, Places, GroupsFit, NamedSteps DEF GoTo
    <2> QED BY <1>2, <2>1 DEF Advances, Rests, GoTo
  <1>3. CASE Gone
    BY <1>3 DEF Ends
  <1> QED BY <1>1, <1>2, <1>3 DEF Raise

LEMMA KeepShape ==
  ASSUME StartupInv, NEW s \in Bookkeeping, Keep(s)
  PROVE  Advances \/ Serves
  <1>0. at = s /\ at \in Steps /\ Place(at) \in {1, 2, 28, 29, 31, 32, 38, 39, 40}
    BY GroupsFit DEF StartupInv, StartupTypeOK, Steps, Keep
  <1>1. CASE s = "open_readers"
    <2>1. Place(at) = 40
      BY <1>0, <1>1, Places
    <2> QED BY <1>0, <1>1, <2>1 DEF Keep, Serves, Rests
  <1>2. CASE s # "open_readers"
    <2>1. Place(at) # 40
      BY <1>0, <1>2, Places
    <2>2. Place(at) < 40 /\ Place(at) \in {1, 2, 28, 29, 30, 31, 32, 38, 39}
      BY <1>0, <2>1
    <2>3. at' \in Steps /\ Place(at') = Place(at) + 1
      BY <1>0, <1>2, <2>2, AfterFits DEF Keep, GoTo
    <2> QED BY <1>0, <1>2, <2>2, <2>3 DEF Keep, Advances, Rests, GoTo
  <1> QED BY <1>1, <1>2

LEMMA SkipShape ==
  ASSUME StartupInv, Skip
  PROVE  Advances
  <1>0. at \in Steps /\ Place(at) \in 1..40
    BY PlaceFits DEF StartupInv, StartupTypeOK, Steps
  <1>1. Place(at) \in {5, 24, 25, 26} \cup (6..11) \cup (33..37)
    BY <1>0, Places, GroupsFit DEF Skip, Skipped
  <1>2. at' \in Steps /\ Place(at') = Place(at) + 1
    BY <1>0, <1>1, AfterFits DEF Skip, GoTo
  <1> QED BY <1>1, <1>2 DEF Skip, Advances, Rests, GoTo

LEMMA FinishShape ==
  ASSUME StartupInv, Finish
  PROVE  Writes
  <1>0. at \in Steps /\ Place(at) \in 1..40 /\ saving \in BOOLEAN
    BY PlaceFits DEF StartupInv, StartupTypeOK, Steps
  <1>1. Runs /\ at \notin Bookkeeping
    BY DEF StartupInv, StatementFits, Finish, Runs
  <1>2. Place(at) < 40
    BY <1>0, <1>1, GroupsFit
  <1>3. /\ stmt' = "idle" /\ at' \in Steps
        /\ Place(at') = Place(at) + 1 \/ (Place(at) = 33 /\ Place(at') = 38)
    BY <1>0, <1>2, AfterFits, Places, NamedSteps DEF Finish, GoTo
  <1>4. /\ at = "v17_begin" <=> Place(at) = 5
        /\ at = "v17_release" <=> Place(at) = 11
        /\ at = "read_version" <=> Place(at) = 3
    BY <1>0, Places
  <1>5. saving' = (IF Place(at) = 5 THEN work.tables ELSE saving /\ Place(at) # 11)
    <2>1. CASE Place(at) = 5
      BY <1>4, <2>1 DEF Finish, Converts
    <2>2. CASE Place(at) = 11
      BY <1>4, <2>2 DEF Finish
    <2>3. CASE Place(at) # 5 /\ Place(at) # 11
      <3>1. saving' = saving
        BY <1>4, <2>3 DEF Finish
      <3> QED BY <1>0, <2>3, <3>1
    <2> QED BY <2>1, <2>2, <2>3
  <1>6. file' = IF saving /\ Place(at) # 11 THEN file ELSE Effect(at)
    BY <1>4 DEF Finish, Durable
  <1> QED BY <1>1, <1>3, <1>4, <1>5, <1>6 DEF Finish, Writes, Runs

LEMMA StartupShapes ==
  ASSUME StartupInv, [StartupNext]_startupVars
  PROVE  Writes \/ Edit \/ Ends \/ Opens \/ Advances \/ Serves \/ Stays
  <1>0. at \in Steps
    BY DEF StartupInv, StartupTypeOK, Steps
  <1>1. CASE StartProcess
    <2>1. Place("set_handler") = 1 /\ "set_handler" \in Steps
      BY NamedSteps, Places
    <2> QED BY <1>1, <2>1 DEF StartProcess, GoTo, Opens, Rests
  <1>2. CASE \E s \in Bookkeeping : Keep(s)
    BY <1>2, KeepShape
  <1>3. CASE Skip
    BY <1>3, SkipShape
  <1>4. CASE BeginStep
    <2>1. CASE stopping
      BY <1>4, <2>1 DEF BeginStep, Ends
    <2>2. CASE ~stopping
      <3>1. at \notin Bookkeeping
        <4>1. at \in Migrations \cup Compaction
          BY <1>4 DEF BeginStep, Announced
        <4> QED BY <4>1 DEF Bookkeeping
      <3> QED BY <1>4, <2>2, <3>1 DEF BeginStep, Stays, Rests, Runs
    <2> QED BY <2>1, <2>2
  <1>5. CASE Execute
    BY <1>5 DEF Execute, Stays, Rests, Runs
  <1>6. CASE Refuse
    BY <1>0, <1>6, Places DEF Refuse, Stays, Rests, Runs
  <1>7. CASE Finish
    BY <1>7, FinishShape
  <1>8. CASE Fail \/ Fault
    BY <1>8, RaiseShape DEF Fail, Fault
  <1>9. CASE RequestStop
    BY <1>9 DEF RequestStop, Stays, Rests
  <1>10. CASE Interrupt
    <2>1. CASE stmt \in {"running", "long"}
      <3>1. proc = "opening"
        BY <2>1 DEF StartupInv, StatementFits, Runs
      <3> QED BY <1>10, <2>1, <3>1, RaiseShape DEF Interrupt
    <2>2. CASE stmt \notin {"running", "long"}
      BY <1>10, <2>2 DEF Interrupt, Stays, Rests
    <2> QED BY <2>1, <2>2
  <1>11. CASE StopProgress
    BY <1>11, RaiseShape DEF StopProgress
  <1>12. CASE StopServing
    BY <1>12 DEF StopServing, Stays, Rests, startVars
  <1>13. CASE Die
    BY <1>13 DEF Die, Ends
  <1>14. CASE Edit
    BY <1>14
  <1>15. CASE UNCHANGED startupVars
    BY <1>15 DEF startupVars, startVars, Stays, Rests
  <1> QED BY <1>1, <1>2, <1>3, <1>4, <1>5, <1>6, <1>7, <1>8, <1>9, <1>10, <1>11, <1>12,
             <1>13, <1>14, <1>15 DEF StartupNext

\* The operator's edit: of the value and the member alone.
LEMMA EditShape ==
  ASSUME StartupInv, Edit
  PROVE  /\ proc = "serving" /\ proc' = proc /\ UNCHANGED startVars
         /\ file' \in File /\ work' = file' /\ origin' = origin /\ settled' = settled
         /\ \A x \in {"version", "tables", "old", "history", "removed", "record", "keys"} :
              file'[x] = file[x]
         /\ file'.value[Edited] # "none"
         /\ file'.version = file.version
  <1>1. PICK v \in {"seed", "config", "other"}, m \in {"absent", "on", "off"} :
          file' = [file EXCEPT !.value[Edited] = v, !.member = m]
    BY DEF Edit, Edited
  <1>2. file \in File /\ Edited \in Corrections
    BY DEF StartupInv, StartupTypeOK, Edited, Corrections
  <1>3. /\ file' \in File /\ file'.value[Edited] # "none"
        /\ \A x \in {"version", "tables", "old", "history", "removed", "record", "keys"} :
              file'[x] = file[x]
    BY <1>1, <1>2 DEF File
  <1> QED BY <1>3 DEF Edit

LEMMA TypeFilesStep ==
  ASSUME StartupInv, [StartupNext]_startupVars
  PROVE  (/\ file \in File /\ work \in File /\ origin \in File
          /\ at \in Steps /\ current \in {0, 16, 17})'
  <1> USE DEF StartupInv
  <1>0. /\ file \in File /\ work \in File /\ origin \in File
        /\ at \in Steps /\ current \in {0, 16, 17}
    BY DEF StartupTypeOK, Steps
  <1>1. CASE Writes
    <2>1. Effect(at) \in File
      BY <1>0, EffectFits
    <2>2. Place(at) = 3 => file.version \in {0, 16, 17}
      BY <1>1 DEF Writes, Refused
    <2> QED BY <1>0, <1>1, <2>1, <2>2 DEF Writes
  <1>2. CASE Edit
    BY <1>0, <1>2, EditShape DEF startVars
  <1>3. CASE Ends
    BY <1>0, <1>3 DEF Ends, Gone
  <1>4. CASE Opens \/ Advances \/ Serves \/ Stays
    BY <1>0, <1>4 DEF Opens, Advances, Serves, Stays, Rests
  <1> QED BY <1>1, <1>2, <1>3, <1>4, StartupShapes

LEMMA CountsStep ==
  ASSUME StartupTypeOK, [StartupNext]_startupVars
  PROVE  count' \in [stops : 0..MaxStops, faults : 0..MaxFaults, edits : 0..MaxEdits]
  <1> USE StartupConstantsAssumption DEF StartupTypeOK
  <1>1. CASE Fault \/ RequestStop \/ Die \/ Edit
    <2>1. /\ count = [stops |-> count.stops, faults |-> count.faults, edits |-> count.edits]
          /\ count.stops \in 0..MaxStops /\ count.faults \in 0..MaxFaults
          /\ count.edits \in 0..MaxEdits
      OBVIOUS
    <2>2. \/ /\ count.stops < MaxStops
             /\ count' = [count EXCEPT !.stops = @ + 1]
          \/ /\ count.faults < MaxFaults
             /\ count' = [count EXCEPT !.faults = @ + 1]
          \/ /\ count.edits < MaxEdits
             /\ count' = [count EXCEPT !.edits = @ + 1]
      BY <1>1 DEF Fault, RequestStop, Die, Edit
    <2>3. \/ /\ count.stops < MaxStops
             /\ count' = [stops |-> count.stops + 1, faults |-> count.faults, edits |-> count.edits]
          \/ /\ count.faults < MaxFaults
             /\ count' = [stops |-> count.stops, faults |-> count.faults + 1, edits |-> count.edits]
          \/ /\ count.edits < MaxEdits
             /\ count' = [stops |-> count.stops, faults |-> count.faults, edits |-> count.edits + 1]
      BY <2>1, <2>2
    <2> HIDE DEF StartupTypeOK
    <2> QED BY <2>1, <2>3
  <1>2. CASE UNCHANGED count
    BY <1>2
  <1> QED BY <1>1, <1>2
             DEF StartupNext, StartProcess, Keep, Skip, BeginStep, Execute, Refuse,
             Finish, Fail, Interrupt, StopProgress, StopServing, startupVars

LEMMA TypeRestStep ==
  ASSUME StartupInv, [StartupNext]_startupVars
  PROVE  (/\ proc \in {"down", "opening", "serving", "refused"}
          /\ stmt \in {"idle", "checked", "running", "long"}
          /\ {saving, registered, handler, stopping, reach} \subseteq BOOLEAN
          /\ settled \subseteq {"interval", "member"})'
  <1> USE DEF StartupInv, StartupTypeOK
  <1>1. CASE StartProcess
    BY <1>1 DEF StartProcess, GoTo
  <1>2. ASSUME NEW s \in Bookkeeping, Keep(s)
        PROVE  (/\ proc \in {"down", "opening", "serving", "refused"}
                /\ stmt \in {"idle", "checked", "running", "long"}
                /\ {saving, registered, handler, stopping, reach} \subseteq BOOLEAN
                /\ settled \subseteq {"interval", "member"})'
    <2>1. handler' \in BOOLEAN
      BY <1>2 DEF Keep, SetHandler
    <2>2. registered' \in BOOLEAN
      BY <1>2 DEF Keep
    <2> QED BY <1>2, <2>1, <2>2 DEF Keep, GoTo
  <1>3. CASE Skip
    BY <1>3 DEF Skip, GoTo
  <1>4. CASE BeginStep
    BY <1>4 DEF BeginStep, Gone
  <1>5. CASE Execute
    BY <1>5 DEF Execute
  <1>6. CASE Refuse
    BY <1>6 DEF Refuse
  <1>7. CASE Finish
    <2>1. saving' \in BOOLEAN
      <3>1. work.tables \in BOOLEAN
        BY DEF File
      <3> QED BY <1>7, <3>1, FinishShape DEF Writes
    <2> QED BY <1>7, <2>1 DEF Finish, GoTo
  <1>8. CASE Fail \/ Fault \/ StopProgress
    <2>1. PICK i \in BOOLEAN : Raise(i)
      BY <1>8 DEF Fail, Fault, StopProgress
    <2> QED BY <1>8, <2>1 DEF Fail, Fault, StopProgress, Raise, Gone, GoTo
  <1>9. CASE RequestStop
    BY <1>9 DEF RequestStop
  <1>10. CASE Interrupt
    BY <1>10 DEF Interrupt, Raise, Gone, GoTo
  <1>11. CASE StopServing
    BY <1>11 DEF StopServing, startVars
  <1>12. CASE Die
    BY <1>12 DEF Die, Gone
  <1>13. CASE Edit
    BY <1>13 DEF Edit, startVars
  <1>14. CASE UNCHANGED startupVars
    BY <1>14 DEF startupVars, startVars
  <1> QED BY <1>1, <1>2, <1>3, <1>4, <1>5, <1>6, <1>7, <1>8, <1>9, <1>10, <1>11, <1>12,
             <1>13, <1>14 DEF StartupNext

LEMMA SkippedFits ==
  ASSUME at \in Steps, Skipped(at)
  PROVE  (Place(at) = 5 => current # 16) /\ (Place(at) \in 6..11 => ~saving)
  <1>1. /\ at = "v17_begin" <=> Place(at) = 5
        /\ at \in FreshKeys <=> Place(at) \in {24, 25, 26}
        /\ at \in Compaction <=> Place(at) \in 33..37
        /\ Place(at) \in 1..40
    BY Places, GroupsFit, PlaceFits
  <1> QED BY <1>1, GroupsFit DEF Skipped

\* A statement outside the savepoint writes the file.
LEMMA PlainWrite ==
  ASSUME StartupInv, Writes, ~saving
  PROVE  /\ Place(at) \in {3, 4, 5, 30} \cup (12..27) \cup (33..37)
         /\ Place(at) > 3 => ~Refused(file)
         /\ file' \in File /\ work' = file'
         /\ file'.version = IF Place(at) = 27 THEN 17 ELSE file.version
         /\ file'.tables = file.tables /\ file'.old = file.old /\ file'.history = file.history
         /\ file'.removed => file.removed
         /\ file'.record => file.record /\ Place(at) # 12
         /\ file.keys \subseteq file'.keys
         /\ Place(at) = 19 => Edited \in file'.keys
         /\ Place(at) = 21 => file'.member = "absent" \/ "member_drop" \in file'.keys
         /\ "member_drop" \in file.keys => file'.member = file.member
         /\ file'.member = "absent" <=> file.member = "absent"
         /\ Edited \in file.keys /\ file.value[Edited] # "none" =>
              file'.value[Edited] = file.value[Edited]
         /\ file.value[Edited] # "none" \/ Place(at) = 22 => file'.value[Edited] # "none"
         /\ saving' <=> Place(at) = 5 /\ file.tables
  <1> USE DEF StartupInv
  <1>1. /\ at \in Steps /\ Place(at) \in 1..40 /\ file \in File /\ saving \in BOOLEAN
        /\ work = file
    BY PlaceFits DEF StartupTypeOK, Steps, WorkFits
  <1>2. Place(at) \notin 6..11 /\ at \notin Bookkeeping
    BY DEF StatementFits, Writes
  <1>3. Place(at) \in {3, 4, 5, 30} \cup (12..27) \cup (33..37)
    BY <1>1, <1>2, GroupsFit
  <1>4. file' = Effect(at) /\ work' = file'
    BY DEF Writes
  <1>5. /\ at # "v17_convert" /\ at # "v17_copy" /\ at # "v17_delete" /\ at # "v17_drop"
        /\ at = "version" <=> Place(at) = 27
        /\ at = "drop_record" <=> Place(at) = 12
        /\ at = "open_meteo_interval_key" <=> Place(at) = 19
        /\ at = "member_key" <=> Place(at) = 21
        /\ at = "seed" <=> Place(at) = 22
    BY <1>1, <1>2, Places
  <1>6. Place(at) > 3 => ~Refused(file)
    BY DEF VersionFits, Past, Writes
  <1>7. file.tables \in BOOLEAN /\ file'.tables \in BOOLEAN
    BY <1>1, <1>4, EffectFits DEF File
  <1>8. saving' <=> Place(at) = 5 /\ file.tables
    BY <1>1, <1>7 DEF Writes
  <1>9. file'.tables = file.tables
    BY <1>1, <1>4, <1>5, <1>7, EffectFits
  <1> QED BY <1>1, <1>3, <1>4, <1>5, <1>6, <1>8, <1>9, EffectFits

\* One inside it writes what the connection sees, and the last the file.
LEMMA SavedWrite ==
  ASSUME StartupInv, Writes, saving
  PROVE  /\ Place(at) \in 6..11 /\ Place(at') = Place(at) + 1
         /\ file.tables /\ file.version = 16 /\ ~Refused(file)
         /\ file' = IF Place(at) = 11 THEN work' ELSE file
         /\ saving' <=> Place(at) # 11
         /\ work' \in File /\ work'.version = 16
         /\ work'.keys = file.keys /\ work'.member = file.member /\ work'.value = file.value
         /\ work'.old = IF Place(at) >= 10 THEN {} ELSE file.old
         /\ work'.tables <=> Place(at) < 10
         /\ Place(at) >= 9 => ~work'.removed
         /\ work'.history = file.old \cap ((IF Place(at) >= 7 THEN {"pre_close"} ELSE {}) \cup
                                           (IF Place(at) >= 8 THEN {"closed"} ELSE {}))
  <1> USE DEF StartupInv
  <1>1. /\ at \in Steps /\ Place(at) \in 1..40 /\ file \in File /\ work \in File
        /\ saving \in BOOLEAN
    BY PlaceFits DEF StartupTypeOK, Steps
  <1>2. Place(at) \in 6..11
    BY DEF StatementFits
  <1>3. Place(at') = Place(at) + 1
    BY <1>2 DEF Writes
  <1>4. ~Refused(file)
    BY <1>2 DEF VersionFits, Past, Writes
  <1>5. file' = (IF Place(at) = 11 THEN work' ELSE file) /\ work' = Effect(at)
    BY DEF Writes
  <1>6. saving' <=> Place(at) # 11
    <2>1. saving' = (saving /\ Place(at) # 11)
      BY <1>2 DEF Writes
    <2> QED BY <2>1
  <1>7. /\ at = "v17_convert" <=> Place(at) = 7
        /\ at = "v17_copy" <=> Place(at) = 8
        /\ at = "v17_delete" <=> Place(at) = 9
        /\ at = "v17_drop" <=> Place(at) = 10
        /\ at = "version" <=> Place(at) = 27
    BY <1>1, Places
  <1>8. /\ file.tables /\ file.version = 16 /\ work.version = 16
        /\ work.keys = file.keys /\ work.member = file.member /\ work.value = file.value
        /\ work.old = IF Place(at) > 10 THEN {} ELSE file.old
        /\ work.tables <=> ~(Place(at) > 10)
        /\ Place(at) > 9 => ~work.removed
        /\ work.history = file.old \cap ((IF Place(at) > 7 THEN {"pre_close"} ELSE {}) \cup
                                         (IF Place(at) > 8 THEN {"closed"} ELSE {}))
    BY DEF WorkFits, Past, Writes
  <1>9. work' \in File /\ work'.version = 16
    BY <1>1, <1>2, <1>5, <1>7, <1>8, EffectFits
  <1>10. work'.keys = file.keys /\ work'.member = file.member /\ work'.value = file.value
    BY <1>1, <1>2, <1>5, <1>8, EffectFits
  <1>11. work'.old = IF Place(at) >= 10 THEN {} ELSE file.old
    BY <1>1, <1>2, <1>5, <1>7, <1>8, EffectFits
  <1>12. work'.tables = (work.tables /\ at # "v17_drop")
    BY <1>1, <1>5, EffectFits
  <1>13. work'.tables <=> Place(at) < 10
    <2>1. at # "v17_drop" <=> Place(at) # 10
      BY <1>7
    <2>2. Place(at) < 10 <=> ~(Place(at) > 10) /\ Place(at) # 10
      BY <1>1
    <2> QED BY <1>8, <1>12, <2>1, <2>2
  <1>14. Place(at) >= 9 => ~work'.removed
    <2>1. work'.removed => work.removed /\ at # "v17_delete"
      BY <1>1, <1>5, EffectFits
    <2>2. work'.removed \in BOOLEAN
      BY <1>9 DEF File
    <2> QED BY <1>1, <1>7, <1>8, <2>1, <2>2
  <1>15. work'.history = work.history \cup (IF at = "v17_convert" THEN work.old \cap {"pre_close"}
                              ELSE IF at = "v17_copy" THEN work.old \cap {"closed"} ELSE {})
    BY <1>1, <1>5, EffectFits
  <1>16. work'.history = file.old \cap ((IF Place(at) >= 7 THEN {"pre_close"} ELSE {}) \cup
                                        (IF Place(at) >= 8 THEN {"closed"} ELSE {}))
    BY <1>1, <1>2, <1>7, <1>8, <1>15
  <1> QED BY <1>2, <1>3, <1>4, <1>5, <1>6, <1>8, <1>9, <1>10, <1>11, <1>13, <1>14, <1>16

\* A statement runs where it may.
LEMMA StatementStep ==
  ASSUME StartupInv, [StartupNext]_startupVars
  PROVE  StatementFits'
  <1> USE DEF StartupInv, Past, Runs
  <1>0. at \in Steps /\ Place(at) \in 1..40 /\ at' \in Steps /\ Place(at') \in 1..40
    BY TypeFilesStep, PlaceFits DEF StartupTypeOK, Steps
  <1>1. CASE Writes
    <2> USE DEF StatementFits
    <2>1. CASE saving
      BY <1>0, <1>1, <2>1, SavedWrite DEF Writes
    <2>2. CASE ~saving
      BY <1>0, <1>1, <2>2, PlainWrite DEF Writes
    <2> QED BY <2>1, <2>2
  <1>2. CASE Edit
    BY <1>0, <1>2, EditShape DEF startVars, StatementFits, StartupTypeOK, Skipped
  <1>3. CASE Ends
    BY <1>0, <1>3 DEF Ends, Gone, StatementFits, StartupTypeOK, Skipped
  <1>4. CASE Opens
    BY <1>0, <1>4 DEF Opens, Rests, StatementFits, StartupTypeOK, Skipped
  <1>5. CASE Advances
    BY <1>0, <1>5, SkippedFits DEF Advances, Rests, StatementFits, StartupTypeOK, Skipped
  <1>6. CASE Serves
    BY <1>0, <1>6 DEF Serves, Rests, StatementFits, StartupTypeOK, Skipped
  <1>7. CASE Stays
    BY <1>0, <1>7, SkippedFits, GroupsFit, Places
       DEF Stays, Rests, StatementFits, StartupTypeOK, Skipped
  <1> QED BY <1>1, <1>2, <1>3, <1>4, <1>5, <1>6, <1>7, StartupShapes

\* The version.
LEMMA VersionStep ==
  ASSUME StartupInv, [StartupNext]_startupVars
  PROVE  VersionFits'
  <1> USE DEF StartupInv, Past, Runs
  <1>0. at \in Steps /\ Place(at) \in 1..40 /\ at' \in Steps /\ Place(at') \in 1..40
    BY TypeFilesStep, PlaceFits DEF StartupTypeOK, Steps
  <1>1. CASE Writes
    <2> USE DEF VersionFits, Refused
    <2>1. CASE saving
      BY <1>0, <1>1, <2>1, SavedWrite DEF Writes
    <2>2. CASE ~saving
      BY <1>0, <1>1, <2>2, PlainWrite DEF Writes
    <2> QED BY <2>1, <2>2
  <1>2. CASE Edit
    BY <1>0, <1>2, EditShape
       DEF startVars, VersionFits, StatementFits, WorkFits, StartupTypeOK, Refused
  <1>3. CASE Ends
    BY <1>0, <1>3
       DEF Ends, Gone, VersionFits, StatementFits, WorkFits, StartupTypeOK, Refused
  <1>4. CASE Opens
    BY <1>0, <1>4
       DEF Opens, Rests, VersionFits, StatementFits, WorkFits, StartupTypeOK, Refused
  <1>5. CASE Advances
    BY <1>0, <1>5
       DEF Advances, Rests, VersionFits, StatementFits, WorkFits, StartupTypeOK, Refused
  <1>6. CASE Serves
    BY <1>0, <1>6
       DEF Serves, Rests, VersionFits, StatementFits, WorkFits, StartupTypeOK, Refused
  <1>7. CASE Stays
    BY <1>0, <1>7
       DEF Stays, Rests, VersionFits, StatementFits, WorkFits, StartupTypeOK, Refused
  <1> QED BY <1>1, <1>2, <1>3, <1>4, <1>5, <1>6, <1>7, StartupShapes

\* The old tables.
LEMMA TablesStep ==
  ASSUME StartupInv, [StartupNext]_startupVars
  PROVE  TablesFit'
  <1> USE DEF StartupInv, Past, Runs
  <1>0. at \in Steps /\ Place(at) \in 1..40 /\ at' \in Steps /\ Place(at') \in 1..40
    BY TypeFilesStep, PlaceFits DEF StartupTypeOK, Steps
  <1>1. CASE Writes
    <2> USE DEF TablesFit, VersionFits, Refused
    <2>1. CASE saving
      BY <1>0, <1>1, <2>1, SavedWrite DEF Writes
    <2>2. CASE ~saving
      BY <1>0, <1>1, <2>2, PlainWrite DEF Writes
    <2> QED BY <2>1, <2>2
  <1>2. CASE Edit
    BY <1>0, <1>2, EditShape
       DEF startVars, TablesFit, VersionFits, StatementFits, WorkFits, StartupTypeOK,
           Refused, Skipped
  <1>3. CASE Ends
    BY <1>0, <1>3
       DEF Ends, Gone, TablesFit, VersionFits, StatementFits, WorkFits, StartupTypeOK,
           Refused, Skipped
  <1>4. CASE Opens
    BY <1>0, <1>4
       DEF Opens, Rests, TablesFit, VersionFits, StatementFits, WorkFits, StartupTypeOK,
           Refused, Skipped
  <1>5. CASE Advances
    BY <1>0, <1>5, SkippedFits
       DEF Advances, Rests, TablesFit, VersionFits, StatementFits, WorkFits,
           StartupTypeOK, Refused, Skipped
  <1>6. CASE Serves
    BY <1>0, <1>6
       DEF Serves, Rests, TablesFit, VersionFits, StatementFits, WorkFits, StartupTypeOK,
           Refused, Skipped
  <1>7. CASE Stays
    BY <1>0, <1>7
       DEF Stays, Rests, TablesFit, VersionFits, StatementFits, WorkFits, StartupTypeOK,
           Refused, Skipped
  <1> QED BY <1>1, <1>2, <1>3, <1>4, <1>5, <1>6, <1>7, StartupShapes

\* The rows.
LEMMA RowsStep ==
  ASSUME StartupInv, [StartupNext]_startupVars
  PROVE  RowsFit'
  <1> USE DEF StartupInv, Past, Runs
  <1>0. at \in Steps /\ Place(at) \in 1..40 /\ at' \in Steps /\ Place(at') \in 1..40
    BY TypeFilesStep, PlaceFits DEF StartupTypeOK, Steps
  <1>1. CASE Writes
    <2> USE DEF RowsFit, TablesFit, StartupTypeOK, File, Rows
    <2>1. CASE saving
      BY <1>0, <1>1, <2>1, SavedWrite DEF Writes
    <2>2. CASE ~saving
      BY <1>0, <1>1, <2>2, PlainWrite DEF Writes
    <2> QED BY <2>1, <2>2
  <1>2. CASE Edit
    BY <1>0, <1>2, EditShape DEF startVars, RowsFit
  <1>3. CASE Ends
    BY <1>0, <1>3 DEF Ends, Gone, RowsFit
  <1>4. CASE Opens
    BY <1>0, <1>4 DEF Opens, Rests, RowsFit
  <1>5. CASE Advances
    BY <1>0, <1>5 DEF Advances, Rests, RowsFit
  <1>6. CASE Serves
    BY <1>0, <1>6 DEF Serves, Rests, RowsFit
  <1>7. CASE Stays
    BY <1>0, <1>7 DEF Stays, Rests, RowsFit
  <1> QED BY <1>1, <1>2, <1>3, <1>4, <1>5, <1>6, <1>7, StartupShapes

\* The connection's view.
LEMMA WorkStep ==
  ASSUME StartupInv, [StartupNext]_startupVars
  PROVE  WorkFits'
  <1> USE DEF StartupInv, Past, Runs
  <1>0. at \in Steps /\ Place(at) \in 1..40 /\ at' \in Steps /\ Place(at') \in 1..40
    BY TypeFilesStep, PlaceFits DEF StartupTypeOK, Steps
  <1>1. CASE Writes
    <2> USE DEF WorkFits, TablesFit, VersionFits, Refused
    <2>1. CASE saving
      BY <1>0, <1>1, <2>1, SavedWrite DEF Writes
    <2>2. CASE ~saving
      BY <1>0, <1>1, <2>2, PlainWrite DEF Writes
    <2> QED BY <2>1, <2>2
  <1>2. CASE Edit
    BY <1>0, <1>2, EditShape DEF startVars, WorkFits, StatementFits
  <1>3. CASE Ends
    BY <1>0, <1>3 DEF Ends, Gone, WorkFits, StatementFits
  <1>4. CASE Opens
    BY <1>0, <1>4 DEF Opens, Rests, WorkFits, StatementFits
  <1>5. CASE Advances
    BY <1>0, <1>5, SkippedFits DEF Advances, Rests, WorkFits, StatementFits
  <1>6. CASE Serves
    BY <1>0, <1>6 DEF Serves, Rests, WorkFits, StatementFits
  <1>7. CASE Stays
    BY <1>0, <1>7 DEF Stays, Rests, WorkFits, StatementFits
  <1> QED BY <1>1, <1>2, <1>3, <1>4, <1>5, <1>6, <1>7, StartupShapes

\* The operator's choices.
LEMMA ChoiceStep ==
  ASSUME StartupInv, [StartupNext]_startupVars
  PROVE  ChoiceFits'
  <1> USE DEF StartupInv, Past, Runs
  <1>0. at \in Steps /\ Place(at) \in 1..40 /\ at' \in Steps /\ Place(at') \in 1..40
    BY TypeFilesStep, PlaceFits DEF StartupTypeOK, Steps
  <1>1. CASE Writes
    <2> USE DEF ChoiceFits
    <2>1. CASE saving
      BY <1>0, <1>1, <2>1, SavedWrite DEF Writes
    <2>2. CASE ~saving
      BY <1>0, <1>1, <2>2, PlainWrite DEF Writes
    <2> QED BY <2>1, <2>2
  <1>2. CASE Edit
    BY <1>0, <1>2, EditShape DEF startVars, ChoiceFits
  <1>3. CASE Ends
    BY <1>0, <1>3 DEF Ends, Gone, ChoiceFits
  <1>4. CASE Opens
    BY <1>0, <1>4 DEF Opens, Rests, ChoiceFits
  <1>5. CASE Advances
    BY <1>0, <1>5 DEF Advances, Rests, ChoiceFits
  <1>6. CASE Serves
    BY <1>0, <1>6 DEF Serves, Rests, ChoiceFits
  <1>7. CASE Stays
    BY <1>0, <1>7 DEF Stays, Rests, ChoiceFits
  <1> QED BY <1>1, <1>2, <1>3, <1>4, <1>5, <1>6, <1>7, StartupShapes

LEMMA StartupInvStep == StartupInv /\ [StartupNext]_startupVars => StartupInv'
  <1> SUFFICES ASSUME StartupInv, [StartupNext]_startupVars PROVE StartupInv'
    OBVIOUS
  <1>1. StartupTypeOK'
    BY TypeFilesStep, TypeRestStep, CountsStep DEF StartupInv, StartupTypeOK, Steps
  <1> QED BY <1>1, StatementStep, VersionStep, TablesStep, RowsStep, WorkStep, ChoiceStep
         DEF StartupInv

\* Every variable of the start keeps its type.
THEOREM StartupTypeCorrect == StartupSpec => []StartupTypeOK
  <1>1. StartupInv => StartupTypeOK
    BY DEF StartupInv
  <1> QED BY StartupInitInv, StartupInvStep, <1>1, PTL DEF StartupSpec

\* No forecast of the old file is lost or doubled, wherever a start ends, and a
\* file that serves is converted whole (migrations.py: migrate_v17_storage).
THEOREM HistoryIsKept == StartupSpec => []HistoryKept
  <1>1. StartupInv => HistoryKept
    <2> SUFFICES ASSUME StartupInv PROVE HistoryKept
      OBVIOUS
    <2>1. proc = "serving" => file.version = 17 /\ ~Refused(file)
      BY DEF StartupInv, VersionFits, Refused
    <2>2. file.version = 17 => ~file.tables /\ ~file.record
      BY DEF StartupInv, TablesFit
    <2> QED BY <2>1, <2>2 DEF StartupInv, VersionFits, TablesFit, RowsFit, HistoryKept
  <1> QED BY StartupInitInv, StartupInvStep, <1>1, PTL DEF StartupSpec

\* What a finished start has left to the operator no later start changes
\* (migrations.py: the one-time corrections and their keys).
THEOREM OperatorChoiceIsKept == StartupSpec => OperatorChoiceKept
  <1> DEFINE Kept ==
        proc # "serving" =>
          /\ "interval" \in settled => file'.value["open_meteo_interval"]
                                         = file.value["open_meteo_interval"]
          /\ "member" \in settled => file'.member = file.member
  <1>1. StartupInv /\ [StartupNext]_startupVars => Kept
    <2> SUFFICES ASSUME StartupInv, [StartupNext]_startupVars, proc # "serving"
                 PROVE  Kept
      OBVIOUS
    <2>1. CASE Writes
      <3>1. at \in Steps /\ work \in File /\ Place(at) \in 1..40
        BY PlaceFits DEF StartupInv, StartupTypeOK, Steps
      <3> QED BY <2>1, <3>1, EffectFits DEF Writes, StartupInv, WorkFits, ChoiceFits, Edited
    <2>2. CASE ~Edit /\ ~Writes
      <3>1. UNCHANGED file
        BY <2>2, StartupShapes DEF Ends, Gone, Opens, Advances, Serves, Stays, Rests
      <3> QED BY <3>1
    <2>3. ~Edit
      BY DEF Edit
    <2> QED BY <2>1, <2>2, <2>3
  <1>2. StartupInv /\ [StartupNext]_startupVars => [Kept]_startupVars
    BY <1>1
  <1> HIDE DEF Kept
  <1>3. StartupSpec => [][Kept]_startupVars
    BY <1>2, StartupInitInv, StartupInvStep, PTL DEF StartupSpec
  <1> QED BY <1>3 DEF OperatorChoiceKept, Kept

-----------------------------------------------------------------------------
(* py-ddns (DdnsUpdater).                                                   *)

\* With the API kind, as long as nothing was changed, lost or cut off apart, the
\* saved address is the record's, or is about to be.
SavedFits ==
  Azure /\ ~apart => IF pc = "save" THEN toSave = record ELSE saved = record

\* A quiet cycle ends where it is decided, on the address it detected.
QuietFits ==
  /\ quiet => pc \in {"sleep", "idle", "down"}
  /\ Azure /\ quiet /\ pc = "sleep" => saved = detected

\* Only a callback is looked up and confirmed.
CallbackFits == pc \in {"confirm", "steady"} => ~Azure

DdnsInv == TypeOK /\ SavedFits /\ QuietFits /\ CallbackFits

LEMMA DdnsInitInv == Init => DdnsInv
  <1> SUFFICES ASSUME Init PROVE DdnsInv
    OBVIOUS
  <1> USE DdnsConstantsAssumption DEF Init
  <1>1. /\ {record, cached, saved, detected, toSave} \subseteq Value
        /\ config \in [provider : {"azure", "url"}, drift : BOOLEAN]
    BY DEF Value
  <1>2. /\ {first, quiet, asserted, apart} \subseteq BOOLEAN
    OBVIOUS
  <1>3. age \in 0..DriftCycles /\ tries \in 0..(Attempts + ConfirmRetries) /\ events \in 0..MaxEvents
    OBVIOUS
  <1>4. TypeOK
    BY <1>1, <1>2, <1>3 DEF TypeOK
  <1>5. SavedFits /\ QuietFits /\ CallbackFits
    BY DEF SavedFits, QuietFits, CallbackFits
  <1> QED BY <1>4, <1>5 DEF DdnsInv

\* The addresses.
LEMMA DdnsValuesStep ==
  ASSUME DdnsInv, [Next]_vars
  PROVE  (/\ config \in [provider : {"azure", "url"}, drift : BOOLEAN]
          /\ egress \in Addrs /\ {record, cached, saved, detected, toSave} \subseteq Value)'
  <1> USE DdnsConstantsAssumption DEF DdnsInv, TypeOK, Value
  <1>1. CASE Detect
    BY <1>1
       DEF Detect, DecideApi, DecideCallback, DriftDue, MaySuppress, Goto, EndCycle,
           outside, history, program, Value
  <1>2. CASE ReadAnswered
    BY <1>2 DEF ReadAnswered, Goto, EndCycle, outside, history, program, Value
  <1>3. CASE WriteAnswered
    BY <1>3 DEF WriteAnswered, Goto, EndCycle, outside, history, program, Value
  <1>4. CASE FireAnswered
    BY <1>4 DEF FireAnswered, Written, Goto, EndCycle, outside, history, program, Value
  <1>5. CASE Confirm
    BY <1>5 DEF Confirm, Goto, EndCycle, outside, history, program, Value
  <1>6. CASE Suppress
    BY <1>6 DEF Suppress, Goto, EndCycle, outside, history, program, Value
  <1>7. CASE Save
    BY <1>7 DEF Save, Goto, EndCycle, outside, history, program, Value
  <1>8. CASE Wake
    BY <1>8 DEF Wake, Goto, EndCycle, outside, history, program, Value
  <1>9. CASE CallFails
    BY <1>9 DEF CallFails, Written, Goto, EndCycle, outside, history, program, Value
  <1>10. CASE ConfirmFails
    BY <1>10 DEF ConfirmFails, Goto, EndCycle, outside, history, program, Value
  <1>11. CASE SteadyFails
    BY <1>11 DEF SteadyFails, Goto, EndCycle, outside, history, program, Value
  <1>12. CASE SaveFails
    BY <1>12 DEF SaveFails, Goto, EndCycle, outside, history, program, Value
  <1>13. CASE Start
    BY <1>13 DEF Start, Goto, EndCycle, outside, history, program, Value
  <1>14. CASE Down
    BY <1>14 DEF Down, Event, Goto, EndCycle, outside, history, program, Value
  <1>15. CASE NewAddress
    BY <1>15 DEF NewAddress, Event, Goto, EndCycle, outside, history, program, Value
  <1>16. CASE Tamper
    BY <1>16 DEF Tamper, Event, Goto, EndCycle, outside, history, program, Value
  <1>17. CASE Propagate
    BY <1>17 DEF Propagate, Goto, EndCycle, outside, history, program, Value
  <1>18. CASE UNCHANGED vars
    BY <1>18 DEF vars, Goto, EndCycle, outside, history, program, Value
  <1> QED BY <1>1, <1>2, <1>3, <1>4, <1>5, <1>6, <1>7, <1>8, <1>9, <1>10, <1>11, <1>12,
             <1>13, <1>14, <1>15, <1>16, <1>17, <1>18
         DEF Next, Cycle, Failure

\* The place and the flags.
LEMMA DdnsFlagsStep ==
  ASSUME DdnsInv, [Next]_vars
  PROVE  (/\ pc \in {"down", "idle", "read", "apply", "save", "confirm", "steady", "sleep"}
          /\ {first, quiet, asserted, apart} \subseteq BOOLEAN)'
  <1> USE DdnsConstantsAssumption DEF DdnsInv, TypeOK
  <1>1. CASE Detect
    BY <1>1
       DEF Detect, DecideApi, DecideCallback, DriftDue, MaySuppress, Goto, EndCycle,
           outside, history, program, TypeOK
  <1>2. CASE ReadAnswered
    BY <1>2 DEF ReadAnswered, Goto, EndCycle, outside, history, program, TypeOK
  <1>3. CASE WriteAnswered
    BY <1>3 DEF WriteAnswered, Goto, EndCycle, outside, history, program, TypeOK
  <1>4. CASE FireAnswered
    BY <1>4 DEF FireAnswered, Written, Goto, EndCycle, outside, history, program, TypeOK
  <1>5. CASE Confirm
    BY <1>5 DEF Confirm, Goto, EndCycle, outside, history, program, TypeOK
  <1>6. CASE Suppress
    BY <1>6 DEF Suppress, Goto, EndCycle, outside, history, program, TypeOK
  <1>7. CASE Save
    BY <1>7 DEF Save, Goto, EndCycle, outside, history, program, TypeOK
  <1>8. CASE Wake
    BY <1>8 DEF Wake, Goto, EndCycle, outside, history, program, TypeOK
  <1>9. CASE CallFails
    BY <1>9 DEF CallFails, Written, Goto, EndCycle, outside, history, program, TypeOK
  <1>10. CASE ConfirmFails
    BY <1>10 DEF ConfirmFails, Goto, EndCycle, outside, history, program, TypeOK
  <1>11. CASE SteadyFails
    BY <1>11 DEF SteadyFails, Goto, EndCycle, outside, history, program, TypeOK
  <1>12. CASE SaveFails
    BY <1>12 DEF SaveFails, Goto, EndCycle, outside, history, program, TypeOK
  <1>13. CASE Start
    BY <1>13 DEF Start, Goto, EndCycle, outside, history, program, TypeOK
  <1>14. CASE Down
    BY <1>14 DEF Down, Event, Goto, EndCycle, outside, history, program, TypeOK
  <1>15. CASE NewAddress
    BY <1>15 DEF NewAddress, Event, Goto, EndCycle, outside, history, program, TypeOK
  <1>16. CASE Tamper
    BY <1>16 DEF Tamper, Event, Goto, EndCycle, outside, history, program, TypeOK
  <1>17. CASE Propagate
    BY <1>17 DEF Propagate, Goto, EndCycle, outside, history, program, TypeOK
  <1>18. CASE UNCHANGED vars
    BY <1>18 DEF vars, Goto, EndCycle, outside, history, program, TypeOK
  <1> QED BY <1>1, <1>2, <1>3, <1>4, <1>5, <1>6, <1>7, <1>8, <1>9, <1>10, <1>11, <1>12,
             <1>13, <1>14, <1>15, <1>16, <1>17, <1>18
         DEF Next, Cycle, Failure

\* The counters.
LEMMA DdnsCountersStep ==
  ASSUME DdnsInv, [Next]_vars
  PROVE  (age \in 0..DriftCycles /\ tries \in 0..(Attempts + ConfirmRetries) /\ events \in 0..MaxEvents)'
  <1> USE DdnsConstantsAssumption DEF DdnsInv, TypeOK
  <1>1. CASE Detect
    BY <1>1
       DEF Detect, DecideApi, DecideCallback, DriftDue, MaySuppress, Goto, EndCycle,
           outside, history, program, TypeOK
  <1>2. CASE ReadAnswered
    BY <1>2 DEF ReadAnswered, Goto, EndCycle, outside, history, program, TypeOK
  <1>3. CASE WriteAnswered
    BY <1>3 DEF WriteAnswered, Goto, EndCycle, outside, history, program, TypeOK
  <1>4. CASE FireAnswered
    BY <1>4 DEF FireAnswered, Written, Goto, EndCycle, outside, history, program, TypeOK
  <1>5. CASE Confirm
    BY <1>5 DEF Confirm, Goto, EndCycle, outside, history, program, TypeOK
  <1>6. CASE Suppress
    BY <1>6 DEF Suppress, Goto, EndCycle, outside, history, program, TypeOK
  <1>7. CASE Save
    BY <1>7 DEF Save, Goto, EndCycle, outside, history, program, TypeOK
  <1>8. CASE Wake
    BY <1>8 DEF Wake, Goto, EndCycle, outside, history, program, TypeOK
  <1>9. CASE CallFails
    BY <1>9 DEF CallFails, Written, Goto, EndCycle, outside, history, program, TypeOK
  <1>10. CASE ConfirmFails
    BY <1>10 DEF ConfirmFails, Goto, EndCycle, outside, history, program, TypeOK
  <1>11. CASE SteadyFails
    BY <1>11 DEF SteadyFails, Goto, EndCycle, outside, history, program, TypeOK
  <1>12. CASE SaveFails
    BY <1>12 DEF SaveFails, Goto, EndCycle, outside, history, program, TypeOK
  <1>13. CASE Start
    BY <1>13 DEF Start, Goto, EndCycle, outside, history, program, TypeOK
  <1>14. CASE Down
    BY <1>14 DEF Down, Event, Goto, EndCycle, outside, history, program, TypeOK
  <1>15. CASE NewAddress
    BY <1>15 DEF NewAddress, Event, Goto, EndCycle, outside, history, program, TypeOK
  <1>16. CASE Tamper
    BY <1>16 DEF Tamper, Event, Goto, EndCycle, outside, history, program, TypeOK
  <1>17. CASE Propagate
    BY <1>17 DEF Propagate, Goto, EndCycle, outside, history, program, TypeOK
  <1>18. CASE UNCHANGED vars
    BY <1>18 DEF vars, Goto, EndCycle, outside, history, program, TypeOK
  <1> QED BY <1>1, <1>2, <1>3, <1>4, <1>5, <1>6, <1>7, <1>8, <1>9, <1>10, <1>11, <1>12,
             <1>13, <1>14, <1>15, <1>16, <1>17, <1>18
         DEF Next, Cycle, Failure

\* What is saved is the record.
LEMMA SavedStep ==
  ASSUME DdnsInv, [Next]_vars
  PROVE  SavedFits'
  <1> USE DdnsConstantsAssumption DEF DdnsInv, TypeOK, SavedFits, CallbackFits, Azure
  <1>1. CASE Detect
    BY <1>1
       DEF Detect, DecideApi, DecideCallback, DriftDue, MaySuppress, Goto, EndCycle,
           outside, history, program, SavedFits
  <1>2. CASE ReadAnswered
    BY <1>2 DEF ReadAnswered, Goto, EndCycle, outside, history, program, SavedFits
  <1>3. CASE WriteAnswered
    BY <1>3 DEF WriteAnswered, Goto, EndCycle, outside, history, program, SavedFits
  <1>4. CASE FireAnswered
    BY <1>4 DEF FireAnswered, Written, Goto, EndCycle, outside, history, program, SavedFits
  <1>5. CASE Confirm
    BY <1>5 DEF Confirm, Goto, EndCycle, outside, history, program, SavedFits
  <1>6. CASE Suppress
    BY <1>6 DEF Suppress, Goto, EndCycle, outside, history, program, SavedFits
  <1>7. CASE Save
    BY <1>7 DEF Save, Goto, EndCycle, outside, history, program, SavedFits
  <1>8. CASE Wake
    BY <1>8 DEF Wake, Goto, EndCycle, outside, history, program, SavedFits
  <1>9. CASE CallFails
    BY <1>9 DEF CallFails, Written, Goto, EndCycle, outside, history, program, SavedFits
  <1>10. CASE ConfirmFails
    BY <1>10 DEF ConfirmFails, Goto, EndCycle, outside, history, program, SavedFits
  <1>11. CASE SteadyFails
    BY <1>11 DEF SteadyFails, Goto, EndCycle, outside, history, program, SavedFits
  <1>12. CASE SaveFails
    BY <1>12 DEF SaveFails, Goto, EndCycle, outside, history, program, SavedFits
  <1>13. CASE Start
    BY <1>13 DEF Start, Goto, EndCycle, outside, history, program, SavedFits
  <1>14. CASE Down
    BY <1>14 DEF Down, Event, Goto, EndCycle, outside, history, program, SavedFits
  <1>15. CASE NewAddress
    BY <1>15 DEF NewAddress, Event, Goto, EndCycle, outside, history, program, SavedFits
  <1>16. CASE Tamper
    BY <1>16 DEF Tamper, Event, Goto, EndCycle, outside, history, program, SavedFits
  <1>17. CASE Propagate
    BY <1>17 DEF Propagate, Goto, EndCycle, outside, history, program, SavedFits
  <1>18. CASE UNCHANGED vars
    BY <1>18 DEF vars, Goto, EndCycle, outside, history, program, SavedFits
  <1> QED BY <1>1, <1>2, <1>3, <1>4, <1>5, <1>6, <1>7, <1>8, <1>9, <1>10, <1>11, <1>12,
             <1>13, <1>14, <1>15, <1>16, <1>17, <1>18
         DEF Next, Cycle, Failure

\* What a quiet cycle has seen.
LEMMA QuietStep ==
  ASSUME DdnsInv, [Next]_vars
  PROVE  QuietFits'
  <1> USE DdnsConstantsAssumption DEF DdnsInv, TypeOK, QuietFits, CallbackFits, Azure
  <1>1. CASE Detect
    BY <1>1
       DEF Detect, DecideApi, DecideCallback, DriftDue, MaySuppress, Goto, EndCycle,
           outside, history, program, QuietFits
  <1>2. CASE ReadAnswered
    BY <1>2 DEF ReadAnswered, Goto, EndCycle, outside, history, program, QuietFits
  <1>3. CASE WriteAnswered
    BY <1>3 DEF WriteAnswered, Goto, EndCycle, outside, history, program, QuietFits
  <1>4. CASE FireAnswered
    BY <1>4 DEF FireAnswered, Written, Goto, EndCycle, outside, history, program, QuietFits
  <1>5. CASE Confirm
    BY <1>5 DEF Confirm, Goto, EndCycle, outside, history, program, QuietFits
  <1>6. CASE Suppress
    BY <1>6 DEF Suppress, Goto, EndCycle, outside, history, program, QuietFits
  <1>7. CASE Save
    BY <1>7 DEF Save, Goto, EndCycle, outside, history, program, QuietFits
  <1>8. CASE Wake
    BY <1>8 DEF Wake, Goto, EndCycle, outside, history, program, QuietFits
  <1>9. CASE CallFails
    BY <1>9 DEF CallFails, Written, Goto, EndCycle, outside, history, program, QuietFits
  <1>10. CASE ConfirmFails
    BY <1>10 DEF ConfirmFails, Goto, EndCycle, outside, history, program, QuietFits
  <1>11. CASE SteadyFails
    BY <1>11 DEF SteadyFails, Goto, EndCycle, outside, history, program, QuietFits
  <1>12. CASE SaveFails
    BY <1>12 DEF SaveFails, Goto, EndCycle, outside, history, program, QuietFits
  <1>13. CASE Start
    BY <1>13 DEF Start, Goto, EndCycle, outside, history, program, QuietFits
  <1>14. CASE Down
    BY <1>14 DEF Down, Event, Goto, EndCycle, outside, history, program, QuietFits
  <1>15. CASE NewAddress
    BY <1>15 DEF NewAddress, Event, Goto, EndCycle, outside, history, program, QuietFits
  <1>16. CASE Tamper
    BY <1>16 DEF Tamper, Event, Goto, EndCycle, outside, history, program, QuietFits
  <1>17. CASE Propagate
    BY <1>17 DEF Propagate, Goto, EndCycle, outside, history, program, QuietFits
  <1>18. CASE UNCHANGED vars
    BY <1>18 DEF vars, Goto, EndCycle, outside, history, program, QuietFits
  <1> QED BY <1>1, <1>2, <1>3, <1>4, <1>5, <1>6, <1>7, <1>8, <1>9, <1>10, <1>11, <1>12,
             <1>13, <1>14, <1>15, <1>16, <1>17, <1>18
         DEF Next, Cycle, Failure

\* The provider's kind is for good.
LEMMA CallbackStep ==
  ASSUME DdnsInv, [Next]_vars
  PROVE  CallbackFits'
  <1> USE DdnsConstantsAssumption DEF DdnsInv, TypeOK, CallbackFits, Azure
  <1>1. CASE Detect
    BY <1>1
       DEF Detect, DecideApi, DecideCallback, DriftDue, MaySuppress, Goto, EndCycle,
           outside, history, program, CallbackFits
  <1>2. CASE ReadAnswered
    BY <1>2 DEF ReadAnswered, Goto, EndCycle, outside, history, program, CallbackFits
  <1>3. CASE WriteAnswered
    BY <1>3 DEF WriteAnswered, Goto, EndCycle, outside, history, program, CallbackFits
  <1>4. CASE FireAnswered
    BY <1>4
       DEF FireAnswered, Written, Goto, EndCycle, outside, history, program, CallbackFits
  <1>5. CASE Confirm
    BY <1>5 DEF Confirm, Goto, EndCycle, outside, history, program, CallbackFits
  <1>6. CASE Suppress
    BY <1>6 DEF Suppress, Goto, EndCycle, outside, history, program, CallbackFits
  <1>7. CASE Save
    BY <1>7 DEF Save, Goto, EndCycle, outside, history, program, CallbackFits
  <1>8. CASE Wake
    BY <1>8 DEF Wake, Goto, EndCycle, outside, history, program, CallbackFits
  <1>9. CASE CallFails
    BY <1>9 DEF CallFails, Written, Goto, EndCycle, outside, history, program, CallbackFits
  <1>10. CASE ConfirmFails
    BY <1>10 DEF ConfirmFails, Goto, EndCycle, outside, history, program, CallbackFits
  <1>11. CASE SteadyFails
    BY <1>11 DEF SteadyFails, Goto, EndCycle, outside, history, program, CallbackFits
  <1>12. CASE SaveFails
    BY <1>12 DEF SaveFails, Goto, EndCycle, outside, history, program, CallbackFits
  <1>13. CASE Start
    BY <1>13 DEF Start, Goto, EndCycle, outside, history, program, CallbackFits
  <1>14. CASE Down
    BY <1>14 DEF Down, Event, Goto, EndCycle, outside, history, program, CallbackFits
  <1>15. CASE NewAddress
    BY <1>15 DEF NewAddress, Event, Goto, EndCycle, outside, history, program, CallbackFits
  <1>16. CASE Tamper
    BY <1>16 DEF Tamper, Event, Goto, EndCycle, outside, history, program, CallbackFits
  <1>17. CASE Propagate
    BY <1>17 DEF Propagate, Goto, EndCycle, outside, history, program, CallbackFits
  <1>18. CASE UNCHANGED vars
    BY <1>18 DEF vars, Goto, EndCycle, outside, history, program, CallbackFits
  <1> QED BY <1>1, <1>2, <1>3, <1>4, <1>5, <1>6, <1>7, <1>8, <1>9, <1>10, <1>11, <1>12,
             <1>13, <1>14, <1>15, <1>16, <1>17, <1>18
         DEF Next, Cycle, Failure

LEMMA DdnsInvStep == DdnsInv /\ [Next]_vars => DdnsInv'
  BY DdnsValuesStep, DdnsFlagsStep, DdnsCountersStep, SavedStep, QuietStep, CallbackStep
     DEF DdnsInv, TypeOK

\* Every variable of py-ddns keeps its type.
THEOREM DdnsTypeCorrect == Spec => []TypeOK
  <1>1. DdnsInv => TypeOK
    BY DEF DdnsInv
  <1> QED BY DdnsInitInv, DdnsInvStep, <1>1, PTL DEF Spec

\* A cycle of the API kind that writes nothing leaves the record at the address
\* it detected, unless the two were changed, lost or cut off apart
\* (updater.py: _cycle_api).
THEOREM QuietCyclesAreRight == Spec => []QuietIsRight
  <1>1. DdnsInv => QuietIsRight
    BY DEF DdnsInv, SavedFits, QuietFits, QuietIsRight
  <1> QED BY DdnsInitInv, DdnsInvStep, <1>1, PTL DEF Spec
=============================================================================
