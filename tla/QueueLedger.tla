---------------------------- MODULE QueueLedger ----------------------------
(***************************************************************************)
(* What the job queue promises about each key, without rows, ids, clocks   *)
(* or processes: a key is absent, waiting or being run; it starts to run   *)
(* from waiting only, while nothing else of its lane runs; only a run ends *)
(* it or puts it back, unless it is withdrawn or was never readable.       *)
(* JobQueue implements it (JobQueue!LedgerSpec).                           *)
(***************************************************************************)

CONSTANTS
  Keys,   \* the keys work is queued under
  Lane,   \* the lane that runs each key
  Owner   \* whose work each key is

VARIABLE phase  \* "none", "waiting" or "running", by key

Init == phase \in [Keys -> {"none", "waiting", "running"}]

Move(S, to) == phase' = [k \in Keys |-> IF k \in S THEN to ELSE phase[k]]

Submit(k) == phase[k] = "none" /\ Move({k}, "waiting")

Begin(k) ==
  /\ phase[k] = "waiting"
  /\ \A j \in Keys : Lane[j] = Lane[k] => phase[j] # "running"
  /\ Move({k}, "running")

End(k)    == phase[k] = "running" /\ Move({k}, "none")
Again(k)  == phase[k] = "running" /\ Move({k}, "waiting")
Reject(k) == phase[k] = "waiting" /\ Move({k}, "none")

\* The owner is gone, and its work with it.
Withdraw(o) == Move({k \in Keys : Owner[k] = o}, "none")

\* After a process that stopped or died: what it was running waits again.
Recover == Move({k \in Keys : phase[k] = "running"}, "waiting")

Next ==
  \/ \E o \in {Owner[k] : k \in Keys} : Withdraw(o)
  \/ Recover
  \/ \E k \in Keys : Submit(k) \/ Begin(k) \/ End(k) \/ Again(k) \/ Reject(k)

Spec == Init /\ [][Next]_phase
=============================================================================
