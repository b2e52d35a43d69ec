---------------------------- MODULE DdnsUpdater ----------------------------
(***************************************************************************)
(* py-ddns: the loop that keeps one A record at the box's own address, for *)
(* both kinds of provider, with the bounded retries of its calls, the      *)
(* address it saves, and a stop or a death anywhere.                       *)
(*                                                                         *)
(* Sources: pyddns/updater.py (the cycles), state.py (the saved address),  *)
(* providers/azure.py and url.py (a call's outcomes), resolver.py,         *)
(* ipsource.py.  The record, the name servers' caches and the box's        *)
(* address are outside the program and change under it.                    *)
(*                                                                         *)
(* One action per call over the network or write of the file; what the     *)
(* code computes between two of them belongs to the first.                 *)
(***************************************************************************)
EXTENDS Integers

CONSTANTS
  Addrs,           \* the addresses the box may have
  NoAddr,          \* None: no record, nothing saved, nothing detected
  DriftCycles,     \* drift_reconcile_seconds, in cycles, when it is not 0
  Attempts,        \* MAX_ATTEMPTS
  ConfirmRetries,  \* _CONFIRM_RETRIES
  MaxEvents        \* bound: changes of the address, changes of the record by
                   \* others, and ends of the process, together

ASSUME DdnsConstantsAssumption ==
  /\ NoAddr \notin Addrs
  /\ DriftCycles \in Nat \ {0}
  /\ Attempts \in Nat \ {0}
  /\ ConfirmRetries \in Nat
  /\ MaxEvents \in Nat

VARIABLES
  config,    \* the provider's kind and whether the drift check is on
  egress,    \* the box's address
  record,    \* the A record's value at the provider
  cached,    \* what a query of the name is answered
  saved,     \* the state file's address
  pc,        \* the process: down, or the step its cycle has reached
  first,     \* _first_cycle
  age,       \* cycles since _last_drift, at most DriftCycles
  detected,  \* the address this cycle detected
  tries,     \* attempts of the present call, or confirmations, so far
  toSave,    \* the address the cycle is about to save
  quiet,     \* history: the last cycle ended on the saved address alone
  asserted,  \* history: this process has written the record or read it right
  apart,     \* history: the record or the file was changed without the other
  events     \* how many bounded events so far

outside == <<egress, record, cached>>
history == <<quiet, asserted, apart>>
vars == <<config, outside, saved, pc, first, age, detected, tries, toSave,
          history, events>>

Value == Addrs \cup {NoAddr}

Azure == config.provider = "azure"

-----------------------------------------------------------------------------
(* One cycle.                                                              *)

\* Mutant of DriftDue: the check never comes.
DriftNever == FALSE

\* _drift_due.
DriftDue == config.drift /\ age >= DriftCycles

\* run_once's finally clause and the interval's sleep.
EndCycle == pc' = "sleep" /\ first' = FALSE

Goto(step) == pc' = step /\ tries' = 0 /\ UNCHANGED first

\* Mutant of DecideApi: the cycle ends on any saved address.
DecideApiAnySaved(d) ==
  \/ /\ d = NoAddr
     /\ EndCycle /\ quiet' = FALSE /\ UNCHANGED tries
  \/ /\ d # NoAddr /\ (first \/ DriftDue)
     /\ Goto("read") /\ quiet' = FALSE
  \/ /\ d # NoAddr /\ ~(first \/ DriftDue) /\ saved # NoAddr
     /\ EndCycle /\ quiet' = TRUE /\ UNCHANGED tries
  \/ /\ d # NoAddr /\ ~(first \/ DriftDue) /\ saved = NoAddr
     /\ Goto("apply") /\ quiet' = FALSE

\* _cycle_api up to its first call of the provider: no address, an authoritative
\* read, nothing changed since the saved address, or a write.
DecideApi(d) ==
  \/ /\ d = NoAddr
     /\ EndCycle /\ quiet' = FALSE /\ UNCHANGED tries
  \/ /\ d # NoAddr /\ (first \/ DriftDue)
     /\ Goto("read") /\ quiet' = FALSE
  \/ /\ d # NoAddr /\ ~(first \/ DriftDue) /\ saved = d
     /\ EndCycle /\ quiet' = TRUE /\ UNCHANGED tries
  \/ /\ d # NoAddr /\ ~(first \/ DriftDue) /\ saved # d
     /\ Goto("apply") /\ quiet' = FALSE

\* _cycle_callback's reason to look before it fires.
MaySuppress(d) ==
  ~first /\ ~DriftDue /\ saved # NoAddr /\ d \in {NoAddr, saved}

DecideCallback(d) ==
  /\ Goto(IF MaySuppress(d) THEN "steady" ELSE "apply")
  /\ quiet' = FALSE

\* detect: the first source that answers with a global address, else None.  The
\* callback's drift check counts from here, the other's from its read.
Detect ==
  /\ pc = "idle"
  /\ \E d \in {egress, NoAddr} :
       /\ detected' = d
       /\ IF Azure THEN DecideApi(d) ELSE DecideCallback(d)
  /\ age' = IF ~Azure /\ DriftDue THEN 0 ELSE age
  /\ UNCHANGED <<config, outside, saved, toSave, asserted, apart, events>>

\* read_current answered, a 404 as None.
ReadAnswered ==
  /\ pc = "read"
  /\ age' = 0
  /\ IF record = detected
       THEN Goto("save") /\ toSave' = detected /\ asserted' = TRUE /\ apart' = FALSE
       ELSE Goto("apply") /\ UNCHANGED <<toSave, asserted, apart>>
  /\ UNCHANGED <<config, outside, saved, detected, quiet, events>>

\* apply answered 2xx by the API: the record is replaced.
WriteAnswered ==
  /\ pc = "apply" /\ Azure
  /\ record' = detected
  /\ Goto("save") /\ toSave' = detected
  /\ asserted' = TRUE /\ apart' = FALSE
  /\ UNCHANGED <<config, egress, cached, saved, age, detected, quiet, events>>

\* What an apply may make of the record: the address put, or for a callback the
\* request's own address or the myip sent with it.
Written == IF Azure THEN {detected} ELSE {egress} \cup ({detected} \ {NoAddr})

\* The callback answered 2xx: the server has set the record, or not yet.
FireAnswered ==
  /\ pc = "apply" /\ ~Azure
  /\ record' \in {record} \cup Written
  /\ Goto("confirm")
  /\ asserted' = TRUE
  /\ UNCHANGED <<config, egress, cached, saved, age, detected, toSave, quiet,
                 apart, events>>

\* RetryRunner.run: a transient failure is tried again, up to Attempts; a
\* terminal one, or the last, ends the cycle.  A request that changed the record
\* may have lost its answer.
CallFails ==
  /\ pc \in {"read", "apply"}
  /\ record' \in IF pc = "read" THEN {record} ELSE {record} \cup Written
  /\ apart' = (apart \/ record' # record)
  /\ \/ /\ tries + 1 < Attempts
        /\ tries' = tries + 1
        /\ UNCHANGED <<pc, first>>
     \/ EndCycle /\ tries' = 0
  /\ UNCHANGED <<config, egress, cached, saved, age, detected, toSave, quiet,
                 asserted, events>>

\* The post-fire resolve: any value is the confirmed one, no record is
\* unconfirmed, a failed query is asked again up to ConfirmRetries.
Confirm ==
  /\ pc = "confirm"
  /\ \/ /\ cached # NoAddr
        /\ Goto("save") /\ toSave' = cached
     \/ /\ cached = NoAddr
        /\ EndCycle /\ UNCHANGED <<tries, toSave>>
  /\ UNCHANGED <<config, outside, saved, age, detected, history, events>>

ConfirmFails ==
  /\ pc = "confirm"
  /\ \/ /\ tries < ConfirmRetries
        /\ tries' = tries + 1
        /\ UNCHANGED <<pc, first>>
     \/ /\ tries = ConfirmRetries
        /\ EndCycle /\ UNCHANGED tries
  /\ UNCHANGED <<config, outside, saved, age, detected, toSave, history, events>>

\* The name still resolves to the saved address: nothing is fired.
Suppress ==
  /\ pc = "steady"
  /\ \/ /\ cached = saved
        /\ EndCycle /\ quiet' = TRUE /\ UNCHANGED tries
     \/ /\ cached # saved
        /\ Goto("apply") /\ UNCHANGED quiet
  /\ UNCHANGED <<config, outside, saved, age, detected, toSave, asserted, apart, events>>

SteadyFails ==
  /\ pc = "steady"
  /\ Goto("apply")
  /\ UNCHANGED <<config, outside, saved, age, detected, toSave, history, events>>

\* FileState.write: the file replaced.
Save ==
  /\ pc = "save"
  /\ saved' = toSave
  /\ EndCycle
  /\ UNCHANGED <<config, outside, age, detected, tries, toSave, history, events>>

\* The write raises and run_once's backstop ends the cycle.
SaveFails ==
  /\ pc = "save"
  /\ EndCycle
  /\ apart' = TRUE
  /\ UNCHANGED <<config, outside, saved, age, detected, tries, toSave, quiet,
                 asserted, events>>

\* The interval is over.
Wake ==
  /\ pc = "sleep"
  /\ pc' = "idle"
  /\ age' = IF config.drift /\ age < DriftCycles THEN age + 1 ELSE age
  /\ UNCHANGED <<config, outside, saved, first, detected, tries, toSave, history, events>>

-----------------------------------------------------------------------------
(* Stops, deaths, and the world outside.                                   *)

Event == events < MaxEvents /\ events' = events + 1

\* The process ends: a stop in one of its sleeps, or a death anywhere.
Down ==
  /\ pc # "down"
  /\ Event
  /\ pc' = "down"
  /\ apart' = (apart \/ pc = "save")
  /\ UNCHANGED <<config, outside, saved, first, age, detected, tries, toSave,
                 quiet, asserted>>

\* The supervisor starts it again: Updater.__init__.
Start ==
  /\ pc = "down"
  /\ pc' = "idle"
  /\ first' = TRUE /\ age' = 0
  /\ detected' = NoAddr /\ tries' = 0 /\ toSave' = NoAddr
  /\ quiet' = FALSE /\ asserted' = FALSE
  /\ UNCHANGED <<config, outside, saved, apart, events>>

program == <<config, saved, pc, first, age, detected, tries, toSave, quiet, asserted>>

NewAddress ==
  /\ Event
  /\ \E a \in Addrs \ {egress} : egress' = a
  /\ UNCHANGED <<program, record, cached, apart>>

\* Somebody else sets or removes the record.
Tamper ==
  /\ Event
  /\ \E v \in Value \ {record} : record' = v
  /\ apart' = TRUE
  /\ UNCHANGED <<program, egress, cached>>

\* The name servers take the record's value.
Propagate ==
  /\ cached # record
  /\ cached' = record
  /\ UNCHANGED <<program, egress, record, apart, events>>

Init ==
  /\ config \in [provider : {"azure", "url"}, drift : BOOLEAN]
  /\ egress \in Addrs /\ record \in Value /\ cached = record
  /\ saved \in Value
  /\ pc = "down" /\ first = TRUE /\ age = 0
  /\ detected = NoAddr /\ tries = 0 /\ toSave = NoAddr
  /\ quiet = FALSE /\ asserted = FALSE
  /\ apart = (saved # record)
  /\ events = 0

Failure == CallFails \/ ConfirmFails \/ SteadyFails \/ SaveFails

Cycle ==
  \/ Detect \/ ReadAnswered \/ WriteAnswered \/ FireAnswered
  \/ Confirm \/ Suppress \/ Save \/ Wake \/ Failure

Next == Cycle \/ Start \/ Down \/ NewAddress \/ Tamper \/ Propagate

Spec == Init /\ [][Next]_vars

\* The loop goes on, the supervisor restarts it, the caches run out, and the
\* sources of the API kind do not fail for ever.
FairSpec ==
  /\ Spec
  /\ WF_vars(Cycle) /\ WF_vars(Start) /\ WF_vars(Propagate)
  /\ SF_vars(Detect /\ (Azure => detected' # NoAddr))

-----------------------------------------------------------------------------
(* Properties.                                                             *)

\* Every variable holds values the program can have.
TypeOK ==
  /\ config \in [provider : {"azure", "url"}, drift : BOOLEAN]
  /\ egress \in Addrs /\ {record, cached, saved, detected, toSave} \subseteq Value
  /\ pc \in {"down", "idle", "read", "apply", "save", "confirm", "steady", "sleep"}
  /\ {first, quiet, asserted, apart} \subseteq BOOLEAN
  /\ age \in 0..DriftCycles
  /\ tries \in 0..(Attempts + ConfirmRetries)
  /\ events \in 0..MaxEvents

\* A cycle of the API kind that writes nothing because nothing changed leaves
\* the record at the address detected, unless somebody else changed the record,
\* an answer was lost, or the file's write did not happen.
QuietIsRight ==
  Azure /\ pc = "sleep" /\ quiet /\ ~apart => record = detected

\* With the drift check on, once calls answer again and do what they say the
\* record comes to the box's address and stays, whatever was changed, lost or
\* cut off before, and with an address source that never answers when the
\* server takes the address itself.
RecordFollows ==
  (/\ config.drift
   /\ <>[][~Failure /\ (FireAnswered => record' = egress)]_vars)
    => <>[](record = egress)

\* README.md, "First cycle is authoritative": on startup the real record is read
\* regardless of the saved address, so no process rests on the saved address
\* over a record that differs before it has read the record right or written it.
StartupSelfHeal ==
  Azure /\ pc = "sleep" /\ quiet => asserted \/ record = detected
=============================================================================
