---------------------------- MODULE MCPrograms ----------------------------
(***************************************************************************)
(* Values for TLC, and the three small programs in one run: wxverify's     *)
(* start, its process from there to its end, and py-ddns.  They share no   *)
(* state; a behaviour is one of `part`, the others at rest.                *)
(***************************************************************************)
EXTENDS DdnsUpdater, Startup, Lifespan

CONSTANTS a1, a2, none, main, poller, page, r1, r2

VARIABLE part

MCAddrs == {a1, a2}

MCLanes == {main, poller}

MCPages == {page}

MCConns == {r1, r2}

\* The file that an earlier release leaves: at its version, with a dropped
\* member's row or without, its daily close on or not.
Left(version, member, closes) ==
  [version |-> version, tables |-> TRUE, old |-> Rows, history |-> {}, removed |-> TRUE,
   unread |-> FALSE, record |-> TRUE, indexes |-> "old",
   value |-> [c \in Corrections |-> "seed"], member |-> member,
   keys |-> IF closes THEN {"daily_close_on"} ELSE {}, wedged |-> TRUE, sparse |-> TRUE]

MCOldFiles ==
  {Left(16, "on", TRUE), Left(16, "absent", TRUE), Left(16, "on", FALSE),
   Left(15, "on", TRUE), Left(18, "on", TRUE),
   [Left(16, "off", TRUE) EXCEPT !.unread = TRUE]}

allVars == <<part, vars, startupVars, lifeVars>>

ProgramsInit ==
  /\ part \in {"ddns", "start", "life"}
  /\ Init /\ StartupInit /\ LifeInit
  /\ part # "ddns" => /\ config = [provider |-> "azure", drift |-> FALSE]
                      /\ egress = a1 /\ record = a1 /\ saved = a1
  /\ part # "start" => file = Left(15, "on", TRUE)

ProgramsNext ==
  /\ UNCHANGED part
  /\ \/ part = "ddns" /\ Next /\ UNCHANGED <<startupVars, lifeVars>>
     \/ part = "start" /\ StartupNext /\ UNCHANGED <<vars, lifeVars>>
     \/ part = "life" /\ LifeNext /\ UNCHANGED <<vars, startupVars>>

ProgramsSpec ==
  /\ ProgramsInit /\ [][ProgramsNext]_allVars
  /\ WF_vars(part = "ddns" /\ Cycle) /\ WF_vars(part = "ddns" /\ Start)
  /\ WF_vars(part = "ddns" /\ Propagate)
  /\ SF_vars(part = "ddns" /\ Detect /\ (Azure => detected' # NoAddr))
  /\ WF_startupVars(part = "start" /\ StartupAdvances)
  /\ WF_startupVars(part = "start" /\ Interrupt)
  /\ WF_startupVars(part = "start" /\ StopProgress)
  /\ WF_startupVars(part = "start" /\ StopServing)
  /\ WF_lifeVars(part = "life" /\ Ending)

\* Every variable of the three holds values its program can have.
ProgramsTypeOK == TypeOK /\ StartupTypeOK /\ LifespanTypeOK
=============================================================================
