------------------------------- MODULE MCDays -------------------------------
(* Two programs that keep days, in one run: a wxverify site's day records,   *)
(* and py-syslog's files by UTC day.  They share no state; a behaviour is    *)
(* one of `part`, the other at rest.                                         *)
EXTENDS MCStationDays, SyslogWriter

VARIABLE part

DaysInit == part \in {"site", "log"} /\ Init /\ LogInit

DaysNext ==
  /\ UNCHANGED part
  /\ \/ part = "site" /\ Next /\ UNCHANGED logVars
     \/ part = "log" /\ LogNext /\ UNCHANGED vars

DaysSpec == DaysInit /\ [][DaysNext]_<<part, vars, logVars>>

\* Every variable of the two holds values its program can have.
DaysTypeOK == TypeOK /\ LogTypeOK
=============================================================================
