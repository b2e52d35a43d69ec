-------------------------- MODULE MCSyslogWriter --------------------------
(* SyslogWriter with the values of its .cfg file; nothing is redefined. *)
EXTENDS SyslogWriter
=============================================================================
