--------------------------- MODULE MCDdnsUpdater ---------------------------
(* Values for TLC: model values for the addresses. *)
EXTENDS DdnsUpdater

CONSTANTS a1, a2, none
MCAddrs == {a1, a2}
=============================================================================
