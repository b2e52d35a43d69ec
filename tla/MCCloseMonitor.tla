--------------------------- MODULE MCCloseMonitor ---------------------------
(* The close of MCCloseChain with the monitor's alerts read over it. *)
EXTENDS MCCloseChain, CloseMonitor
=============================================================================
