--------------------------- MODULE MCStationDays ---------------------------
(* Values for TLC. *)
EXTENDS StationDays

CONSTANTS s1, s2, west, mid, east

MCAhead == [z \in {west, mid, east} |-> CASE z = west -> 0 [] z = mid -> 1 [] z = east -> 2]

MCFirstLog == <<[station |-> s1, joins |-> TRUE, from |-> 0]>>
=============================================================================
