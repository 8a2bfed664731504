--------------------------- MODULE MCTripCommand ---------------------------
(***************************************************************************)
(* TripCommand for TLC.  A create and some events; which of them carry a   *)
(* command_id, and which share one, is in the .cfg.                        *)
(***************************************************************************)
EXTENDS TripCommand, TLC

CONSTANTS create, again, reroute, reroute2, ask, id1

\* "again", an edit that costs nothing, is sent under the id of "reroute".
OneId == [i \in Keyed |-> id1]

\* Trip ids are fresh UUIDs and the instances are alike.
Alike == Permutations(Trips) \cup Permutations(Workers)
=============================================================================
