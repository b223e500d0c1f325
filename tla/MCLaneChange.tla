---------------------------- MODULE MCLaneChange ----------------------------
(***************************************************************************)
(* Message sets for the runs of LaneChange.                                *)
(***************************************************************************)
EXTENDS LaneChange

CONSTANTS p1, p2

State(id, lane, position, speed) ==
  [id |-> id, lane |-> lane, position |-> position, speed |-> speed]

\* Faster and slower cars in either lane, close by and out of reach, the own
\* echo and the ministry's board.
Traffic ==
  {State(p1, 1, 1, 50), State(p1, 3, 1, 20), State(p2, 2, 2, 50),
   State(MYSELF, 2, 1, 50), State(MOLIT, 1, 1, 50)}

=============================================================================
