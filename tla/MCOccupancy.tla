---------------------------- MODULE MCOccupancy ----------------------------
(***************************************************************************)
(* The occupancy of agents by tickets and the turns of the agents, model-  *)
(* checked in one run: a behaviour is one of one of the two, chosen at the *)
(* start.                                                                  *)
(***************************************************************************)
EXTENDS TicketOccupancy

CONSTANTS N, Drains, MaxTurnChats, MaxReserved, MaxChanges

VARIABLES component, able, chats, last, log, turn, left, reserved, changes, passed,
          logged

Turns == INSTANCE AgentTurns WITH MaxChats <- MaxTurnChats

ASSUME MCOccupancyAssumption == Turns!TurnsAssumption

turnsVars == <<able, chats, last, log, turn, left, reserved, changes, passed, logged>>
occupancyVars == <<component, vars, turnsVars>>

OccupancyInit == component \in {"occupancy", "turns"} /\ Init /\ Turns!Init

OccupancyNext ==
    /\ UNCHANGED component
    /\ \/ component = "occupancy" /\ Next /\ UNCHANGED turnsVars
       \/ component = "turns" /\ Turns!Next /\ UNCHANGED vars

OccupancySpec == OccupancyInit /\ [][OccupancyNext]_occupancyVars

(* The property of AgentTurns, stated and commented there.                  *)
BoundedBypass == Turns!BoundedBypass
=============================================================================
