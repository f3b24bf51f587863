----------------------------- MODULE MCAgentRegistry -----------------------------
(***************************************************************************)
(* Instances of AgentRegistry: two agents that share a capability and      *)
(* start with different trust; the network may score them alike.           *)
(***************************************************************************)
EXTENDS AgentRegistry

CONSTANTS billing, support, lookup, dispute, rasa, custom

MCCards ==
  {[agent_id |-> billing, platform |-> rasa,   capabilities |-> {lookup, dispute}, trust |-> 90],
   [agent_id |-> support, platform |-> custom, capabilities |-> {lookup},          trust |-> 70]}
=============================================================================
