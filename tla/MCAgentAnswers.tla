----------------------------- MODULE MCAgentAnswers -----------------------------
(***************************************************************************)
(* An instance of AgentAnswers: one agent behind an endpoint, one that is  *)
(* called in process once its handler is registered and is a stub before,  *)
(* and messages for one of them or for both.                               *)
(***************************************************************************)
EXTENDS AgentAnswers

CONSTANTS billing, audit

Routing(consensus, candidates) == [consensus |-> consensus, candidates |-> candidates]

MCRoutings == {Routing(FALSE, <<billing>>), Routing(TRUE, <<billing, audit>>)}
=============================================================================
