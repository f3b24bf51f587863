----------------------------- MODULE MCIntentRouter -----------------------------
(***************************************************************************)
(* Instances of IntentRouter: an intent pact translates ("bill" means      *)
(* lookup) and one decided by consensus; agents of two platforms that      *)
(* share a capability.                                                     *)
(***************************************************************************)
EXTENDS IntentRouter

CONSTANTS billing, support, audit, bill, refund, lookup, rasa, custom

MCCards ==
  {[agent_id |-> billing, platform |-> rasa,   capabilities |-> {lookup, refund}, trust |-> 90],
   [agent_id |-> support, platform |-> custom, capabilities |-> {lookup, refund}, trust |-> 70],
   [agent_id |-> audit,   platform |-> rasa,   capabilities |-> {refund},         trust |-> 70]}

MCTranslations(intent) ==
  IF intent = bill THEN {lookup} ELSE {intent}

\* Messages that get as far as the candidates (MCPACTBridge has those that do not).
MCMessages == [trust: {80}, intent: {bill, refund}, platform: {custom}]
=============================================================================
