------------------------------ MODULE MCPACTBridge ------------------------------
(***************************************************************************)
(* Instances of PACTBridge: two agents, one direct intent (lookup, which   *)
(* "bill" translates to), one decided by consensus (refund), and a risk    *)
(* formula under which one trusted but wary message ruptures a session.    *)
(***************************************************************************)
EXTENDS PACTBridge, FiniteSetsExt, TLC

CONSTANTS billing, audit, bill, lookup, refund, mystery, rasa, custom, s1

MCCards ==
  {[agent_id |-> billing, platform |-> rasa,   capabilities |-> {lookup, refund}, trust |-> 90],
   [agent_id |-> audit,   platform |-> custom, capabilities |-> {refund},         trust |-> 60]}

MCRegistered ==
  <<CHOOSE c \in MCCards : c.agent_id = billing, CHOOSE c \in MCCards : c.agent_id = audit>>

MCTranslations(intent) ==
  CASE intent = bill -> {lookup} [] intent = mystery -> {NoIntent} [] OTHER -> {intent}

MCInitLedger == [trust |-> 80, intent |-> 80, narrative |-> 80, commitments |-> 80]

WorstRisk(l) == 100 - Min({l.trust, l.intent, l.narrative, l.commitments})

Message(trust, intent, platform, sid) ==
  [trust |-> trust, intent |-> intent, platform |-> platform, sid |-> sid]

\* Every way a message can go, one after the other in one conversation.
MCMessages ==
  {Message(90, bill, rasa, s1), Message(40, lookup, rasa, s1), Message(90, refund, rasa, s1),
   Message(90, mystery, rasa, s1), Message(10, bill, rasa, s1),
   Message(NoTrust, bill, rasa, s1), Message(90, lookup, NoPlatform, NoSid)}

\* What two threads handle at once, in one conversation: one agent's, with a trust no
\* TrustNetwork gives, a round's, and a message whose own trust ruptures the session.
MCConcurrentMessages ==
  {Message(150, bill, rasa, s1), Message(90, refund, custom, s1), Message(40, lookup, rasa, s1)}

Threads == Permutations(Calls)

MCReports == [kind: {"hold"}]
=============================================================================
