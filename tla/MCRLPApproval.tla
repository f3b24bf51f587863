------------------------------ MODULE MCRLPApproval ------------------------------
(***************************************************************************)
(* An instance of RLPApproval: messages of low and of high trust, failed   *)
(* rounds, and what pact-hh reports; the risk is the mean.                 *)
(***************************************************************************)
EXTENDS RLPApproval

MCInitLedger == [trust |-> 80, intent |-> 80, narrative |-> 80, commitments |-> 80]

MeanRisk(l) == 100 - (l.trust + l.intent + l.narrative + l.commitments) \div 4

MCUpdates ==
  [kind: {"trust_evaluated"}, arg: {30, 90}] \cup
  [kind: {"consensus_failed", "hold", "escalate"}]
=============================================================================
