------------------------------- MODULE MCRLPSession -------------------------------
(***************************************************************************)
(* Instances of RLPSession.  rlp-0's risk formula is not known here; the   *)
(* runs take the mean of the four primitives.                              *)
(***************************************************************************)
EXTENDS RLPSession

MCInitLedger == [trust |-> 80, intent |-> 80, narrative |-> 80, commitments |-> 80]

MeanRisk(l) == 100 - (l.trust + l.intent + l.narrative + l.commitments) \div 4

\* A low- and a high-trust message, a confident and a failed consensus round, and
\* what pact-hh reports.
MCUpdates ==
  [kind: {"trust_evaluated"}, arg: {30, 90}] \cup
  [kind: {"intent_translated"}, arg: {100}] \cup
  [kind: {"consensus_reached"}, arg: {60}] \cup
  [kind: {"consensus_failed", "escalation_to_human", "hold", "escalate", "commitment_made"}]
=============================================================================
