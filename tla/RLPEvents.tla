-------------------------------- MODULE RLPEvents --------------------------------
(***************************************************************************)
(* The arithmetic of RLPSession (pact_bridge/rlp_session.py): what each    *)
(* pipeline event does to the rlp-0 ledger it has read.  Pure operators,   *)
(* shared by RLPSession (one session, read and write apart) and by         *)
(* PACTBridge (many sessions).                                             *)
(***************************************************************************)
EXTENDS RLP0

\* Mutant of Raised: the min(1.0, ...) is forgotten.
RaisedUnclamped(level, by) == level + by
Raised(level, by)  == IF level + by > 100 THEN 100 ELSE level + by
\* Mutant of Lowered: the max(0.0, ...) is forgotten.
LoweredUnclamped(level, by) == level - by
Lowered(level, by) == IF level - by < 0 THEN 0 ELSE level - by

\* _map_pact_ax_trust: 0.2 + 0.8 * score, so one reading never bottoms trust out.
MapTrust(score) == 20 + (4 * score) \div 5

\* The updates that read the ledger, change part of it and write all of it back.
Scored   == [kind: {"trust_evaluated", "intent_translated", "consensus_reached"},
             arg: Level]
Unscored == [kind: {"consensus_failed", "escalation_to_human", "hold", "escalate",
                    "commitment_made", "nudge"}]
Update   == Scored \cup Unscored

\* The ledger each handler writes back, given the ledger l it read.
Applied(u, l) ==
  CASE u.kind = "trust_evaluated" ->
         [l EXCEPT !.trust = MapTrust(u.arg)]
    [] u.kind = "intent_translated" ->
         [l EXCEPT !.intent = u.arg, !.narrative = Raised(@, 5)]
    [] u.kind = "consensus_reached" ->
         [l EXCEPT !.trust = Raised(@, 5), !.intent = u.arg, !.narrative = Raised(@, 10)]
    [] u.kind = "consensus_failed" ->
         [l EXCEPT !.intent = Lowered(@, 20), !.narrative = Lowered(@, 15)]
    [] u.kind = "escalation_to_human" ->
         [l EXCEPT !.trust = Lowered(@, 10), !.intent = Lowered(@, 10)]
    [] u.kind = "hold" ->
         [l EXCEPT !.trust = Lowered(@, 10), !.intent = Lowered(@, 15)]
    [] u.kind = "escalate" ->
         [l EXCEPT !.trust = Lowered(@, 20), !.intent = Lowered(@, 20),
                   !.narrative = Lowered(@, 10)]
    [] u.kind = "commitment_made" ->
         [l EXCEPT !.commitments = Raised(@, 10)]
    [] u.kind = "nudge" ->
         [l EXCEPT !.trust = Raised(@, 2)]

\* The ledger a human approval writes, whatever was there before.
ApprovedLedger ==
  [trust |-> 80, intent |-> 85, narrative |-> 80, commitments |-> 85]
=============================================================================
