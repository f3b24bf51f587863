----------------------------- MODULE RLPEventsProofs -----------------------------
(***************************************************************************)
(* The ledger arithmetic of rlp_session.py and the gate of an instance,    *)
(* for every threshold and risk formula.                                   *)
(***************************************************************************)
EXTENDS RLPEvents, TLAPS

\* Clamping keeps a level a level.
LEMMA ClampedLevels ==
  ASSUME NEW level \in Level, NEW by \in Nat
  PROVE  Raised(level, by) \in Level /\ Lowered(level, by) \in Level
BY DEF Raised, Lowered, Level

\* _map_pact_ax_trust keeps a level a level, and never below 0.2.
LEMMA MappedTrust ==
  ASSUME NEW score \in Level
  PROVE  MapTrust(score) \in 20..100 /\ MapTrust(score) \in Level
BY DEF MapTrust, Level

\* Whatever event is applied to whatever ledger, the result is a ledger: no delta
\* of rlp_session.py leaves 0..1.
LEMMA AppliedType ==
  ASSUME NEW u \in Update, NEW l \in Ledger
  PROVE  Applied(u, l) \in Ledger
<1>1. CASE u.kind = "trust_evaluated"
  <2>1. u.arg \in Level
    BY <1>1 DEF Update, Scored, Unscored
  <2>2. QED
    BY <1>1, <2>1, MappedTrust DEF Applied, Ledger
<1>2. CASE u.kind = "intent_translated"
  <2>1. u.arg \in Level
    BY <1>2 DEF Update, Scored, Unscored
  <2>2. QED
    BY <1>2, <2>1, ClampedLevels DEF Applied, Ledger
<1>3. CASE u.kind = "consensus_reached"
  <2>1. u.arg \in Level
    BY <1>3 DEF Update, Scored, Unscored
  <2>2. QED
    BY <1>3, <2>1, ClampedLevels DEF Applied, Ledger
<1>4. CASE u.kind = "consensus_failed"
  BY <1>4, ClampedLevels DEF Applied, Ledger
<1>5. CASE u.kind = "escalation_to_human"
  BY <1>5, ClampedLevels DEF Applied, Ledger
<1>6. CASE u.kind = "hold"
  BY <1>6, ClampedLevels DEF Applied, Ledger
<1>7. CASE u.kind = "escalate"
  BY <1>7, ClampedLevels DEF Applied, Ledger
<1>8. CASE u.kind = "commitment_made"
  BY <1>8, ClampedLevels DEF Applied, Ledger
<1>9. CASE u.kind = "nudge"
  BY <1>9, ClampedLevels DEF Applied, Ledger
<1>10. QED
  BY <1>1, <1>2, <1>3, <1>4, <1>5, <1>6, <1>7, <1>8, <1>9
     DEF Update, Scored, Unscored

\* update_state and acknowledge_repair keep an instance an instance, and an
\* instance whose gate is open healthy.
LEMMA UpdateStateFacts ==
  ASSUME NEW r \in RLP0Instance, NEW l \in Ledger
  PROVE  /\ UpdateState(r, l) \in RLP0Instance
         /\ UpdateState(r, l).ledger = l
         /\ UpdateState(r, l).gate = (r.gate /\ ~Ruptured(l))
BY DEF UpdateState, RLP0Instance, Ruptured

LEMMA AcknowledgeFacts ==
  ASSUME NEW r \in RLP0Instance
  PROVE  /\ AcknowledgeRepair(r) \in RLP0Instance
         /\ AcknowledgeRepair(r).ledger = r.ledger
         /\ AcknowledgeRepair(r).gate = (r.gate \/ ~Ruptured(r.ledger))
BY DEF AcknowledgeRepair, RLP0Instance, Ruptured

LEMMA FreshInstance == NewRLP0 \in RLP0Instance /\ ApprovedLedger \in Ledger
BY LedgerAssumption DEF NewRLP0, RLP0Instance, ApprovedLedger, Ledger, Level
=============================================================================
