----------------------------- MODULE RLPSessionProofs -----------------------------
(***************************************************************************)
(* RLPSession for every set of callers, every input set, every bound and   *)
(* every risk formula: its types, and its refinement of RepairGate.        *)
(***************************************************************************)
EXTENDS RLPSession, RLPEventsProofs

LEMMA NudgeIsUpdate == Nudge \in Update
BY DEF Nudge, Update, Unscored

-----------------------------------------------------------------------------
\* Every step of every handler keeps the types: whatever stale ledger a caller
\* writes back, the session's primitives stay between 0 and 1.
LEMMA TypeStep == TypeOK /\ [Next]_vars => TypeOK'
<1> SUFFICES ASSUME TypeOK, [Next]_vars
             PROVE  TypeOK'
  OBVIOUS
<1> USE CallersAssumption, BoundAssumption, NudgeIsUpdate, FreshInstance DEF TypeOK
<1>1. ASSUME NEW c \in Callers, NEW u \in Updates, BeginUpdate(c, u)
      PROVE  TypeOK'
  <2>1. u \in Update
    BY <1>1
  <2>2. rlp.ledger \in Ledger
    BY DEF RLP0Instance
  <2>3. logged' \in 0..MaxEvents
    BY <1>1 DEF BeginUpdate, Log
  <2>4. QED
    BY <1>1, <2>1, <2>2, <2>3 DEF BeginUpdate
<1>2. ASSUME NEW c \in Callers, WriteBack(c)
      PROVE  TypeOK'
  <2>1. Applied(update[c], read[c]) \in Ledger
    BY AppliedType
  <2>2. rlp' \in RLP0Instance
    BY <1>2, <2>1, UpdateStateFacts DEF WriteBack
  <2>3. InitLedger \in Ledger
    BY LedgerAssumption
  <2>4. QED
    BY <1>2, <2>2, <2>3 DEF WriteBack, Return
<1>3. ASSUME NEW c \in Callers, NEW agreed \in BOOLEAN, BeginApproval(c, agreed)
      PROVE  TypeOK'
  <2>1. logged' \in 0..MaxEvents
    BY <1>3 DEF BeginApproval, Log
  <2>2. QED
    BY <1>3, <2>1 DEF BeginApproval
<1>4. ASSUME NEW c \in Callers, WriteApproval(c)
      PROVE  TypeOK'
  <2>1. rlp' \in RLP0Instance
    BY <1>4, UpdateStateFacts DEF WriteApproval
  <2>2. QED
    BY <1>4, <2>1 DEF WriteApproval
<1>5. ASSUME NEW c \in Callers, Acknowledge(c)
      PROVE  TypeOK'
  <2>1. rlp' \in RLP0Instance
    BY <1>5, AcknowledgeFacts DEF Acknowledge
  <2>2. InitLedger \in Ledger
    BY LedgerAssumption
  <2>3. QED
    BY <1>5, <2>1, <2>2 DEF Acknowledge, Return
<1>6. ASSUME NEW c \in Callers, Reread(c)
      PROVE  TypeOK'
  <2>1. rlp.ledger \in Ledger
    BY DEF RLP0Instance
  <2>2. QED
    BY <1>6, <2>1 DEF Reread
<1>7. ASSUME NEW c \in Callers, OtherDecision(c)
      PROVE  TypeOK'
  <2>1. logged' \in 0..MaxEvents
    BY <1>7 DEF OtherDecision, Log
  <2>2. QED
    BY <1>7, <2>1 DEF OtherDecision
<1>8. CASE UNCHANGED vars
  BY <1>8 DEF vars
<1>9. QED
  BY <1>1, <1>2, <1>3, <1>4, <1>5, <1>6, <1>7, <1>8 DEF Next, Step

LEMMA TypeInit == Init => TypeOK
BY LedgerAssumption, BoundAssumption, NudgeIsUpdate, FreshInstance DEF Init, TypeOK

\* Type correctness of the session.
THEOREM TypeCorrect == Spec => []TypeOK
BY TypeInit, TypeStep, PTL DEF Spec

-----------------------------------------------------------------------------
Approving == {c \in Callers : pc[c] \in {"approve", "acknowledge"}}

\* One step of the session is one step of RepairGate, or none.
LEMMA GateStep ==
  TypeOK /\ [Next]_vars => [Gate!GateNext]_(Gate!gateVars)
<1> SUFFICES ASSUME TypeOK, [Next]_vars
             PROVE  Gate!GateNext \/ UNCHANGED Gate!gateVars
  BY DEF Gate!gateVars
<1> USE DEF TypeOK
<1>1. ASSUME NEW c \in Callers, NEW u \in Updates, BeginUpdate(c, u)
      PROVE  UNCHANGED Gate!gateVars
  <2>1. Approving' = Approving
    BY <1>1 DEF BeginUpdate, Approving
  <2>2. QED
    BY <1>1, <2>1 DEF BeginUpdate, Gate!gateVars, Approving, GateOpen, RuptureSeen, Ruptured
<1>2. ASSUME NEW c \in Callers, WriteBack(c)
      PROVE  Gate!Assess
  <2>1. Approving' = Approving
    BY <1>2 DEF WriteBack, Return, Approving
  <2>2. Applied(update[c], read[c]) \in Ledger
    BY AppliedType
  <2>3. rlp'.gate = (rlp.gate /\ ~Ruptured(rlp'.ledger))
    BY <1>2, <2>2, UpdateStateFacts DEF WriteBack
  <2>4. available' = available
    BY <1>2 DEF WriteBack
  <2>5. QED
    BY <2>1, <2>3, <2>4 DEF Gate!Assess, Approving, GateOpen, RuptureSeen, Ruptured
<1>3. ASSUME NEW c \in Callers, NEW agreed \in BOOLEAN, BeginApproval(c, agreed)
      PROVE  Gate!Approve(c)
  <2>1. c \notin Approving /\ Approving' = Approving \cup {c}
    BY <1>3 DEF BeginApproval, Approving
  <2>2. QED
    BY <1>3, <2>1 DEF BeginApproval, Gate!Approve, Approving, GateOpen, RuptureSeen, Ruptured
<1>4. ASSUME NEW c \in Callers, WriteApproval(c)
      PROVE  Gate!Assess
  <2>1. Approving' = Approving
    BY <1>4 DEF WriteApproval, Approving
  <2>2. rlp'.gate = (rlp.gate /\ ~Ruptured(rlp'.ledger))
    BY <1>4, FreshInstance, UpdateStateFacts DEF WriteApproval
  <2>3. available' = available
    BY <1>4 DEF WriteApproval
  <2>4. QED
    BY <2>1, <2>2, <2>3 DEF Gate!Assess, Approving, GateOpen, RuptureSeen, Ruptured
<1>5. ASSUME NEW c \in Callers, Acknowledge(c)
      PROVE  Gate!Acknowledged(c)
  <2>1. c \in Approving /\ Approving' = Approving \ {c}
    BY <1>5 DEF Acknowledge, Return, Approving
  <2>2. rlp'.ledger = rlp.ledger /\ rlp'.gate = (rlp.gate \/ ~Ruptured(rlp.ledger))
    BY <1>5, AcknowledgeFacts DEF Acknowledge
  <2>3. available' = available
    BY <1>5 DEF Acknowledge
  <2>4. QED
    BY <2>1, <2>2, <2>3 DEF Gate!Acknowledged, Approving, GateOpen, RuptureSeen, Ruptured
<1>6. ASSUME NEW c \in Callers, Reread(c)
      PROVE  UNCHANGED Gate!gateVars
  <2>1. Approving' = Approving
    BY <1>6 DEF Reread, Approving
  <2>2. QED
    BY <1>6, <2>1 DEF Reread, Gate!gateVars, Approving, GateOpen, RuptureSeen, Ruptured
<1>7. ASSUME NEW c \in Callers, OtherDecision(c)
      PROVE  UNCHANGED Gate!gateVars
  BY <1>7 DEF OtherDecision, Gate!gateVars, GateOpen, RuptureSeen, Ruptured
<1>8. CASE UNCHANGED vars
  BY <1>8 DEF vars, Gate!gateVars, GateOpen, RuptureSeen, Ruptured
<1>9. QED
  BY <1>1, <1>2, <1>3, <1>4, <1>5, <1>6, <1>7, <1>8 DEF Next, Step, Gate!GateNext

\* The session, with its read-modify-write races, implements the promise of
\* RepairGate: nothing but the acknowledgement of a human approval reopens the
\* gate, and no acknowledgement opens it on a ruptured ledger.
THEOREM SessionImplementsRepairGate == Spec => ImplementsRepairGate
<1>1. Init => Gate!GateInit
  BY LedgerAssumption DEF Init, Gate!GateInit, GateOpen, RuptureSeen, NewRLP0, Ruptured
<1>2. QED
  BY <1>1, GateStep, TypeCorrect, PTL DEF Spec, ImplementsRepairGate, Gate!GateSpec
=============================================================================
