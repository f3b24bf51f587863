-------------------------------- MODULE RLPSession --------------------------------
(***************************************************************************)
(* One RLPSession (pact_bridge/rlp_session.py) and the threads that call   *)
(* it: the bridge pipeline, and pact-hh's escalation loop, which README    *)
(* ("Wiring with pact-hh") starts beside the bridge on the same rlp_store. *)
(* The class takes no lock.  Every handler but an approval reads the whole *)
(* ledger, and then writes the whole ledger back: the read and the write   *)
(* are two steps here, and anything may happen in between.  An approval    *)
(* is a write, an acknowledgement, and a further read and write.           *)
(* Without rlp-0 the session is a passthrough: it logs and lets all pass.  *)
(***************************************************************************)
EXTENDS RLPEvents

CONSTANTS
  Callers,   \* threads that may be inside a handler of this session
  Updates,   \* the events enumerated as inputs, a subset of Update
  MaxEvents  \* bound on _event_log, which the code never trims

ASSUME CallersAssumption == Updates \subseteq Update \ [kind: {"nudge"}]
ASSUME BoundAssumption == MaxEvents \in Nat

VARIABLES
  available, \* whether rlp-0 is installed: self._available
  rlp,      \* the RLP0 instance: self._rlp, never touched without rlp-0
  logged,   \* len(self._event_log)
  pc,       \* where each caller is
  update,   \* the event each caller is handling
  read,     \* the ledger each caller has read
  aligned   \* on_human_decision's agent_aligned argument

vars == <<available, rlp, logged, pc, update, read, aligned>>

Nudge == [kind |-> "nudge"]

TypeOK ==
  /\ available \in BOOLEAN
  /\ rlp \in RLP0Instance
  /\ logged \in 0..MaxEvents
  /\ pc \in [Callers -> {"idle", "write", "approve", "acknowledge", "reread"}]
  /\ update \in [Callers -> Update]
  /\ read \in [Callers -> Ledger]
  /\ aligned \in [Callers -> BOOLEAN]

Init ==
  /\ available \in BOOLEAN
  /\ rlp = NewRLP0
  /\ logged = 0
  /\ pc = [c \in Callers |-> "idle"]
  /\ update = [c \in Callers |-> Nudge]
  /\ read = [c \in Callers |-> InitLedger]
  /\ aligned = [c \in Callers |-> FALSE]

-----------------------------------------------------------------------------
\* _log, the first statement of every handler.
Log ==
  /\ logged < MaxEvents
  /\ logged' = logged + 1

\* gate_open() and rupture_risk() >= threshold, as the bridge asks.
GateOpen == available => rlp.gate
RuptureSeen == available /\ Ruptured(rlp.ledger)

\* A handler returns: its locals are forgotten.
Return(c) ==
  /\ pc' = [pc EXCEPT ![c] = "idle"]
  /\ update' = [update EXCEPT ![c] = Nudge]
  /\ read' = [read EXCEPT ![c] = InitLedger]
  /\ aligned' = [aligned EXCEPT ![c] = FALSE]

\* on_trust_evaluated ... on_commitment_made, and the hold and escalate branches
\* of on_human_decision: log, then s = self._rlp.state.
BeginUpdate(c, u) ==
  /\ available /\ pc[c] = "idle"
  /\ Log
  /\ update' = [update EXCEPT ![c] = u]
  /\ read' = [read EXCEPT ![c] = rlp.ledger]
  /\ pc' = [pc EXCEPT ![c] = "write"]
  /\ UNCHANGED <<available, rlp, aligned>>

\* self._rlp.update_state(...) computed from the ledger read before.
WriteBack(c) ==
  /\ pc[c] = "write"
  /\ rlp' = UpdateState(rlp, Applied(update[c], read[c]))
  /\ Return(c)
  /\ UNCHANGED <<available, logged>>

\* on_human_decision("approve", agent_aligned).
BeginApproval(c, agreed) ==
  /\ available /\ pc[c] = "idle"
  /\ Log
  /\ aligned' = [aligned EXCEPT ![c] = agreed]
  /\ pc' = [pc EXCEPT ![c] = "approve"]
  /\ UNCHANGED <<available, rlp, update, read>>

\* Mutant of WriteApproval: an approval starts over with a new RLP0 instance.
WriteApprovalAnew(c) ==
  /\ pc[c] = "approve"
  /\ rlp' = [ledger |-> ApprovedLedger, gate |-> TRUE]
  /\ pc' = [pc EXCEPT ![c] = "acknowledge"]
  /\ UNCHANGED <<available, logged, update, read, aligned>>

WriteApproval(c) ==
  /\ pc[c] = "approve"
  /\ rlp' = UpdateState(rlp, ApprovedLedger)
  /\ pc' = [pc EXCEPT ![c] = "acknowledge"]
  /\ UNCHANGED <<available, logged, update, read, aligned>>

\* self._rlp.acknowledge_repair(); agents that agreed with the human go on to a nudge.
Acknowledge(c) ==
  /\ pc[c] = "acknowledge"
  /\ rlp' = AcknowledgeRepair(rlp)
  /\ \/ /\ aligned[c]
        /\ pc' = [pc EXCEPT ![c] = "reread"]
        /\ UNCHANGED <<update, read, aligned>>
     \/ ~aligned[c] /\ Return(c)
  /\ UNCHANGED <<available, logged>>

\* s = self._rlp.state of the agent_aligned branch; WriteBack then adds the nudge.
Reread(c) ==
  /\ pc[c] = "reread"
  /\ update' = [update EXCEPT ![c] = Nudge]
  /\ read' = [read EXCEPT ![c] = rlp.ledger]
  /\ pc' = [pc EXCEPT ![c] = "write"]
  /\ UNCHANGED <<available, rlp, logged, aligned>>

\* Logged without effect: on_human_decision with a decision that is none of the
\* three, and without rlp-0 every event.
OtherDecision(c) ==
  /\ pc[c] = "idle"
  /\ Log
  /\ UNCHANGED <<available, rlp, pc, update, read, aligned>>

Step(c) == WriteBack(c) \/ WriteApproval(c) \/ Acknowledge(c) \/ Reread(c)

Next ==
  \E c \in Callers :
    \/ \E u \in Updates : BeginUpdate(c, u)
    \/ \E agreed \in BOOLEAN : BeginApproval(c, agreed)
    \/ OtherDecision(c)
    \/ Step(c)

Spec == Init /\ [][Next]_vars

-----------------------------------------------------------------------------
\* The session implements the promise of RepairGate: only the acknowledgement of
\* a human approval (on_human_decision) reopens the gate, and never while ruptured.
Gate == INSTANCE RepairGate WITH
  open      <- GateOpen,
  ruptured  <- RuptureSeen,
  approving <- {c \in Callers : pc[c] \in {"approve", "acknowledge"}}

ImplementsRepairGate == Gate!GateSpec
=============================================================================
