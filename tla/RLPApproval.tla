------------------------------- MODULE RLPApproval -------------------------------
(***************************************************************************)
(* Who calls an RLPSession: the pipeline tells of messages                 *)
(* (pact_bridge/core.py), pact-hh's thread of escalations and of what the  *)
(* human decided (README "Wiring with pact-hh").  Beside the session runs  *)
(* the ledger as it would be were the same events told one after another:  *)
(* a history that no step of the session reads.                            *)
(***************************************************************************)
EXTENDS RLPSession

CONSTANT Humans  \* the callers that are threads of pact-hh

HumanKinds == {"escalation_to_human", "hold", "escalate"}

VARIABLE serial  \* the ledger of the events told so far, one after another

approvalVars == <<vars, serial>>

ApprovalInit == Init /\ serial = InitLedger

Pipeline(c) ==
  /\ c \notin Humans
  /\ \E u \in Updates : u.kind \notin HumanKinds /\ BeginUpdate(c, u)
  /\ UNCHANGED serial

\* on_human_decision, and on_escalation_to_human when an escalation is opened.
Human(c) ==
  /\ c \in Humans
  /\ \/ \E u \in Updates : u.kind \in HumanKinds /\ BeginUpdate(c, u)
     \/ \E agreed \in BOOLEAN : BeginApproval(c, agreed)
  /\ UNCHANGED serial

ToldStep(c) ==
  /\ Step(c)
  /\ serial' = CASE pc[c] = "write"   -> Applied(update[c], serial)
                 [] pc[c] = "approve" -> ApprovedLedger
                 [] OTHER             -> serial

ApprovalNext == \E c \in Callers : Pipeline(c) \/ Human(c) \/ ToldStep(c)

ApprovalSpec == ApprovalInit /\ [][ApprovalNext]_approvalVars

-----------------------------------------------------------------------------
\* README "human approves -> gate releases", "only if the primitives actually
\* improved": when on_human_decision("approve") acknowledges the repair and the
\* approval, with every event told after it, leaves a healthy ledger, the gate opens.
ApprovalReleases ==
  [][\A c \in Callers :
       pc[c] = "acknowledge" /\ pc'[c] # "acknowledge" /\ ~Ruptured(serial) => rlp'.gate]_approvalVars
=============================================================================
