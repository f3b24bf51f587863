-------------------------------- MODULE RepairGate --------------------------------
(***************************************************************************)
(* What the relational gate of one session promises, whatever the ledger   *)
(* is made of (README "Relational health tracking"): a rupture closes it,  *)
(* and only the repair a human approved reopens it, and only while the     *)
(* ledger is healthy -- "no unconditional release".                        *)
(***************************************************************************)
CONSTANT Callers

VARIABLES
  open,      \* may interaction proceed
  ruptured,  \* does the ledger show a rupture
  approving  \* callers carrying a human approval that is not yet acknowledged

gateVars == <<open, ruptured, approving>>

GateInit == open = TRUE /\ ruptured = FALSE /\ approving = {}

\* New relational evidence of any kind: it can close the gate, never open it.
Assess ==
  /\ ruptured' \in BOOLEAN
  /\ open' = (open /\ ~ruptured')
  /\ UNCHANGED approving

Approve(c) ==
  /\ c \notin approving
  /\ approving' = approving \cup {c}
  /\ UNCHANGED <<open, ruptured>>

\* The approval is acknowledged: the one step that may open a closed gate.
Acknowledged(c) ==
  /\ c \in approving
  /\ approving' = approving \ {c}
  /\ open' = (open \/ ~ruptured)
  /\ UNCHANGED ruptured

GateNext == Assess \/ \E c \in Callers : Approve(c) \/ Acknowledged(c)

GateSpec == GateInit /\ [][GateNext]_gateVars
=============================================================================
