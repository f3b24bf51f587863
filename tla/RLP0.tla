---------------------------------- MODULE RLP0 ----------------------------------
(***************************************************************************)
(* EXTERNAL: the rlp-0 package, modelled from how pact_bridge uses it      *)
(* (pact_bridge/rlp_session.py, README "Relational health tracking").     *)
(*                                                                         *)
(* An rlp-0 instance holds a ledger of four primitives and a gate.  The    *)
(* real primitives are floats in 0..1 and every delta in rlp_session.py    *)
(* is a multiple of 0.01, so a level is an integer number of hundredths.   *)
(* The risk formula is not in this repository: it is the parameter Risk,   *)
(* and everything proved holds for every Risk and every threshold.         *)
(***************************************************************************)
EXTENDS Integers

CONSTANTS
  Risk(_),          \* rupture risk of a ledger, in hundredths
  RuptureThreshold, \* BridgeConfig.rupture_threshold, in hundredths
  InitLedger        \* the primitives of a fresh RLP0 instance

Level == 0..100

Ledger == [trust: Level, intent: Level, narrative: Level, commitments: Level]

Ruptured(l) == Risk(l) >= RuptureThreshold

ASSUME LedgerAssumption == InitLedger \in Ledger /\ ~Ruptured(InitLedger)

\* An instance: the ledger and whether the gate is open.
RLP0Instance == [ledger: Ledger, gate: BOOLEAN]

NewRLP0 == [ledger |-> InitLedger, gate |-> TRUE]

\* Mutant of UpdateState: the gate follows the ledger instead of latching.
UpdateStateUnlatched(r, l) == [r EXCEPT !.ledger = l, !.gate = ~Ruptured(l)]

\* update_state(...): the gate is a latch, a rupture closes it and health alone
\* never reopens it.
UpdateState(r, l) == [ledger |-> l, gate |-> r.gate /\ ~Ruptured(l)]

\* acknowledge_repair(): releases the gate only if the ledger is healthy now.
AcknowledgeRepair(r) == [r EXCEPT !.gate = r.gate \/ ~Ruptured(r.ledger)]
=============================================================================
