----------------------------- MODULE SessionEntries -----------------------------
(***************************************************************************)
(* What the operations of SessionStore and Session                        *)
(* (pact_bridge/session_store.py) do to the session objects and to the     *)
(* store's dict.  Pure operators, shared by SessionStore (one store and    *)
(* the threads inside it) and by PACTBridge (the whole pipeline).          *)
(*                                                                         *)
(* A Session is an object others keep a reference to: it lives on a heap   *)
(* (a sequence) and outlives its entry in the dict.  A turn is abstracted  *)
(* to the agent that served it; idle is the age since last_active.         *)
(***************************************************************************)
EXTENDS Integers, Sequences

CONSTANT SessionTTL  \* session_ttl_minutes, in ticks

ASSUME SessionTTLAssumption == SessionTTL \in Nat

NewSession(sid) == [sid |-> sid, turns |-> <<>>, idle |-> 0]

\* get_or_create resumes while age < ttl, and gc collects from age >= ttl on.
Expired(session) == session.idle >= SessionTTL

Touched(session) == [session EXCEPT !.idle = 0]

\* record_turn; current_agent, last_agent and turn_count are the last turn's agent
\* and the number of turns.
Recorded(session, agent) ==
  [session EXCEPT !.turns = Append(@, agent), !.idle = 0]

\* A tick passes; beyond the TTL every age is alike.
Older(session) ==
  [session EXCEPT !.idle = IF @ > SessionTTL THEN @ ELSE @ + 1]

\* self._sessions[sid] = object o, and del self._sessions[sid].
Entry(dict, sid, o) ==
  [s \in DOMAIN dict \cup {sid} |-> IF s = sid THEN o ELSE dict[s]]
Without(dict, sids) == [s \in DOMAIN dict \ sids |-> dict[s]]
=============================================================================
