----------------------------- MODULE Conversations -----------------------------
(***************************************************************************)
(* What a sender is promised by the session store, abstractly: an id names *)
(* one conversation, which grows by the turns spoken in it and loses none. *)
(* A conversation ends by being closed, or forgotten once it has lapsed,   *)
(* and never while somebody is in it; whoever enters finds it as it was    *)
(* left, or a new one.  SessionStore implements it for one caller.         *)
(***************************************************************************)
EXTENDS Sequences

CONSTANTS
  Ids,     \* the ids of conversations
  Agents,  \* who may speak
  Nobody   \* no id

VARIABLES
  conv,    \* id -> the turns of its conversation
  lapsed,  \* the ids whose conversation has been idle for the TTL
  in,      \* the id of the conversation the caller is in
  spoken   \* every turn ever spoken, in whichever conversation

convVars == <<conv, lapsed, in, spoken>>

ConvInit == conv = <<>> /\ lapsed = {} /\ in = Nobody /\ spoken = {}

Enter(s) ==
  /\ in = Nobody /\ in' = s
  /\ s \notin lapsed
  /\ conv' = [i \in DOMAIN conv \cup {s} |-> IF i \in DOMAIN conv THEN conv[i] ELSE <<>>]
  /\ UNCHANGED <<lapsed, spoken>>

Speak(agent) ==
  /\ in \in DOMAIN conv /\ in' = Nobody
  /\ conv' = [conv EXCEPT ![in] = Append(@, agent)]
  /\ \E turn \in spoken' : turn \notin spoken /\ spoken' = spoken \cup {turn}
  /\ lapsed' = lapsed \ {in}

\* Whoever is in a conversation keeps it from lapsing.
Stay ==
  /\ in \in DOMAIN conv
  /\ lapsed' = lapsed \ {in}
  /\ UNCHANGED <<conv, in, spoken>>

Leave ==
  /\ in # Nobody /\ in' = Nobody
  /\ UNCHANGED <<conv, lapsed, spoken>>

\* By close at any time, by expiry or collection once lapsed.
End(s) ==
  /\ in = Nobody /\ s \in DOMAIN conv
  /\ conv' = [i \in DOMAIN conv \ {s} |-> conv[i]]
  /\ lapsed' = lapsed \ {s}
  /\ UNCHANGED <<in, spoken>>

TimePasses ==
  /\ lapsed \subseteq lapsed' /\ lapsed' \subseteq DOMAIN conv
  /\ UNCHANGED <<conv, in, spoken>>

ConvNext ==
  \/ \E s \in Ids : Enter(s) \/ End(s)
  \/ (\E agent \in Agents : Speak(agent)) \/ Stay \/ Leave
  \/ TimePasses

ConvSpec == ConvInit /\ [][ConvNext]_convVars
=============================================================================
