------------------------------ MODULE AgentRegistry ------------------------------
(***************************************************************************)
(* AgentRegistry and AgentCard (pact_bridge/agent_registry.py).            *)
(*                                                                         *)
(* The registry maps agent ids to AgentCard objects, in the order of a     *)
(* Python dict.  Others hold references to the cards (a RoutingDecision    *)
(* does), and update_trust changes a card in place while register replaces *)
(* it: so cards are objects on a heap, named by their position, and the    *)
(* dict is the sequence of the registered objects.  Trust is in hundredths *)
(* and time passes in ticks.                                               *)
(***************************************************************************)
EXTENDS Lists

CONSTANTS
  Cards,        \* the AgentCards an agent may construct
  HeartbeatTTL, \* heartbeat_ttl_seconds, in ticks; 0 disables expiry
  Scores,       \* the new_score values a TRUST_UPDATED event may carry
  MaxCards      \* bound on the card objects ever constructed

ASSUME RegistryAssumption ==
  /\ \A c \in Cards : c.trust \in 0..100
  /\ HeartbeatTTL \in Nat /\ MaxCards \in Nat /\ Scores \subseteq Int

VARIABLES
  cards,  \* heap: every AgentCard object constructed so far
  agents, \* self._agents.values(): the registered objects, in dict order
  stale   \* the ids a prune_stale under way has listed and not deleted yet

registryVars == <<cards, agents, stale>>

AgentIds == {c.agent_id : c \in Cards}
Platforms == {c.platform : c \in Cards}

Card == 1..Len(cards)

RegistryTypeOK ==
  /\ Len(cards) <= MaxCards
  /\ \A o \in Card :
       /\ cards[o].agent_id \in AgentIds /\ cards[o].platform \in Platforms
       /\ cards[o].trust \in 0..100
       /\ cards[o].age \in 0..(HeartbeatTTL + 1)
  /\ agents \in Seq(Card)
  /\ \A j, k \in DOMAIN agents :
       cards[agents[j]].agent_id = cards[agents[k]].agent_id => j = k
  /\ stale \subseteq AgentIds

RegistryInit == cards = <<>> /\ agents = <<>> /\ stale = {}

-----------------------------------------------------------------------------
\* Discovery.

\* _is_live: age_seconds() <= ttl.
Live(o) == HeartbeatTTL = 0 \/ cards[o].age <= HeartbeatTTL

\* Mutant of LiveAgents: stale agents are not filtered out.
AllAgents == agents

LiveAgents == Select(agents, {o \in Card : Live(o)})

Eligible(o, intent, minTrust) ==
  /\ intent \in cards[o].capabilities
  /\ cards[o].trust >= minTrust

\* The positions of s by trust, highest first: Python's sort is stable and its max
\* returns the first, so equal scores stay in the order they have.
TrustOrder(s) ==
  {p \in (DOMAIN s) \X (DOMAIN s) :
     LET a == cards[s[p[1]]].trust  b == cards[s[p[2]]].trust
     IN  a > b \/ (a = b /\ p[1] < p[2])}

\* sorted(s, key=trust_score, reverse=True)
ByTrust(s) == Sorted(s, TrustOrder(s))

Candidates(intent, minTrust) ==
  ByTrust(Select(LiveAgents, {o \in Card : Eligible(o, intent, minTrust)}))

\* max(s, key=trust_score)
Best(s) ==
  s[CHOOSE k \in DOMAIN s : \A j \in DOMAIN s \ {k} : <<k, j>> \in TrustOrder(s)]

Registered(id) == \E k \in DOMAIN agents : cards[agents[k]].agent_id = id

\* self._agents[id].
CardOf(id) == agents[CHOOSE k \in DOMAIN agents : cards[agents[k]].agent_id = id]

-----------------------------------------------------------------------------
\* Operations.

\* Mutant of Entered: a list of cards that a refresh appends to.
EnteredTwice(o, id) == Append(agents, o)

\* self._agents[id] = object o: the key keeps its place if it is there.
Entered(o, id) ==
  IF Registered(id)
  THEN [k \in DOMAIN agents |-> IF cards[agents[k]].agent_id = id THEN o ELSE agents[k]]
  ELSE Append(agents, o)

\* register(card) with a newly constructed card.
Register(card) ==
  /\ Len(cards) < MaxCards
  /\ cards' = Append(cards, [agent_id |-> card.agent_id, platform |-> card.platform,
                             capabilities |-> card.capabilities, trust |-> card.trust,
                             age |-> 0])
  /\ agents' = Entered(Len(cards) + 1, card.agent_id)
  /\ UNCHANGED stale

\* register(card) with a card object constructed earlier, still registered or not.
RegisterAgain(o) ==
  /\ cards' = [cards EXCEPT ![o].age = 0]
  /\ agents' = Entered(o, cards[o].agent_id)
  /\ UNCHANGED stale

\* heartbeat(agent_id) of a known agent; an unknown one is ignored.
Heartbeat(id) ==
  /\ Registered(id)
  /\ cards' = [cards EXCEPT ![CardOf(id)].age = 0]
  /\ UNCHANGED <<agents, stale>>

\* del self._agents[id].
Removed(id) == Select(agents, {o \in Card : cards[o].agent_id # id})

Deregister(id) ==
  /\ Registered(id)
  /\ agents' = Removed(id)
  /\ UNCHANGED <<cards, stale>>

\* Mutant of Clamped: the network's score is taken as it comes.
Unclamped(score) == score

Clamped(score) == IF score < 0 THEN 0 ELSE IF score > 100 THEN 100 ELSE score

\* Mutant of UpdateTrust: news about an agent counts as a sign of life.
UpdateTrustTouches(id, score) ==
  /\ Registered(id)
  /\ cards' = [cards EXCEPT ![CardOf(id)].trust = Clamped(score), ![CardOf(id)].age = 0]
  /\ UNCHANGED <<agents, stale>>

\* update_trust(agent_id, new_score), which PACTBridge._wire_bus calls for every
\* TRUST_UPDATED event; the score of an agent that is not registered is dropped.
UpdateTrust(id, score) ==
  /\ Registered(id)
  /\ cards' = [cards EXCEPT ![CardOf(id)].trust = Clamped(score)]
  /\ UNCHANGED <<agents, stale>>

\* prune_stale(): the stale ids are listed, and then deleted one by one, whoever is
\* behind an id by then.  One thread prunes; a dict that changes its size under the
\* listing raises before anything is deleted, which is no step here.
PruneScan ==
  /\ stale = {}
  /\ stale' = {id \in AgentIds : Registered(id) /\ ~Live(CardOf(id))}
  /\ UNCHANGED <<cards, agents>>

PruneDelete(id) ==
  /\ id \in stale /\ Registered(id)
  /\ agents' = Removed(id)
  /\ stale' = stale \ {id}
  /\ UNCHANGED cards

\* An id deregistered meanwhile raises a KeyError: those left are not pruned.
PruneKeyError ==
  /\ \E id \in stale : ~Registered(id)
  /\ stale' = {}
  /\ UNCHANGED <<cards, agents>>

\* Time passes; past the TTL every age is alike.
AgentsAge ==
  /\ cards' = [o \in Card |->
                 [cards[o] EXCEPT !.age = IF @ > HeartbeatTTL THEN @ ELSE @ + 1]]
  /\ UNCHANGED <<agents, stale>>

RegistryChange ==
  \/ \E card \in Cards : Register(card)
  \/ \E o \in Card : RegisterAgain(o)
  \/ \E id \in AgentIds : Heartbeat(id)
  \/ \E id \in AgentIds : Deregister(id)
  \/ \E id \in AgentIds, score \in Scores : UpdateTrust(id, score)
  \/ PruneScan \/ PruneKeyError \/ \E id \in AgentIds : PruneDelete(id)

RegistryNext == RegistryChange \/ AgentsAge

RegistrySpec == RegistryInit /\ [][RegistryNext]_registryVars /\ WF_registryVars(AgentsAge)

-----------------------------------------------------------------------------
\* get(id) finds it: registered, and heard from within the TTL.
Routable(id) == Registered(id) /\ Live(CardOf(id))

\* The agent's own signs of life.
Announces(id) ==
  \/ \E card \in Cards : card.agent_id = id /\ Register(card)
  \/ \E o \in Card : cards[o].agent_id = id /\ RegisterAgain(o)
  \/ Heartbeat(id)

\* An agent becomes routable only by its own doing, and is then as fresh as can be:
\* no trust update, pruning or registration of another revives a stale one
\* (register and heartbeat touch the card, update_trust does not).
OnlyTheAgentRevives ==
  [][\A id \in AgentIds :
       ~Routable(id) /\ Routable(id)' =>
         Announces(id) /\ cards'[CardOf(id)'].age = 0]_registryVars

\* AgentRegistry "Agents that haven't sent a heartbeat within this window are
\* considered stale and excluded from routing": an agent that falls silent leaves
\* the routing pool for good, whatever trust updates still arrive for it.
SilentAgentsLeave ==
  \A id \in AgentIds : <>[][~Announces(id)]_registryVars => <>[]~Routable(id)

\* agent_registry.py "agents call register() periodically" and "Initial trust score.
\* Updated by TrustNetwork at runtime": an agent that announces itself again keeps
\* the trust the network gave it meanwhile.
RefreshKeepsTrust ==
  [][\A id \in AgentIds :
       Announces(id) /\ Registered(id) =>
         cards'[CardOf(id)'].trust = cards[CardOf(id)].trust]_registryVars
=============================================================================
