------------------------------ MODULE IntentRouter ------------------------------
(***************************************************************************)
(* IntentRouter (pact_bridge/intent_router.py) over an AgentRegistry that  *)
(* keeps changing.  A RoutingDecision holds references to AgentCard        *)
(* objects, so what it says about them is only true when it is made.       *)
(***************************************************************************)
EXTENDS AgentRegistry

CONSTANTS
  Calls,             \* the activations of PACTBridge.handle that route messages
  Messages,          \* incoming messages: [trust, intent, platform, ...]
  NoIntent,          \* what translate returns for an intent it does not know: falsy
  Translations(_),   \* EXTERNAL pact IntentRegistry: what translate may answer
  TrustFloor,        \* config.trust_floor, in hundredths
  MultiAgentIntents, \* config.multi_agent_intents
  MaxRouted,         \* bound on the decisions taken
  MaxWatched         \* bound: with more cards the registry changes no more after the last decision

ASSUME RouterAssumption == TrustFloor \in 0..100 /\ MaxRouted \in Nat /\ MaxWatched \in Nat

VARIABLES
  stats,    \* self._stats
  decision  \* the RoutingDecision each call holds

routerVars == <<registryVars, stats, decision>>

Outcomes == {"untrusted", "unknown_intent", "no_agent", "multi_agent", "routed"}

NoCard == 0  \* primary_agent = None

RoutingDecision(outcome, translated, found, primary) ==
  [outcome |-> outcome, translated |-> translated, candidates |-> found, primary |-> primary]

NoDecision == RoutingDecision("no_agent", NoIntent, <<>>, NoCard)

\* _translate: a registry that raises, like no registry, passes the intent through.
Translated(m) == Translations(m.intent) \cup {m.intent}

\* Mutant of SelectBest: the platform's agents are taken from the whole registry.
SelectBestUnfiltered(found, m) ==
  LET samePlatform == Select(LiveAgents, {o \in Card : cards[o].platform = m.platform})
  IN  Best(IF samePlatform # <<>> THEN samePlatform ELSE found)

\* _select_best: agents of the message's own platform first, then by trust.
SelectBest(found, m) ==
  LET samePlatform == Select(found, {o \in Card : cards[o].platform = m.platform})
  IN  Best(IF samePlatform # <<>> THEN samePlatform ELSE found)

\* route(message), when translate has answered t.
Decision(m, t) ==
  LET found == Candidates(t, TrustFloor) IN
  IF m.trust < TrustFloor THEN RoutingDecision("untrusted", m.intent, <<>>, NoCard)
  ELSE IF t = NoIntent THEN RoutingDecision("unknown_intent", m.intent, <<>>, NoCard)
  ELSE IF found = <<>> THEN RoutingDecision("no_agent", t, <<>>, NoCard)
  ELSE IF {t, m.intent} \cap MultiAgentIntents # {}
  THEN RoutingDecision("multi_agent", t, found, NoCard)
  ELSE RoutingDecision("routed", t, found, SelectBest(found, m))

\* _decide counts the outcome (an unlocked +=, taken in one step: nothing decides by it).
Counted(d) == stats' = [stats EXCEPT ![d.outcome] = @ + 1]

Route(c, m) ==
  \E t \in Translated(m) :
    /\ decision' = [decision EXCEPT ![c] = Decision(m, t)]
    /\ Counted(decision'[c])
    /\ UNCHANGED registryVars

RouterInit ==
  /\ RegistryInit
  /\ stats = [k \in Outcomes |-> 0]
  /\ decision = [c \in Calls |-> NoDecision]

TotalRouted == stats["untrusted"] + stats["unknown_intent"] + stats["no_agent"]
               + stats["multi_agent"] + stats["routed"]

\* The registry goes on changing while a decision is held.
RouterNext ==
  \/ TotalRouted < MaxRouted /\ \E c \in Calls, m \in Messages : Route(c, m)
  \/ /\ TotalRouted = MaxRouted => Len(cards) <= MaxWatched
     /\ RegistryNext /\ UNCHANGED <<stats, decision>>

RouterSpec == RouterInit /\ [][RouterNext]_routerVars

-----------------------------------------------------------------------------
\* The agents that could serve an intent, said without lists or sorting.
Able(intent) ==
  {o \in Card : /\ \E k \in DOMAIN agents : agents[k] = o
                  /\ Live(o)
                  /\ intent \in cards[o].capabilities
                  /\ cards[o].trust >= TrustFloor}

Elements(s) == {s[k] : k \in DOMAIN s}

\* The agents a round over the list would ask, each once.
Distinct(found) ==
  \A j, k \in DOMAIN found : cards[found[j]].agent_id = cards[found[k]].agent_id => j = k

\* The candidates of a decision are cards of different agents, and remain so while the
\* registry replaces, refreshes and deletes what the decision still refers to: the
\* consensus that is asked later takes no vote of an agent twice.
RouterTypeOK ==
  /\ RegistryTypeOK
  /\ stats \in [Outcomes -> 0..MaxRouted]
  /\ \A c \in Calls :
       /\ decision[c].outcome \in Outcomes
       /\ decision[c].candidates \in Seq(Card) /\ Distinct(decision[c].candidates)
       /\ decision[c].primary \in Card \cup {NoCard}

\* A message is refused for want of an agent only when no live agent of sufficient
\* trust handles what it means, and otherwise the candidates are exactly those
\* agents, each once and best trusted first, whatever order they registered in and
\* whatever registrations, expiries and trust updates came before.
CandidatesAreExact ==
  [][\A c \in Calls, m \in Messages : Route(c, m) /\ decision'[c].outcome \in {"no_agent", "multi_agent", "routed"} =>
       LET found == decision'[c].candidates IN
       /\ Elements(found) = Able(decision'[c].translated)
       /\ Len(found) = Cardinality(Elements(found))
       /\ \A j, k \in DOMAIN found : j < k => cards[found[j]].trust >= cards[found[k]].trust]_routerVars

\* The agent a message goes to is able to serve it and unbeaten: one of a higher
\* trust is only passed over when it is of another platform than the message and
\* the chosen one is of the same (_select_best).
PrimaryIsUnbeaten ==
  [][\A c \in Calls, m \in Messages : Route(c, m) /\ decision'[c].outcome = "routed" =>
       LET p == decision'[c].primary IN
       /\ p \in Able(decision'[c].translated)
       /\ \A o \in Able(decision'[c].translated) :
            cards[o].trust > cards[p].trust =>
              cards[p].platform = m.platform /\ cards[o].platform # m.platform]_routerVars
=============================================================================
