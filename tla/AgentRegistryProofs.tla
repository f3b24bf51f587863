--------------------------- MODULE AgentRegistryProofs ---------------------------
(***************************************************************************)
(* AgentRegistry for every set of cards, TTL and history: the registry     *)
(* holds one card per agent id, and an agent comes back to life only by    *)
(* its own doing, a pruning under way or not.                              *)
(***************************************************************************)
EXTENDS AgentRegistry, ListsProofs

ACard ==
  [agent_id : AgentIds, platform : Platforms, capabilities : {c.capabilities : c \in Cards},
   trust : 0..100, age : 0..(HeartbeatTTL + 1)]

RegistryInv ==
  /\ cards \in Seq(ACard) /\ Len(cards) <= MaxCards
  /\ agents \in Seq(Card)
  /\ \A j, k \in DOMAIN agents :
       cards[agents[j]].agent_id = cards[agents[k]].agent_id => j = k
  /\ stale \subseteq AgentIds

\* What RegistryInv says of the objects, position by position.
LEMMA RegistryFacts ==
  ASSUME RegistryInv
  PROVE  /\ Len(cards) \in Nat /\ DOMAIN cards = Card
         /\ \A o \in Card : cards[o] \in ACard
         /\ Len(agents) \in Nat /\ DOMAIN agents = 1..Len(agents)
         /\ \A k \in DOMAIN agents : agents[k] \in Card
         /\ \A j, k \in DOMAIN agents : agents[j] = agents[k] => j = k
BY LenProperties, ElementOfSeq DEF RegistryInv, Card

-----------------------------------------------------------------------------
\* A change to the objects that leaves the dict and everybody's id alone.
LEMMA HeapChangeKeepsInv ==
  ASSUME RegistryInv, UNCHANGED <<agents, stale>>, cards' \in Seq(ACard), Len(cards') = Len(cards),
         \A o \in Card : cards'[o].agent_id = cards[o].agent_id
  PROVE  RegistryInv'
BY RegistryFacts DEF RegistryInv, Card

\* One object changes, and keeps its id.
LEMMA CardChange ==
  ASSUME RegistryInv, NEW o \in Card, NEW new \in ACard,
         new.agent_id = cards[o].agent_id, cards' = [cards EXCEPT ![o] = new]
  PROVE  /\ cards' \in Seq(ACard) /\ Len(cards') = Len(cards) /\ cards'[o] = new
         /\ \A p \in Card : p # o => cards'[p] = cards[p]
         /\ \A p \in Card : cards'[p].agent_id = cards[p].agent_id
BY ExceptSeq, RegistryFacts DEF RegistryInv, Card

\* self._agents[id] = object o: the objects of other ids stay, in their places.
LEMMA EnteredFacts ==
  ASSUME RegistryInv, UNCHANGED stale, NEW id, NEW o \in Card',
         cards' \in Seq(ACard), Len(cards) <= Len(cards'), Len(cards') <= MaxCards,
         \A p \in Card : cards'[p].agent_id = cards[p].agent_id,
         cards'[o].agent_id = id, agents' = Entered(o, id)
  PROVE  /\ RegistryInv'
         /\ \A k \in DOMAIN agents' :
              \/ agents'[k] = o
              \/ \E j \in DOMAIN agents : agents'[k] = agents[j] /\ cards[agents[j]].agent_id # id
         /\ \E k \in DOMAIN agents' : agents'[k] = o
<1>1. /\ Len(agents) \in Nat /\ DOMAIN agents = 1..Len(agents) /\ Len(cards) \in Nat
      /\ Len(cards') \in Nat /\ \A k \in DOMAIN agents : agents[k] \in Card
  BY RegistryFacts, LenProperties
<1>2. Card \subseteq Card'
  BY <1>1 DEF Card
<1>3. agents \in Seq(Card')
  BY <1>2, SeqMonotonic DEF RegistryInv
<1>4. CASE Registered(id)
  <2>1. agents' = [k \in DOMAIN agents |->
                     IF cards[agents[k]].agent_id = id THEN o ELSE agents[k]]
    BY <1>4 DEF Entered
  <2>2. agents' \in [1..Len(agents) -> Card'] /\ DOMAIN agents' = DOMAIN agents
    BY <1>1, <1>2, <2>1
  <2>3. agents' \in Seq(Card')
    BY <1>1, <2>2, SeqDef
  <2>4. \A k \in DOMAIN agents : cards'[agents'[k]].agent_id = cards[agents[k]].agent_id
    BY <1>1, <2>1
  <2>5. RegistryInv'
    BY <2>2, <2>3, <2>4 DEF RegistryInv
  <2>6. PICK j \in DOMAIN agents : cards[agents[j]].agent_id = id
    BY <1>4 DEF Registered
  <2>7. agents'[j] = o
    BY <2>1, <2>6
  <2>8. QED
    BY <2>1, <2>2, <2>5, <2>7
<1>5. CASE ~Registered(id)
  <2>1. agents' = Append(agents, o)
    BY <1>5 DEF Entered
  <2>2. /\ agents' \in Seq(Card') /\ Len(agents') = Len(agents) + 1
        /\ \A k \in DOMAIN agents : agents'[k] = agents[k]
        /\ agents'[Len(agents) + 1] = o
    BY <1>1, <1>3, <2>1, AppendProperties
  <2>3. DOMAIN agents' = 1..(Len(agents) + 1)
    BY <2>2, LenProperties
  <2>4. \A k \in DOMAIN agents : cards[agents[k]].agent_id # id
    BY <1>5 DEF Registered
  <2>5. \A k \in DOMAIN agents : cards'[agents'[k]].agent_id = cards[agents[k]].agent_id
    BY <1>1, <2>2
  <2>6. \A k \in DOMAIN agents' : k \in DOMAIN agents \/ k = Len(agents) + 1
    BY <1>1, <2>3
  <2>7. RegistryInv'
    <3>1. ASSUME NEW j \in DOMAIN agents', NEW k \in DOMAIN agents',
                 cards'[agents'[j]].agent_id = cards'[agents'[k]].agent_id
          PROVE  j = k
      <4>1. CASE j \in DOMAIN agents /\ k \in DOMAIN agents
        BY <2>5, <3>1, <4>1 DEF RegistryInv
      <4>2. CASE j = Len(agents) + 1 \/ k = Len(agents) + 1
        BY <2>2, <2>4, <2>5, <2>6, <3>1, <4>2
      <4>3. QED
        BY <2>6, <4>1, <4>2
    <3>2. QED
      BY <2>2, <3>1 DEF RegistryInv
  <2>8. QED
    BY <1>1, <2>2, <2>3, <2>4, <2>6, <2>7
<1>6. QED
  BY <1>4, <1>5

\* del of the objects that fail a test.
LEMMA SelectKeepsInv ==
  ASSUME RegistryInv, UNCHANGED cards, stale' \subseteq AgentIds, NEW S,
         agents' = Select(agents, S)
  PROVE  /\ RegistryInv'
         /\ \A k \in DOMAIN agents' : agents'[k] \in S /\ \E j \in DOMAIN agents : agents'[k] = agents[j]
<1>1. /\ agents' \in Seq(Card)
      /\ \A r \in DOMAIN agents' : agents'[r] \in S /\ \E k \in DOMAIN agents : agents'[r] = agents[k]
      /\ \A q, r \in DOMAIN agents' : agents'[q] = agents'[r] => q = r
  <2> DEFINE kept == Select(agents, S)
  <2>1. agents \in Seq(Card) /\ \A j, k \in DOMAIN agents : agents[j] = agents[k] => j = k
    BY RegistryFacts DEF RegistryInv
  <2>2. /\ kept \in Seq(Card)
        /\ \A r \in DOMAIN kept : kept[r] \in S /\ \E k \in DOMAIN agents : kept[r] = agents[k]
        /\ \A q, r \in DOMAIN kept : kept[q] = kept[r] => q = r
    BY <2>1, SelectFacts
  <2> HIDE DEF kept
  <2>3. agents' = kept
    BY DEF kept
  <2>4. QED
    BY <2>2, <2>3
<1>2. Card' = Card
  BY DEF Card
<1>3. QED
  BY <1>1, <1>2 DEF RegistryInv

LEMMA RegistryInvInit == RegistryInit => RegistryInv
BY EmptySeq, RegistryAssumption DEF RegistryInit, RegistryInv, Card

\* A stated fact about self._agents[id], for the ids that are registered.
LEMMA CardOfFacts ==
  ASSUME RegistryInv, NEW id
  PROVE  /\ \A k \in DOMAIN agents : cards[agents[k]].agent_id = id => CardOf(id) = agents[k]
         /\ Registered(id) => CardOf(id) \in Card /\ cards[CardOf(id)].agent_id = id
<1>1. ASSUME NEW k \in DOMAIN agents, cards[agents[k]].agent_id = id
      PROVE  CardOf(id) = agents[k] /\ agents[k] \in Card
  BY <1>1, RegistryFacts DEF CardOf, RegistryInv
<1>2. QED
  BY <1>1 DEF Registered

LEMMA CardOfFactsNext ==
  ASSUME RegistryInv', NEW id
  PROVE  \A k \in DOMAIN agents' : cards'[agents'[k]].agent_id = id => CardOf(id)' = agents'[k]
BY DEF CardOf, RegistryInv

-----------------------------------------------------------------------------
\* After self._agents[id] = o for a just touched o, or a touch of the entry itself, o
\* is id's entry and nothing else has changed.
Announced(id, o) ==
  /\ o \in Card' /\ cards'[o].agent_id = id /\ cards'[o].age = 0
  /\ Card \subseteq Card' /\ \A p \in Card : p # o => cards'[p] = cards[p]
  /\ \A k \in DOMAIN agents' :
       \/ agents'[k] = o
       \/ \E j \in DOMAIN agents : agents'[k] = agents[j] /\ cards[agents[j]].agent_id # id

LEMMA RegisterFacts ==
  ASSUME RegistryInv, NEW card \in Cards, Register(card)
  PROVE  RegistryInv' /\ Announced(card.agent_id, Len(cards) + 1)
<1> DEFINE o   == Len(cards) + 1
           new == [agent_id |-> card.agent_id, platform |-> card.platform,
                   capabilities |-> card.capabilities, trust |-> card.trust, age |-> 0]
<1>1. /\ Len(cards) < MaxCards /\ cards' = Append(cards, new)
      /\ agents' = Entered(o, card.agent_id) /\ UNCHANGED stale
  BY DEF Register
<1>2. new \in ACard /\ new.agent_id = card.agent_id /\ new.age = 0
  BY RegistryAssumption DEF ACard, AgentIds, Platforms
<1> HIDE DEF new
<1>3. Len(cards) \in Nat /\ cards \in Seq(ACard)
  BY RegistryFacts DEF RegistryInv
<1>4. /\ cards' \in Seq(ACard) /\ Len(cards') = Len(cards) + 1 /\ cards'[o] = new
      /\ \A p \in Card : cards'[p] = cards[p]
  BY <1>1, <1>2, <1>3, AppendProperties DEF Card
<1>5. o \in Card' /\ Card \subseteq Card' /\ Len(cards) <= Len(cards') /\ Len(cards') <= MaxCards
  BY <1>1, <1>3, <1>4, RegistryAssumption DEF Card
<1> HIDE DEF o
<1>6. cards'[o].agent_id = card.agent_id
      /\ \A p \in Card : cards'[p].agent_id = cards[p].agent_id
  BY <1>2, <1>4
<1>7. /\ RegistryInv'
      /\ \A k \in DOMAIN agents' :
           \/ agents'[k] = o
           \/ \E j \in DOMAIN agents :
                agents'[k] = agents[j] /\ cards[agents[j]].agent_id # card.agent_id
  BY <1>1, <1>4, <1>5, <1>6, EnteredFacts
<1>8. Announced(card.agent_id, o)
  BY <1>2, <1>4, <1>5, <1>7 DEF Announced
<1>9. QED
  BY <1>7, <1>8 DEF o

\* touch() of an object.
LEMMA TouchFacts ==
  ASSUME RegistryInv, NEW o \in Card, cards' = [cards EXCEPT ![o].age = 0]
  PROVE  /\ cards' \in Seq(ACard) /\ Len(cards') = Len(cards) /\ Card' = Card
         /\ cards'[o].age = 0 /\ \A p \in Card : p # o => cards'[p] = cards[p]
         /\ \A p \in Card : cards'[p].agent_id = cards[p].agent_id
<1> DEFINE new == [cards[o] EXCEPT !.age = 0]
<1>1. cards[o] \in ACard
  BY RegistryFacts
<1>2. new \in ACard /\ new.agent_id = cards[o].agent_id /\ new.age = 0
  BY <1>1, RegistryAssumption DEF ACard
<1>3. cards' = [cards EXCEPT ![o] = new]
  OBVIOUS
<1> HIDE DEF new
<1>4. /\ cards' \in Seq(ACard) /\ Len(cards') = Len(cards) /\ cards'[o] = new
      /\ \A p \in Card : p # o => cards'[p] = cards[p]
      /\ \A p \in Card : cards'[p].agent_id = cards[p].agent_id
  BY <1>2, <1>3, CardChange
<1>5. QED
  BY <1>2, <1>4 DEF Card

LEMMA RegisterAgainFacts ==
  ASSUME RegistryInv, NEW o \in Card, RegisterAgain(o)
  PROVE  RegistryInv' /\ Announced(cards[o].agent_id, o)
<1>1. cards' = [cards EXCEPT ![o].age = 0] /\ agents' = Entered(o, cards[o].agent_id)
      /\ UNCHANGED stale
  BY DEF RegisterAgain
<1>2. /\ cards' \in Seq(ACard) /\ Len(cards') = Len(cards) /\ Card' = Card
      /\ cards'[o].age = 0 /\ \A p \in Card : p # o => cards'[p] = cards[p]
      /\ \A p \in Card : cards'[p].agent_id = cards[p].agent_id
  BY <1>1, TouchFacts
<1>3. Len(cards) <= Len(cards') /\ Len(cards') <= MaxCards
  BY <1>2, RegistryFacts DEF RegistryInv
<1>4. /\ RegistryInv'
      /\ \A k \in DOMAIN agents' :
           \/ agents'[k] = o
           \/ \E j \in DOMAIN agents :
                agents'[k] = agents[j] /\ cards[agents[j]].agent_id # cards[o].agent_id
  BY <1>1, <1>2, <1>3, EnteredFacts
<1>5. QED
  BY <1>2, <1>4 DEF Announced

LEMMA HeartbeatFacts ==
  ASSUME RegistryInv, NEW id, Heartbeat(id)
  PROVE  RegistryInv' /\ Announced(id, CardOf(id))
<1> DEFINE o == CardOf(id)
<1>1. cards' = [cards EXCEPT ![o].age = 0] /\ UNCHANGED <<agents, stale>> /\ Registered(id)
  BY DEF Heartbeat
<1>2. o \in Card /\ cards[o].agent_id = id
      /\ \A k \in DOMAIN agents : cards[agents[k]].agent_id = id => o = agents[k]
  BY <1>1, CardOfFacts
<1> HIDE DEF o
<1>3. /\ cards' \in Seq(ACard) /\ Len(cards') = Len(cards) /\ Card' = Card
      /\ cards'[o].age = 0 /\ \A p \in Card : p # o => cards'[p] = cards[p]
      /\ \A p \in Card : cards'[p].agent_id = cards[p].agent_id
  BY <1>1, <1>2, TouchFacts
<1>4. RegistryInv'
  BY <1>1, <1>3, HeapChangeKeepsInv
<1>5. Announced(id, o)
  BY <1>1, <1>2, <1>3 DEF Announced
<1>6. QED
  BY <1>4, <1>5 DEF o

\* The other operations enter nobody and touch nobody.
Unannounced ==
  /\ Len(cards') = Len(cards)
  /\ \A o \in Card : cards'[o].agent_id = cards[o].agent_id /\ cards'[o].age >= cards[o].age
  /\ \A k \in DOMAIN agents' : \E j \in DOMAIN agents : agents'[k] = agents[j]

\* del self._agents[id].
LEMMA RemovedFacts ==
  ASSUME RegistryInv, NEW id, agents' = Removed(id), UNCHANGED cards, stale' \subseteq AgentIds
  PROVE  RegistryInv' /\ Unannounced
<1>1. /\ RegistryInv'
      /\ \A k \in DOMAIN agents' : \E j \in DOMAIN agents : agents'[k] = agents[j]
  BY SelectKeepsInv DEF Removed
<1>2. QED
  BY <1>1, RegistryFacts DEF Unannounced, ACard

LEMMA DeregisterFacts ==
  ASSUME RegistryInv, NEW id, Deregister(id)
  PROVE  RegistryInv' /\ Unannounced
BY RemovedFacts DEF Deregister, RegistryInv

Prune == PruneScan \/ PruneKeyError \/ \E id \in AgentIds : PruneDelete(id)

LEMMA PruneFacts ==
  ASSUME RegistryInv, Prune
  PROVE  RegistryInv' /\ Unannounced
<1>1. ASSUME UNCHANGED <<cards, agents>>, stale' \subseteq AgentIds
      PROVE  RegistryInv' /\ Unannounced
  BY <1>1, RegistryFacts DEF RegistryInv, Card, Unannounced, ACard
<1>2. CASE PruneScan
  BY <1>1, <1>2 DEF PruneScan
<1>3. CASE PruneKeyError
  BY <1>1, <1>3 DEF PruneKeyError
<1>4. ASSUME NEW id \in AgentIds, PruneDelete(id)
      PROVE  RegistryInv' /\ Unannounced
  BY <1>4, RemovedFacts DEF PruneDelete, RegistryInv
<1>5. QED
  BY <1>2, <1>3, <1>4 DEF Prune

LEMMA UpdateTrustFacts ==
  ASSUME RegistryInv, NEW id, NEW score \in Scores, UpdateTrust(id, score)
  PROVE  RegistryInv' /\ Unannounced
<1> DEFINE o   == CardOf(id)
           new == [cards[o] EXCEPT !.trust = Clamped(score)]
<1>1. Registered(id) /\ cards' = [cards EXCEPT ![o] = new] /\ UNCHANGED <<agents, stale>>
  BY DEF UpdateTrust
<1>2. o \in Card
  BY <1>1, CardOfFacts
<1>3. Clamped(score) \in 0..100
  BY RegistryAssumption DEF Clamped
<1>4. cards[o] \in ACard
  BY <1>2, RegistryFacts
<1>5. new \in ACard /\ new.agent_id = cards[o].agent_id /\ new.age = cards[o].age
  BY <1>3, <1>4 DEF ACard
<1> HIDE DEF o, new
<1>6. /\ cards' \in Seq(ACard) /\ Len(cards') = Len(cards) /\ cards'[o] = new
      /\ \A p \in Card : p # o => cards'[p] = cards[p]
      /\ \A p \in Card : cards'[p].agent_id = cards[p].agent_id
  BY <1>1, <1>2, <1>5, CardChange
<1>7. RegistryInv'
  BY <1>1, <1>6, HeapChangeKeepsInv
<1>8. \A p \in Card : cards[p].age \in Int /\ cards'[p].age = cards[p].age
  BY <1>5, <1>6, RegistryFacts DEF ACard
<1>9. QED
  BY <1>1, <1>6, <1>7, <1>8 DEF Unannounced

LEMMA AgeFacts ==
  ASSUME RegistryInv, AgentsAge
  PROVE  RegistryInv' /\ Unannounced
<1> DEFINE Aged(card) == [card EXCEPT !.age = IF @ > HeartbeatTTL THEN @ ELSE @ + 1]
<1>1. cards' = [o \in Card |-> Aged(cards[o])] /\ UNCHANGED <<agents, stale>>
  BY DEF AgentsAge
<1>2. ASSUME NEW o \in Card
      PROVE  /\ Aged(cards[o]) \in ACard /\ Aged(cards[o]).agent_id = cards[o].agent_id
             /\ Aged(cards[o]).age >= cards[o].age
  <2> DEFINE card == cards[o]
             age  == IF card.age > HeartbeatTTL THEN card.age ELSE card.age + 1
  <2>1. card \in ACard
    BY RegistryFacts
  <2>2. card.age \in 0..(HeartbeatTTL + 1)
    BY <2>1 DEF ACard
  <2>3. age \in 0..(HeartbeatTTL + 1) /\ age >= card.age
    BY <2>2, RegistryAssumption
  <2>4. Aged(card) = [card EXCEPT !.age = age]
    OBVIOUS
  <2> HIDE DEF card, age, Aged
  <2>5. Aged(card) \in ACard /\ Aged(card).agent_id = card.agent_id /\ Aged(card).age = age
    BY <2>1, <2>3, <2>4 DEF ACard
  <2>6. QED
    BY <2>3, <2>5 DEF card
<1> HIDE DEF Aged
<1>3. Len(cards) \in Nat /\ Card = 1..Len(cards)
  BY RegistryFacts DEF Card
<1>4. cards' \in Seq(ACard)
  BY <1>1, <1>2, <1>3, SeqDef
<1>5. Len(cards') = Len(cards)
  BY <1>1, <1>3, <1>4, LenProperties
<1>6. RegistryInv'
  BY <1>1, <1>2, <1>4, <1>5, HeapChangeKeepsInv
<1>7. QED
  BY <1>1, <1>2, <1>5, <1>6 DEF Unannounced

LEMMA RegistryInvStep == RegistryInv /\ [RegistryNext]_registryVars => RegistryInv'
<1>1. RegistryInv /\ UNCHANGED registryVars => RegistryInv'
  BY DEF RegistryInv, registryVars, Card
<1>2. QED
  BY <1>1, RegisterFacts, RegisterAgainFacts, HeartbeatFacts, DeregisterFacts, PruneFacts,
     UpdateTrustFacts, AgeFacts DEF RegistryNext, RegistryChange, Prune

LEMMA RegistryInvHolds == RegistrySpec => []RegistryInv
BY RegistryInvInit, RegistryInvStep, PTL DEF RegistrySpec

\* What a registry is: one entry per agent id, for an object on the heap whose trust
\* stays a score, whatever scores the trust network sends.
LEMMA RegistryInvType == RegistryInv => RegistryTypeOK
BY RegistryFacts DEF RegistryInv, RegistryTypeOK, ACard

THEOREM RegistryTypeCorrect == RegistrySpec => []RegistryTypeOK
BY RegistryInvHolds, RegistryInvType, PTL

-----------------------------------------------------------------------------
LEMMA RoutableFacts ==
  ASSUME RegistryInv, NEW id, NEW k \in DOMAIN agents,
         cards[agents[k]].agent_id = id, Live(agents[k])
  PROVE  Routable(id)
BY CardOfFacts DEF Routable, Registered

LEMMA RoutableFactsNext ==
  ASSUME RegistryInv', NEW id, Routable(id)'
  PROVE  \E k \in DOMAIN agents' :
           /\ cards'[agents'[k]].agent_id = id /\ CardOf(id)' = agents'[k]
           /\ HeartbeatTTL = 0 \/ cards'[agents'[k]].age <= HeartbeatTTL
<1>1. PICK k \in DOMAIN agents' : cards'[agents'[k]].agent_id = id
  BY DEF Routable, Registered
<1>2. CardOf(id)' = agents'[k]
  BY <1>1, CardOfFactsNext
<1>3. QED
  BY <1>1, <1>2 DEF Routable, Live

\* Nobody is revived by an operation that enters nobody and touches nobody.
LEMMA UnannouncedRevivesNobody ==
  ASSUME RegistryInv, RegistryInv', Unannounced, NEW id, Routable(id)'
  PROVE  Routable(id)
<1>1. PICK k \in DOMAIN agents' :
        /\ cards'[agents'[k]].agent_id = id
        /\ HeartbeatTTL = 0 \/ cards'[agents'[k]].age <= HeartbeatTTL
  BY RoutableFactsNext
<1>2. PICK j \in DOMAIN agents : agents'[k] = agents[j]
  BY <1>1 DEF Unannounced
<1>3. agents[j] \in Card /\ cards[agents[j]].age \in Int
  BY RegistryFacts DEF ACard
<1>4. cards[agents[j]].agent_id = id /\ cards'[agents[j]].age >= cards[agents[j]].age
  BY <1>1, <1>2, <1>3 DEF Unannounced
<1>5. agents[j] \in 1..Len(cards')
  BY <1>3 DEF Unannounced, Card
<1>6. cards'[agents[j]].age \in Int
  <2>1. cards'[agents[j]] \in ACard
    BY <1>5, ElementOfSeq DEF RegistryInv
  <2>2. QED
    BY <2>1 DEF ACard
<1>7. Live(agents[j])
  BY <1>1, <1>2, <1>3, <1>4, <1>6, RegistryAssumption DEF Live
<1>8. QED
  BY <1>4, <1>7, RoutableFacts

\* An announcement revives the one who made it.
LEMMA AnnouncedRevivesOne ==
  ASSUME RegistryInv, RegistryInv', NEW id, NEW o, Announced(id, o),
         NEW other, ~Routable(other), Routable(other)'
  PROVE  other = id /\ CardOf(other)' = o /\ cards'[CardOf(other)'].age = 0
<1>1. PICK k \in DOMAIN agents' :
        /\ cards'[agents'[k]].agent_id = other /\ CardOf(other)' = agents'[k]
        /\ HeartbeatTTL = 0 \/ cards'[agents'[k]].age <= HeartbeatTTL
  BY RoutableFactsNext
<1>2. CASE agents'[k] = o
  BY <1>1, <1>2 DEF Announced
<1>3. ASSUME NEW j \in DOMAIN agents, agents'[k] = agents[j], agents'[k] # o
      PROVE  FALSE
  <2>1. agents[j] \in Card
    BY RegistryFacts
  <2>2. cards'[agents[j]] = cards[agents[j]]
    BY <1>3, <2>1 DEF Announced
  <2>3. cards[agents[j]].agent_id = other /\ Live(agents[j])
    BY <1>1, <1>3, <2>2 DEF Live
  <2>4. QED
    BY <2>3, RoutableFacts
<1>4. QED
  BY <1>2, <1>3 DEF Announced

\* An agent becomes routable only by its own register or heartbeat, which leaves its
\* entry just touched; no update_trust, prune_stale, deregister or registration of
\* another agent brings back one whose heartbeats have stopped.
THEOREM AgentsReviveThemselves == RegistrySpec => OnlyTheAgentRevives
<1> DEFINE A == \A id \in AgentIds :
                  ~Routable(id) /\ Routable(id)' =>
                    Announces(id) /\ cards'[CardOf(id)'].age = 0
<1>1. RegistryInv /\ RegistryInv' /\ [RegistryNext]_registryVars => [A]_registryVars
  <2> SUFFICES ASSUME RegistryInv, RegistryInv', RegistryNext,
                      NEW id \in AgentIds, ~Routable(id), Routable(id)'
               PROVE  Announces(id) /\ cards'[CardOf(id)'].age = 0
    OBVIOUS
  <2>1. ASSUME NEW card \in Cards, Register(card)
        PROVE  Announces(id) /\ cards'[CardOf(id)'].age = 0
    <3>1. card.agent_id = id /\ cards'[CardOf(id)'].age = 0
      BY <2>1, RegisterFacts, AnnouncedRevivesOne
    <3>2. QED
      BY <2>1, <3>1 DEF Announces
  <2>2. ASSUME NEW o \in Card, RegisterAgain(o)
        PROVE  Announces(id) /\ cards'[CardOf(id)'].age = 0
    <3>1. cards[o].agent_id = id /\ cards'[CardOf(id)'].age = 0
      BY <2>2, RegisterAgainFacts, AnnouncedRevivesOne
    <3>2. QED
      BY <2>2, <3>1 DEF Announces
  <2>3. ASSUME NEW h \in AgentIds, Heartbeat(h)
        PROVE  Announces(id) /\ cards'[CardOf(id)'].age = 0
    <3>1. h = id /\ cards'[CardOf(id)'].age = 0
      BY <2>3, HeartbeatFacts, AnnouncedRevivesOne
    <3>2. QED
      BY <2>3, <3>1 DEF Announces
  <2>4. CASE \E d \in AgentIds : Deregister(d)
    BY <2>4, DeregisterFacts, UnannouncedRevivesNobody
  <2>5. CASE \E u \in AgentIds, score \in Scores : UpdateTrust(u, score)
    BY <2>5, UpdateTrustFacts, UnannouncedRevivesNobody
  <2>6. CASE Prune
    BY <2>6, PruneFacts, UnannouncedRevivesNobody
  <2>7. CASE AgentsAge
    BY <2>7, AgeFacts, UnannouncedRevivesNobody
  <2>8. QED
    BY <2>1, <2>2, <2>3, <2>4, <2>5, <2>6, <2>7 DEF RegistryNext, RegistryChange, Prune
<1>2. OnlyTheAgentRevives <=> [][A]_registryVars
  BY DEF OnlyTheAgentRevives
<1> HIDE DEF A
<1>3. QED
  BY <1>1, <1>2, RegistryInvHolds, PTL DEF RegistrySpec
=============================================================================
