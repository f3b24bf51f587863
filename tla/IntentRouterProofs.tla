--------------------------- MODULE IntentRouterProofs ---------------------------
(***************************************************************************)
(* IntentRouter for every registry history, set of messages and number of  *)
(* agents: whom route() considers, in which order, and whom it picks.      *)
(***************************************************************************)
EXTENDS IntentRouter, AgentRegistryProofs

-----------------------------------------------------------------------------
\* What discovery returns.

LEMMA TrustIsAScore ==
  ASSUME RegistryInv
  PROVE  /\ \A o \in Card : cards[o].trust \in Int
         /\ \A s \in Seq(Card) : \A k \in DOMAIN s :
              s[k] \in Card /\ cards[s[k]].trust \in Int /\ k \in Int
<1>1. ASSUME NEW o \in Card
      PROVE  cards[o].trust \in Int
  <2>1. cards[o] \in ACard
    BY RegistryFacts
  <2>2. cards[o].trust \in 0..100
    BY <2>1 DEF ACard
  <2>3. QED
    BY <2>2
<1>2. ASSUME NEW s \in Seq(Card), NEW k \in DOMAIN s
      PROVE  s[k] \in Card /\ k \in Int
  <2>1. k \in 1..Len(s) /\ Len(s) \in Nat
    BY LenProperties
  <2>2. QED
    BY <2>1, ElementOfSeq
<1>3. QED
  BY <1>1, <1>2

LEMMA TrustOrders ==
  ASSUME RegistryInv, NEW s \in Seq(Card)
  PROVE  Orders(TrustOrder(s), DOMAIN s)
<1>1. \A k \in DOMAIN s : cards[s[k]].trust \in Int /\ k \in Int
  BY TrustIsAScore
<1>2. \A j, k \in DOMAIN s : <<j, k>> \in TrustOrder(s) <=>
        \/ cards[s[j]].trust > cards[s[k]].trust
        \/ cards[s[j]].trust = cards[s[k]].trust /\ j < k
  BY DEF TrustOrder
<1>3. QED
  BY <1>1, <1>2 DEF Orders

\* candidates(): every able agent once, those of higher trust first.
LEMMA CandidatesFacts ==
  ASSUME RegistryInv, NEW intent
  PROVE  LET found == Candidates(intent, TrustFloor) IN
         /\ found \in Seq(Card)
         /\ Elements(found) = Able(intent)
         /\ Len(found) = Cardinality(Elements(found))
         /\ \A j, k \in DOMAIN found : j < k => cards[found[j]].trust >= cards[found[k]].trust
         /\ Distinct(found)
<1> DEFINE L       == {o \in Card : Live(o)}
           M       == {o \in Card : Eligible(o, intent, TrustFloor)}
           live    == Select(agents, L)
           matched == Select(live, M)
           found   == Sorted(matched, TrustOrder(matched))
<1>1. /\ agents \in Seq(Card) /\ \A k \in DOMAIN agents : agents[k] \in Card
      /\ \A j, k \in DOMAIN agents : agents[j] = agents[k] => j = k
  BY RegistryFacts DEF RegistryInv
<1> HIDE DEF L, M
<1>2. /\ live \in Seq(Card)
      /\ \A r \in DOMAIN live : live[r] \in L /\ \E k \in DOMAIN agents : live[r] = agents[k]
      /\ \A k \in DOMAIN agents : agents[k] \in L => \E r \in DOMAIN live : live[r] = agents[k]
      /\ \A q, r \in DOMAIN live : live[q] = live[r] => q = r
  BY <1>1, SelectFacts
<1> HIDE DEF live
<1>3. /\ matched \in Seq(Card)
      /\ \A r \in DOMAIN matched : matched[r] \in M /\ \E k \in DOMAIN live : matched[r] = live[k]
      /\ \A k \in DOMAIN live : live[k] \in M => \E r \in DOMAIN matched : matched[r] = live[k]
      /\ \A q, r \in DOMAIN matched : matched[q] = matched[r] => q = r
  BY <1>2, SelectFacts
<1> HIDE DEF matched
<1>4. Orders(TrustOrder(matched), DOMAIN matched)
  BY <1>3, TrustOrders
<1>5. /\ found \in Seq(Card)
      /\ \A r \in DOMAIN found : \E k \in DOMAIN matched : found[r] = matched[k]
      /\ \A k \in DOMAIN matched : \E r \in DOMAIN found : found[r] = matched[k]
      /\ \A q, r \in DOMAIN found : q < r => \E j, k \in DOMAIN matched :
           found[q] = matched[j] /\ found[r] = matched[k] /\ <<j, k>> \in TrustOrder(matched)
      /\ \A q, r \in DOMAIN found : found[q] = found[r] => q = r
  BY <1>3, <1>4, SortedFacts
<1> HIDE DEF found
<1>6. Candidates(intent, TrustFloor) = found
  BY DEF Candidates, ByTrust, LiveAgents, live, matched, found, L, M
<1>7. Elements(found) = Able(intent)
  <2>1. ASSUME NEW r \in DOMAIN found
        PROVE  found[r] \in Able(intent)
    <3>1. found[r] \in L /\ found[r] \in M /\ \E k \in DOMAIN agents : agents[k] = found[r]
      BY <1>2, <1>3, <1>5
    <3>2. QED
      BY <3>1 DEF Able, Eligible, L, M
  <2>2. ASSUME NEW o \in Able(intent)
        PROVE  \E r \in DOMAIN found : found[r] = o
    <3>1. o \in L /\ o \in M /\ \E k \in DOMAIN agents : agents[k] = o
      BY DEF Able, Eligible, L, M
    <3>2. QED
      BY <1>2, <1>3, <1>5, <3>1
  <2>3. QED
    BY <2>1, <2>2 DEF Elements
<1>8. Len(found) = Cardinality(Elements(found))
  <2>1. Len(found) \in Nat /\ DOMAIN found = 1..Len(found)
    BY <1>5, LenProperties
  <2>2. found \in [1..Len(found) -> Elements(found)]
    BY <1>5, <2>1, LenProperties DEF Elements
  <2>3. \A e \in Elements(found) : \E r \in 1..Len(found) : found[r] = e
    BY <2>1 DEF Elements
  <2>4. found \in Bijection(1..Len(found), Elements(found))
    BY <1>5, <2>1, <2>2, <2>3, Fun_IsBij
  <2>5. ExistsBijection(1..Len(found), Elements(found))
    BY <2>4 DEF ExistsBijection
  <2>6. QED
    BY <2>1, <2>5, FS_CountingElements
<1>9. ASSUME NEW j \in DOMAIN found, NEW k \in DOMAIN found, j < k
      PROVE  cards[found[j]].trust >= cards[found[k]].trust
  <2>1. PICK p \in DOMAIN matched, q \in DOMAIN matched :
          found[j] = matched[p] /\ found[k] = matched[q] /\ <<p, q>> \in TrustOrder(matched)
    BY <1>5, <1>9
  <2>2. cards[matched[p]].trust \in Int /\ cards[matched[q]].trust \in Int
    BY <1>3, TrustIsAScore
  <2>3. QED
    BY <2>1, <2>2 DEF TrustOrder
<1>10. Distinct(found)
  <2> SUFFICES ASSUME NEW q \in DOMAIN found, NEW r \in DOMAIN found,
                      cards[found[q]].agent_id = cards[found[r]].agent_id
               PROVE  q = r
    BY DEF Distinct
  <2>1. PICK j \in DOMAIN agents, k \in DOMAIN agents : found[q] = agents[j] /\ found[r] = agents[k]
    BY <1>2, <1>3, <1>5
  <2>2. j = k
    BY <2>1 DEF RegistryInv
  <2>3. QED
    BY <1>5, <2>1, <2>2
<1>11. QED
  BY <1>5, <1>6, <1>7, <1>8, <1>9, <1>10

\* max(s, key=trust_score) of a list that is not empty.
LEMMA BestFacts ==
  ASSUME RegistryInv, NEW s \in Seq(Card), s # <<>>
  PROVE  /\ \E k \in DOMAIN s : Best(s) = s[k]
         /\ \A j \in DOMAIN s : cards[Best(s)].trust >= cards[s[j]].trust
<1> DEFINE at == InOrder(DOMAIN s, TrustOrder(s))
           First(k) == \A j \in DOMAIN s \ {k} : <<k, j>> \in TrustOrder(s)
<1>1. Len(s) \in Nat /\ Len(s) # 0 /\ DOMAIN s = 1..Len(s)
  BY EmptySeq, LenProperties
<1>2. IsFiniteSet(DOMAIN s) /\ Cardinality(DOMAIN s) = Len(s)
  BY <1>1, FS_Interval
<1>3. Orders(TrustOrder(s), DOMAIN s)
  BY TrustOrders
<1>4. /\ at \in [1..Len(s) -> DOMAIN s]
      /\ \A k \in DOMAIN s : \E r \in 1..Len(s) : at[r] = k
      /\ \A q, r \in 1..Len(s) : q < r => <<at[q], at[r]>> \in TrustOrder(s)
  BY <1>2, <1>3, InOrderFacts
<1> HIDE DEF at
<1>5. at[1] \in DOMAIN s /\ First(at[1])
  <2>1. ASSUME NEW j \in DOMAIN s \ {at[1]}
        PROVE  <<at[1], j>> \in TrustOrder(s)
    <3>1. PICK r \in 1..Len(s) : at[r] = j
      BY <1>4
    <3>2. 1 \in 1..Len(s) /\ 1 < r
      BY <1>1, <3>1
    <3>3. QED
      BY <1>4, <3>1, <3>2
  <2>2. QED
    BY <1>1, <1>4, <2>1
<1>6. PICK k \in DOMAIN s : First(k) /\ Best(s) = s[k]
  <2>1. Best(s) = s[CHOOSE k \in DOMAIN s : First(k)]
    BY DEF Best
  <2> HIDE DEF First
  <2>2. QED
    BY <1>5, <2>1
<1>7. \A j \in DOMAIN s : cards[s[j]].trust \in Int
  BY TrustIsAScore
<1>8. ASSUME NEW j \in DOMAIN s
      PROVE  cards[s[k]].trust >= cards[s[j]].trust
  <2>1. CASE j = k
    BY <1>7, <2>1
  <2>2. CASE j # k
    <3>1. <<k, j>> \in TrustOrder(s)
      BY <1>6, <2>2
    <3>2. QED
      BY <1>7, <3>1 DEF TrustOrder
  <2>3. QED
    BY <2>1, <2>2
<1>9. QED
  BY <1>6, <1>8

\* _select_best of candidates: one of them, and one of the message's platform if any is.
LEMMA SelectBestFacts ==
  ASSUME RegistryInv, NEW found \in Seq(Card), found # <<>>, NEW m
  PROVE  LET p == SelectBest(found, m) IN
         /\ p \in Elements(found)
         /\ \A o \in Elements(found) :
              cards[o].trust > cards[p].trust =>
                cards[p].platform = m.platform /\ cards[o].platform # m.platform
<1> DEFINE S    == {o \in Card : cards[o].platform = m.platform}
           same == Select(found, S)
           pool == IF same # <<>> THEN same ELSE found
           p    == SelectBest(found, m)
<1>1. /\ \A k \in DOMAIN found : found[k] \in Card
      /\ \A o \in Card : o \in S <=> cards[o].platform = m.platform
  BY TrustIsAScore
<1>2. p = Best(pool)
  BY DEF SelectBest
<1> HIDE DEF S, p
<1>3. /\ same \in Seq(Card)
      /\ \A r \in DOMAIN same : same[r] \in S /\ \E k \in DOMAIN found : same[r] = found[k]
      /\ \A k \in DOMAIN found : found[k] \in S => \E r \in DOMAIN same : same[r] = found[k]
  BY SelectFacts
<1> HIDE DEF same
<1>4. pool \in Seq(Card) /\ pool # <<>>
  BY <1>3
<1> HIDE DEF pool
<1>5. /\ \E k \in DOMAIN pool : p = pool[k]
      /\ \A j \in DOMAIN pool : cards[p].trust >= cards[pool[j]].trust
  BY <1>2, <1>4, BestFacts
<1>6. \A o \in Elements(found) : cards[o].trust \in Int /\ o \in Card
  BY <1>1, TrustIsAScore DEF Elements
<1>7. p \in Elements(found)
  BY <1>3, <1>5 DEF pool, Elements
<1>8. ASSUME NEW o \in Elements(found), cards[o].trust > cards[p].trust
      PROVE  cards[p].platform = m.platform /\ cards[o].platform # m.platform
  <2>1. \A j \in DOMAIN pool : pool[j] # o
    BY <1>5, <1>6, <1>7, <1>8
  <2>2. same # <<>> /\ pool = same
    BY <2>1 DEF pool, Elements
  <2>3. p \in S /\ o \notin S
    BY <1>3, <1>5, <2>1, <2>2 DEF Elements
  <2>4. QED
    BY <1>1, <1>6, <1>7, <2>3
<1>9. QED
  BY <1>7, <1>8 DEF p

-----------------------------------------------------------------------------
\* What route() answers, case by case.
LEMMA DecisionCases ==
  ASSUME NEW m, NEW t
  PROVE  LET d == Decision(m, t)  found == Candidates(t, TrustFloor) IN
         /\ d.outcome \in Outcomes
         /\ d.outcome \in {"no_agent", "multi_agent", "routed"} =>
              d.translated = t /\ d.candidates = found
         /\ d.candidates \in {<<>>, found}
         /\ d.outcome = "routed" => found # <<>> /\ d.primary = SelectBest(found, m)
         /\ d.outcome # "routed" => d.primary = NoCard
<1> DEFINE found == Candidates(t, TrustFloor)
           best  == SelectBest(found, m)
<1>1. Decision(m, t) =
        IF m.trust < TrustFloor THEN RoutingDecision("untrusted", m.intent, <<>>, NoCard)
        ELSE IF t = NoIntent THEN RoutingDecision("unknown_intent", m.intent, <<>>, NoCard)
        ELSE IF found = <<>> THEN RoutingDecision("no_agent", t, <<>>, NoCard)
        ELSE IF {t, m.intent} \cap MultiAgentIntents # {}
        THEN RoutingDecision("multi_agent", t, found, NoCard)
        ELSE RoutingDecision("routed", t, found, best)
  BY DEF Decision
<1> HIDE DEF found, best
<1>2. /\ Decision(m, t).outcome \in Outcomes
      /\ Decision(m, t).outcome \in {"no_agent", "multi_agent", "routed"} =>
           Decision(m, t).translated = t /\ Decision(m, t).candidates = found
      /\ Decision(m, t).candidates \in {<<>>, found}
      /\ Decision(m, t).outcome = "routed" => found # <<>> /\ Decision(m, t).primary = best
      /\ Decision(m, t).outcome # "routed" => Decision(m, t).primary = NoCard
  BY <1>1 DEF RoutingDecision, Outcomes
<1>3. QED
  BY <1>2 DEF found, best

DecisionOK(d) ==
  /\ d.outcome \in Outcomes
  /\ d.candidates \in Seq(Card) /\ Distinct(d.candidates)
  /\ d.primary \in Card \cup {NoCard}
  /\ d.outcome = "routed" => d.primary \in Card

RouterInv ==
  /\ RegistryInv
  /\ stats \in [Outcomes -> Nat] /\ TotalRouted <= MaxRouted
  /\ DOMAIN decision = Calls /\ \A c \in Calls : DecisionOK(decision[c])

LEMMA DecisionIsOK ==
  ASSUME RegistryInv, NEW m, NEW t
  PROVE  DecisionOK(Decision(m, t))
<1> DEFINE d == Decision(m, t)
           found == Candidates(t, TrustFloor)
<1>1. /\ d.outcome \in Outcomes /\ d.candidates \in {<<>>, found}
      /\ d.outcome = "routed" => found # <<>> /\ d.primary = SelectBest(found, m)
      /\ d.outcome # "routed" => d.primary = NoCard
  BY DecisionCases
<1>2. found \in Seq(Card) /\ Distinct(found)
  BY CandidatesFacts
<1> HIDE DEF d, found
<1>3. ASSUME found # <<>> PROVE SelectBest(found, m) \in Card
  <2>1. SelectBest(found, m) \in Elements(found)
    BY <1>2, <1>3, SelectBestFacts
  <2>2. QED
    BY <1>2, <2>1, TrustIsAScore DEF Elements
<1>4. <<>> \in Seq(Card) /\ Distinct(<<>>)
  BY EmptySeq DEF Distinct
<1>5. QED
  BY <1>1, <1>2, <1>3, <1>4 DEF DecisionOK, d

\* A card object is never freed and keeps its id: what a decision refers to stays there.
LEMMA HeapGrows ==
  ASSUME RegistryInv, [RegistryNext]_registryVars
  PROVE  Card \subseteq Card' /\ \A o \in Card : cards'[o].agent_id = cards[o].agent_id
<1>1. ASSUME NEW id, NEW o, Announced(id, o), o \in Card => cards[o].agent_id = id
      PROVE  Card \subseteq Card' /\ \A p \in Card : cards'[p].agent_id = cards[p].agent_id
  BY <1>1 DEF Announced
<1>2. ASSUME NEW card \in Cards, Register(card)
      PROVE  Announced(card.agent_id, Len(cards) + 1) /\ Len(cards) + 1 \notin Card
  BY <1>2, RegisterFacts, RegistryFacts DEF Card
<1>3. CASE \E card \in Cards : Register(card)
  BY <1>1, <1>2, <1>3
<1>4. CASE \E o \in Card : RegisterAgain(o)
  BY <1>1, <1>4, RegisterAgainFacts
<1>5. ASSUME NEW id, Heartbeat(id)
      PROVE  Announced(id, CardOf(id)) /\ cards[CardOf(id)].agent_id = id
  BY <1>5, HeartbeatFacts, CardOfFacts DEF Heartbeat
<1>6. CASE \E id \in AgentIds : Heartbeat(id)
  BY <1>1, <1>5, <1>6
<1>7. CASE Unannounced
  BY <1>7 DEF Unannounced, Card
<1>8. CASE UNCHANGED registryVars
  BY <1>8 DEF registryVars, Card
<1>9. QED
  BY <1>3, <1>4, <1>6, <1>7, <1>8, DeregisterFacts, UpdateTrustFacts, PruneFacts, AgeFacts
     DEF RegistryNext, RegistryChange, Prune

LEMMA RouterInvInit == RouterInit => RouterInv
<1> SUFFICES ASSUME RouterInit PROVE RouterInv
  OBVIOUS
<1>1. RegistryInv
  BY RegistryInvInit DEF RouterInit
<1>2. stats \in [Outcomes -> Nat] /\ TotalRouted <= MaxRouted
  BY RouterAssumption DEF RouterInit, Outcomes, TotalRouted
<1>3. \A c \in Calls : decision[c] = NoDecision
  BY DEF RouterInit
<1>4. DecisionOK(NoDecision)
  BY EmptySeq DEF NoDecision, RoutingDecision, DecisionOK, Outcomes, Distinct
<1>5. QED
  BY <1>1, <1>2, <1>3, <1>4 DEF RouterInv, RouterInit

\* A routed message is counted once.
LEMMA CountedFacts ==
  ASSUME stats \in [Outcomes -> Nat], NEW d, d.outcome \in Outcomes, Counted(d)
  PROVE  stats' \in [Outcomes -> Nat] /\ TotalRouted' = TotalRouted + 1
BY DEF Counted, Outcomes, TotalRouted

LEMMA RouteKeepsInv ==
  ASSUME RouterInv, TotalRouted < MaxRouted,
         NEW c \in Calls, NEW m \in Messages, Route(c, m)
  PROVE  RouterInv'
<1>1. PICK t \in Translated(m) :
        /\ decision' = [decision EXCEPT ![c] = Decision(m, t)]
        /\ Counted(decision'[c]) /\ UNCHANGED registryVars
  BY DEF Route
<1>2. decision'[c] = Decision(m, t) /\ DOMAIN decision' = Calls
      /\ \A b \in Calls : b # c => decision'[b] = decision[b]
  BY <1>1 DEF RouterInv
<1>3. DecisionOK(decision'[c])
  BY <1>2, DecisionIsOK DEF RouterInv
<1>4. stats' \in [Outcomes -> Nat] /\ TotalRouted' <= MaxRouted
  <2>1. stats' \in [Outcomes -> Nat] /\ TotalRouted' = TotalRouted + 1
    BY <1>1, <1>3, CountedFacts DEF RouterInv, DecisionOK
  <2>2. TotalRouted \in Nat
    BY DEF RouterInv, TotalRouted, Outcomes
  <2>3. QED
    BY <2>1, <2>2, RouterAssumption
<1>5. RegistryInv' /\ Card' = Card
  BY <1>1 DEF RouterInv, RegistryInv, registryVars, Card
<1>6. \A b \in Calls : DecisionOK(decision'[b])
  BY <1>2, <1>3 DEF RouterInv
<1>7. \A b \in Calls : DecisionOK(decision[b])'
  BY <1>1, <1>5, <1>6 DEF DecisionOK, Distinct, registryVars
<1>8. QED
  BY <1>2, <1>4, <1>5, <1>7 DEF RouterInv

LEMMA RouterInvStep == RouterInv /\ [RouterNext]_routerVars => RouterInv'
<1> SUFFICES ASSUME RouterInv, [RouterNext]_routerVars PROVE RouterInv'
  OBVIOUS
<1>1. ASSUME TotalRouted < MaxRouted, NEW c \in Calls, NEW m \in Messages, Route(c, m)
      PROVE  RouterInv'
  BY <1>1, RouteKeepsInv
<1>2. CASE [RegistryNext]_registryVars /\ UNCHANGED <<stats, decision>>
  <2>1. /\ RegistryInv' /\ Card \subseteq Card'
        /\ \A o \in Card : cards'[o].agent_id = cards[o].agent_id
    BY <1>2, RegistryInvStep, HeapGrows DEF RouterInv
  <2>2. \A s \in Seq(Card) : s \in Seq(Card')
    BY <2>1, SeqMonotonic
  <2>3. \A s \in Seq(Card) : Distinct(s) => Distinct(s)'
    BY <2>1, TrustIsAScore DEF Distinct, RouterInv
  <2>4. \A c \in Calls : DecisionOK(decision[c])'
    BY <1>2, <2>1, <2>2, <2>3 DEF RouterInv, DecisionOK
  <2>5. QED
    BY <1>2, <2>1, <2>4 DEF RouterInv, TotalRouted
<1>3. QED
  BY <1>1, <1>2 DEF RouterNext, routerVars

LEMMA RouterInvHolds == RouterSpec => []RouterInv
BY RouterInvInit, RouterInvStep, PTL DEF RouterSpec

\* A decision refers to cards that exist and to different agents, however many of them
\* were replaced, pruned or deregistered since it was taken.
THEOREM RouterTypeCorrect == RouterSpec => []RouterTypeOK
<1>1. RouterInv => RouterTypeOK
  <2> SUFFICES ASSUME RouterInv PROVE RouterTypeOK
    OBVIOUS
  <2>1. RegistryTypeOK
    BY RegistryInvType DEF RouterInv
  <2>2. stats \in [Outcomes -> 0..MaxRouted]
    BY RouterAssumption DEF RouterInv, TotalRouted, Outcomes
  <2>3. QED
    BY <2>1, <2>2 DEF RouterInv, RouterTypeOK, DecisionOK
<1>2. QED
  BY <1>1, RouterInvHolds, PTL

\* A message's candidates are the able agents, all of them, each once and best first.
THEOREM CandidatesAreTheAble == RouterSpec => CandidatesAreExact
<1> DEFINE A == \A c \in Calls, m \in Messages :
       Route(c, m) /\ decision'[c].outcome \in {"no_agent", "multi_agent", "routed"} =>
         LET found == decision'[c].candidates IN
         /\ Elements(found) = Able(decision'[c].translated)
         /\ Len(found) = Cardinality(Elements(found))
         /\ \A j, k \in DOMAIN found : j < k => cards[found[j]].trust >= cards[found[k]].trust
<1>1. RouterInv /\ [RouterNext]_routerVars => [A]_routerVars
  <2> SUFFICES ASSUME RouterInv, NEW c \in Calls, NEW m \in Messages, Route(c, m),
                      decision'[c].outcome \in {"no_agent", "multi_agent", "routed"}
               PROVE  LET found == decision'[c].candidates IN
                      /\ Elements(found) = Able(decision'[c].translated)
                      /\ Len(found) = Cardinality(Elements(found))
                      /\ \A j, k \in DOMAIN found :
                           j < k => cards[found[j]].trust >= cards[found[k]].trust
    OBVIOUS
  <2>1. PICK t \in Translated(m) : decision'[c] = Decision(m, t)
    BY DEF Route, RouterInv
  <2>2. /\ decision'[c].translated = t
        /\ decision'[c].candidates = Candidates(t, TrustFloor)
    BY <2>1, DecisionCases
  <2>3. QED
    BY <2>2, CandidatesFacts DEF RouterInv
<1>2. CandidatesAreExact <=> [][A]_routerVars
  BY DEF CandidatesAreExact
<1> HIDE DEF A
<1>3. QED
  BY <1>1, <1>2, RouterInvHolds, PTL DEF RouterSpec

\* The chosen agent is able, and unbeaten but for the preference of the platform.
THEOREM PrimaryIsAbleAndUnbeaten == RouterSpec => PrimaryIsUnbeaten
<1> DEFINE A == \A c \in Calls, m \in Messages :
       Route(c, m) /\ decision'[c].outcome = "routed" =>
         LET p == decision'[c].primary IN
         /\ p \in Able(decision'[c].translated)
         /\ \A o \in Able(decision'[c].translated) :
              cards[o].trust > cards[p].trust =>
                cards[p].platform = m.platform /\ cards[o].platform # m.platform
<1>1. RouterInv /\ [RouterNext]_routerVars => [A]_routerVars
  <2> SUFFICES ASSUME RouterInv, NEW c \in Calls, NEW m \in Messages, Route(c, m),
                      decision'[c].outcome = "routed"
               PROVE  LET p == decision'[c].primary IN
                      /\ p \in Able(decision'[c].translated)
                      /\ \A o \in Able(decision'[c].translated) :
                           cards[o].trust > cards[p].trust =>
                             cards[p].platform = m.platform /\ cards[o].platform # m.platform
    OBVIOUS
  <2>1. PICK t \in Translated(m) : decision'[c] = Decision(m, t)
    BY DEF Route, RouterInv
  <2> DEFINE found == Candidates(t, TrustFloor)
  <2>2. /\ decision'[c].translated = t /\ found # <<>>
        /\ decision'[c].primary = SelectBest(found, m)
    BY <2>1, DecisionCases
  <2>3. found \in Seq(Card) /\ Elements(found) = Able(t)
    BY CandidatesFacts DEF RouterInv
  <2> HIDE DEF found
  <2>4. QED
    BY <2>2, <2>3, SelectBestFacts DEF RouterInv
<1>2. PrimaryIsUnbeaten <=> [][A]_routerVars
  BY DEF PrimaryIsUnbeaten
<1> HIDE DEF A
<1>3. QED
  BY <1>1, <1>2, RouterInvHolds, PTL DEF RouterSpec
=============================================================================
