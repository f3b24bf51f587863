---------------------------- MODULE PACTBridgeProofs ----------------------------
(***************************************************************************)
(* handle() over all components, for every number of calls, messages,      *)
(* agents and sessions, and every risk formula: what holds whatever the    *)
(* interleaving, and what one caller at a time is promised.                *)
(***************************************************************************)
EXTENDS PACTBridge, IntentRouterProofs, RLPEventsProofs

\* Whom a turn can be recorded for, and what a Session of the bridge holds.
Served == AgentIds \cup {"consensus"}

BridgeSession == [sid : Ids, turns : Seq(Served), idle : 0..(SessionTTL + 1)]

\* The trust a ledger may hold: what a message claims is not clamped, so it is a level
\* only if all messages claim one.
InRange == \A m \in Messages : m.trust \in Level \cup {NoTrust}
TrustRange == IF InRange THEN Level ELSE Int

BridgeLedger == [trust : TrustRange, intent : Level, narrative : Level, commitments : Level]
BridgeRLP    == [ledger : BridgeLedger, gate : BOOLEAN]
BridgeUpdate == [kind : {"trust_evaluated"}, arg : TrustRange] \cup
                [kind : {"intent_translated", "consensus_reached"}, arg : Level] \cup Unscored

PoolsOK ==
  /\ sessions \in Seq(BridgeSession)
  /\ DOMAIN store \subseteq Ids
  /\ \A s \in DOMAIN store : store[s] \in DOMAIN sessions /\ sessions[store[s]].sid = s
  /\ rlps \in Seq(BridgeRLP)
  /\ DOMAIN rlpStore \subseteq Ids
  /\ \A s \in DOMAIN rlpStore : rlpStore[s] \in DOMAIN rlps

\* pact-hh carries an approval to an RLPSession that the store has had.
HumanOK ==
  \/ human = HumanIdle
  \/ /\ human \in [pc : {"approve", "acknowledge", "nudge"}, sid : Ids, rlp : DOMAIN rlps]
     /\ spent.approvals # 0

BooksOK ==
  /\ answers \in [handled : Nat, served : Nat, failed : Nat]
  /\ answers.handled <= MaxHandled
  /\ spent \in [ticks : Nat, changes : Nat, reports : Nat, approvals : Nat]

\* How far a call has come: what it looks up is there from then on.
Looking  == {"idle", "fetch", "evict", "create"}
Entering == Looking \cup {"test", "touch", "rlp", "rlp_create", "rlp_get"}
Unrouted == Entering \cup {"route"}

CallRecord ==
  [pc : Locations, msg : Messages \cup {None}, session : Nat, rlp : Nat,
   event : BridgeUpdate \cup {None}, read : BridgeLedger \cup {None}, votes : Nat,
   reports : Nat, ok : BOOLEAN]

\* A call k that holds the decision d.
CallOK(k, d) ==
  /\ k \in CallRecord
  /\ k.pc # "idle" => k.msg \in Messages
  /\ k.pc \in Looking <=> k.session = None
  /\ k.pc \notin Looking => k.session \in DOMAIN sessions
  /\ k.pc \in Entering <=> k.rlp = None
  /\ k.pc \notin Entering => k.rlp \in DOMAIN rlps
  /\ k.pc \notin Looking \cup {"test", "touch", "rlp", "rlp_create"} =>
       sessions[k.session].sid \in DOMAIN rlpStore
  /\ k.pc \in {"read", "write"} => k.event \in BridgeUpdate
  /\ k.pc = "write" => k.read \in BridgeLedger
  /\ DecisionOK(d)

BridgeInv ==
  /\ RegistryInv /\ PoolsOK /\ HumanOK /\ BooksOK
  /\ DOMAIN call = Calls /\ DOMAIN decision = Calls
  /\ \A c \in Calls : CallOK(call[c], decision[c])

-----------------------------------------------------------------------------
\* The arithmetic of rlp_session.py on the ledgers of a bridge.

LEMMA TrustFacts ==
  /\ TrustRange \subseteq Int /\ Level \subseteq TrustRange
  /\ \A t \in TrustRange : MapTrust(t) \in TrustRange
  /\ \A t \in TrustRange, by \in Nat :
       Raised(t, by) \in TrustRange /\ Lowered(t, by) \in TrustRange
<1>1. CASE InRange
  <2>1. TrustRange = Level
    BY <1>1 DEF TrustRange
  <2>2. QED
    BY <2>1, MappedTrust, ClampedLevels DEF Level
<1>2. CASE ~InRange
  <2>1. TrustRange = Int
    BY <1>2 DEF TrustRange
  <2>2. QED
    BY <2>1 DEF Level, MapTrust, Raised, Lowered
<1>3. QED
  BY <1>1, <1>2

\* A message that is routed has a trust in the range.
LEMMA RoutedTrust ==
  ASSUME NEW m \in Messages, m.trust # NoTrust
  PROVE  m.trust \in TrustRange
BY BridgeAssumption DEF TrustRange, InRange

LEMMA BridgeApplied ==
  ASSUME NEW u \in BridgeUpdate, NEW l \in BridgeLedger
  PROVE  Applied(u, l) \in BridgeLedger
<1> USE TrustFacts, ClampedLevels DEF BridgeLedger
<1>1. CASE u.kind = "trust_evaluated"
  <2>1. u.arg \in TrustRange
    BY <1>1 DEF BridgeUpdate, Unscored
  <2>2. QED
    BY <1>1, <2>1 DEF Applied
<1>2. CASE u.kind = "intent_translated"
  <2>1. u.arg \in Level
    BY <1>2 DEF BridgeUpdate, Unscored
  <2>2. QED
    BY <1>2, <2>1 DEF Applied
<1>3. CASE u.kind = "consensus_reached"
  <2>1. u.arg \in Level
    BY <1>3 DEF BridgeUpdate, Unscored
  <2>2. QED
    BY <1>3, <2>1 DEF Applied
<1>4. CASE u.kind \in {"consensus_failed", "commitment_made", "nudge"}
  BY <1>4 DEF Applied
<1>5. CASE u.kind \in {"escalation_to_human", "hold", "escalate"}
  BY <1>5 DEF Applied
<1>6. QED
  BY <1>1, <1>2, <1>3, <1>4, <1>5 DEF BridgeUpdate, Unscored

\* update_state and acknowledge_repair on the RLPSessions of a bridge.
LEMMA BridgeUpdated ==
  ASSUME NEW r \in BridgeRLP, NEW l \in BridgeLedger
  PROVE  /\ UpdateState(r, l) \in BridgeRLP
         /\ UpdateState(r, l).ledger = l
         /\ UpdateState(r, l).gate = (r.gate /\ ~Ruptured(l))
BY DEF UpdateState, BridgeRLP, Ruptured

LEMMA BridgeAcknowledged ==
  ASSUME NEW r \in BridgeRLP
  PROVE  /\ AcknowledgeRepair(r) \in BridgeRLP
         /\ AcknowledgeRepair(r).ledger = r.ledger
         /\ AcknowledgeRepair(r).gate = (r.gate \/ ~Ruptured(r.ledger))
BY DEF AcknowledgeRepair, BridgeRLP, Ruptured

LEMMA BridgeFresh == NewRLP0 \in BridgeRLP /\ ApprovedLedger \in BridgeLedger
BY LedgerAssumption, FreshInstance, TrustFacts DEF NewRLP0, BridgeRLP, BridgeLedger, Ledger

-----------------------------------------------------------------------------
\* Nothing that a call holds on to is taken away.
PoolsKept ==
  /\ DOMAIN sessions \subseteq DOMAIN sessions'
  /\ \A o \in DOMAIN sessions : sessions'[o].sid = sessions[o].sid
  /\ DOMAIN rlps \subseteq DOMAIN rlps'
  /\ DOMAIN rlpStore \subseteq DOMAIN rlpStore'
  /\ Card \subseteq Card' /\ \A o \in Card : cards'[o].agent_id = cards[o].agent_id

LEMMA CallStays ==
  ASSUME PoolsKept, NEW k, NEW d, CallOK(k, d)
  PROVE  CallOK(k, d)'
<1>1. d.candidates \in Seq(Card')
  BY SeqMonotonic DEF CallOK, DecisionOK, PoolsKept
<1>2. DecisionOK(d)'
  <2>1. \A j \in DOMAIN d.candidates : d.candidates[j] \in Card
    BY ElementOfSeq DEF CallOK, DecisionOK
  <2>2. Distinct(d.candidates)'
    BY <2>1 DEF CallOK, DecisionOK, PoolsKept, Distinct
  <2>3. QED
    BY <1>1, <2>2 DEF CallOK, DecisionOK, PoolsKept
<1>3. k.pc \notin Looking => sessions'[k.session].sid = sessions[k.session].sid
  BY DEF CallOK, PoolsKept
<1>4. QED
  BY <1>2, <1>3 DEF CallOK, PoolsKept, Looking, Entering, Unrouted

\* One call moves, the others keep what they hold.
LEMMA OneMoves ==
  ASSUME BridgeInv, RegistryInv', PoolsOK', HumanOK', BooksOK', PoolsKept,
         NEW c \in Calls, NEW k, NEW d, CallOK(k, d)',
         call' = [call EXCEPT ![c] = k],
         decision' = [decision EXCEPT ![c] = d] \/ (decision' = decision /\ d = decision[c])
  PROVE  BridgeInv'
<1>1. /\ DOMAIN call' = Calls /\ call'[c] = k
      /\ \A b \in Calls : b # c => call'[b] = call[b]
  BY DEF BridgeInv
<1>2. /\ DOMAIN decision' = Calls /\ decision'[c] = d
      /\ \A b \in Calls : b # c => decision'[b] = decision[b]
  BY DEF BridgeInv
<1>3. \A b \in Calls : b # c => CallOK(call[b], decision[b])'
  <2> SUFFICES ASSUME NEW b \in Calls, b # c PROVE CallOK(call[b], decision[b])'
    OBVIOUS
  <2>1. PICK kb, db : kb = call[b] /\ db = decision[b]
    OBVIOUS
  <2>2. CallOK(kb, db)
    BY <2>1 DEF BridgeInv
  <2>3. CallOK(kb, db)'
    BY <2>2, CallStays
  <2>4. kb = call'[b] /\ db = decision'[b]
    BY <1>1, <1>2, <2>1
  <2>5. QED
    BY <2>3, <2>4 DEF CallOK, DecisionOK, Distinct
<1>4. QED
  BY <1>1, <1>2, <1>3 DEF BridgeInv

\* A step of one call that leaves everything shared alone.
LEMMA CallMoves ==
  ASSUME BridgeInv, BooksOK', UNCHANGED <<poolVars, envVars>>,
         NEW c \in Calls, NEW k, NEW d, CallOK(k, d),
         call' = [call EXCEPT ![c] = k],
         decision' = [decision EXCEPT ![c] = d] \/ (decision' = decision /\ d = decision[c])
  PROVE  BridgeInv'
<1>1. PoolsKept
  BY DEF PoolsKept, poolVars, envVars, registryVars, Card, Distinct
<1>2. RegistryInv' /\ PoolsOK' /\ HumanOK'
  BY DEF BridgeInv, RegistryInv, PoolsOK, HumanOK, poolVars, envVars, registryVars, Card, Distinct
<1>3. CallOK(k, d)'
  BY <1>1, CallStays
<1>4. QED
  BY <1>1, <1>2, <1>3, OneMoves

\* The books of a step that counts one thing more.
LEMMA Bumped ==
  ASSUME BooksOK, UNCHANGED spent,
         NEW k \in {"served", "failed"}, Count(k)
  PROVE  BooksOK'
<1>1. CASE k = "served"
  BY <1>1 DEF BooksOK, Count
<1>2. CASE k = "failed"
  BY <1>2 DEF BooksOK, Count
<1>3. QED
  BY <1>1, <1>2

LEMMA HandledFits ==
  ASSUME BooksOK, UNCHANGED spent, answers.handled < MaxHandled,
         \/ answers' = [answers EXCEPT !.handled = @ + 1]
         \/ answers' = [answers EXCEPT !.handled = @ + 1, !.failed = @ + 1]
  PROVE  BooksOK'
<1>1. answers.handled \in Nat /\ answers.handled + 1 <= MaxHandled
  BY BridgeAssumption DEF BooksOK
<1>2. answers'.handled = answers.handled + 1
  BY DEF BooksOK
<1>3. answers' \in [handled : Nat, served : Nat, failed : Nat]
  <2> DEFINE h == answers.handled + 1
             e == answers.failed + 1
  <2>1. h \in Nat /\ e \in Nat
    BY DEF BooksOK
  <2>2. \/ answers' = [answers EXCEPT !.handled = h]
        \/ answers' = [answers EXCEPT !.handled = h, !.failed = e]
    OBVIOUS
  <2> HIDE DEF h, e
  <2>3. QED
    BY <2>1, <2>2 DEF BooksOK
<1>4. QED
  BY <1>1, <1>2, <1>3 DEF BooksOK

LEMMA NoCallIsOK == CallOK(Idle, NoDecision)
<1>1. DecisionOK(NoDecision) /\ NoDecision.candidates = <<>>
  BY EmptySeq DEF NoDecision, RoutingDecision, DecisionOK, Outcomes, Distinct
<1>2. Len(<<>>) = 0
  BY EmptySeq
<1>3. QED
  BY <1>1, <1>2 DEF CallOK, CallRecord, Idle, Locations, Looking, Entering, Unrouted, None

\* A call ends, with whatever it held.
LEMMA OverKeepsInv ==
  ASSUME BridgeInv, BooksOK', UNCHANGED <<poolVars, envVars>>, NEW c \in Calls, Over(c)
  PROVE  BridgeInv'
<1>1. CallOK(Idle, NoDecision)
  BY NoCallIsOK
<1>2. call' = [call EXCEPT ![c] = Idle] /\ decision' = [decision EXCEPT ![c] = NoDecision]
  BY DEF Over
<1>3. QED
  BY <1>1, <1>2, CallMoves

LEMMA ErrorKeepsInv ==
  ASSUME BridgeInv, NEW c \in Calls, Error(c)
  PROVE  BridgeInv'
<1>1. Over(c) /\ Count("failed") /\ UNCHANGED <<poolVars, envVars>>
  BY DEF Error
<1>2. BooksOK'
  BY <1>1, Bumped DEF BridgeInv, envVars, registryVars
<1>3. QED
  BY <1>1, <1>2, OverKeepsInv

-----------------------------------------------------------------------------
\* A message comes in.
LEMMA HandleKeepsInv ==
  ASSUME BridgeInv, NEW c \in Calls, NEW m \in Messages, Handle(c, m)
  PROVE  BridgeInv'
<1> DEFINE k == [call[c] EXCEPT !.msg = m,
                    !.pc = IF m.sid \in DOMAIN store THEN "fetch" ELSE "create"]
           d == decision[c]
<1>1. CallOK(call[c], d) /\ call[c].pc = "idle"
  BY DEF BridgeInv, Handle, At
<1>2. m.sid \in SessionIds \cup {NoSid} /\ (m.sid \in DOMAIN store => m.sid # NoSid)
  BY BridgeAssumption DEF BridgeInv, PoolsOK, Ids
<1>3. CallOK(k, d)
  BY <1>1, <1>2 DEF CallOK, CallRecord, Locations, Looking, Entering, Unrouted
<1>4. call' = [call EXCEPT ![c] = k] /\ decision' = decision
  BY DEF Handle
<1>5. BooksOK'
  <2>1. BooksOK /\ answers' = [answers EXCEPT !.handled = @ + 1] /\ spent' = spent
    BY DEF Handle, Count, BridgeInv, envVars, registryVars
  <2>2. answers.handled < MaxHandled
    BY DEF Handle
  <2>3. QED
    BY <2>1, <2>2, HandledFits
<1>6. UNCHANGED <<poolVars, envVars>>
  BY DEF Handle
<1> HIDE DEF k, d
<1>7. QED
  BY <1>3, <1>4, <1>5, <1>6, CallMoves DEF d

LEMMA HandleMalformedKeepsInv ==
  ASSUME BridgeInv, NEW c \in Calls, HandleMalformed(c)
  PROVE  BridgeInv'
<1>1. BooksOK'
  <2>1. BooksOK /\ answers' = [answers EXCEPT !.handled = @ + 1, !.failed = @ + 1] /\ spent' = spent
    BY DEF HandleMalformed, BridgeInv, envVars, registryVars
  <2>2. answers.handled < MaxHandled
    BY DEF HandleMalformed
  <2>3. QED
    BY <2>1, <2>2, HandledFits
<1>2. PoolsKept
  BY DEF HandleMalformed, PoolsKept, poolVars, envVars, registryVars, Card, Distinct
<1>3. QED
  BY <1>1, <1>2 DEF HandleMalformed, BridgeInv, RegistryInv, PoolsOK, HumanOK, CallOK,
                    DecisionOK, poolVars, envVars, registryVars, Card, Distinct

\* A step that only moves the program counter, from one place to a later one.
LEMMA GotoKeepsInv ==
  ASSUME BridgeInv, BooksOK', UNCHANGED <<decision, poolVars, envVars>>, NEW c \in Calls,
         NEW label \in Locations, Goto(c, label),
         \/ call[c].pc = "test" /\ label = "touch"
         \/ call[c].pc = "rlp" /\ label = "rlp_create"
         \/ call[c].pc = "rlp" /\ label = "rlp_get" /\ SessionOf(c) \in DOMAIN rlpStore
         \/ call[c].pc \notin Unrouted /\ label = "record"
  PROVE  BridgeInv'
<1> DEFINE k == [call[c] EXCEPT !.pc = label]
           d == decision[c]
<1>1. CallOK(call[c], d)
  BY DEF BridgeInv
<1>2. call[c] \in CallRecord
  BY <1>1 DEF CallOK
<1>3. /\ k \in CallRecord /\ k.pc = label /\ k.msg = call[c].msg
      /\ k.session = call[c].session /\ k.rlp = call[c].rlp
  BY <1>2 DEF CallRecord
<1> HIDE DEF k
<1>4. CallOK(k, d)
  BY <1>1, <1>3 DEF CallOK, SessionOf, Looking, Entering, Unrouted
<1>5. call' = [call EXCEPT ![c] = k]
  BY DEF Goto, k
<1>6. UNCHANGED <<poolVars, envVars>>
  OBVIOUS
<1>7. QED
  BY <1>4, <1>5, <1>6, CallMoves

LEMMA WalkKeepsInv ==
  ASSUME BridgeInv, NEW c \in Calls,
         FindFresh(c) \/ RlpTest(c) \/ Dispatch(c)
  PROVE  BridgeInv'
<1> USE DEF At, Locations, Unrouted, Entering, Looking
<1>1. BooksOK' /\ UNCHANGED <<decision, poolVars, envVars>>
  BY DEF FindFresh, RlpTest, Dispatch, BridgeInv, BooksOK, envVars, registryVars
<1>2. CASE FindFresh(c)
  BY <1>1, <1>2, GotoKeepsInv DEF FindFresh
<1>3. CASE RlpTest(c)
  BY <1>1, <1>3, GotoKeepsInv DEF RlpTest
<1>4. CASE Dispatch(c)
  BY <1>1, <1>4, GotoKeepsInv DEF Dispatch
<1>5. QED
  BY <1>2, <1>3, <1>4

\* The entry of the id is taken out of the store; its age test follows.
LEMMA FetchKeepsInv ==
  ASSUME BridgeInv, NEW c \in Calls, Fetch(c)
  PROVE  BridgeInv'
<1> DEFINE o == store[Sid(c)]
           k == [call[c] EXCEPT !.pc = "test", !.session = o]
           d == decision[c]
<1>1. CallOK(call[c], d) /\ call[c].pc = "fetch" /\ Sid(c) \in DOMAIN store
  BY DEF BridgeInv, Fetch, At
<1>2. o \in DOMAIN sessions /\ DOMAIN sessions \subseteq Nat \ {0}
  BY <1>1, LenProperties DEF BridgeInv, PoolsOK
<1> HIDE DEF o
<1>3. /\ k \in CallRecord /\ k.pc = "test" /\ k.rlp = call[c].rlp /\ k.msg = call[c].msg
      /\ k.session = o
  BY <1>1, <1>2 DEF CallOK, CallRecord, Locations
<1>4. call' = [call EXCEPT ![c] = k] /\ decision' = decision
  BY DEF Fetch, o
<1> HIDE DEF k
<1>5. CallOK(k, d)
  BY <1>1, <1>2, <1>3 DEF CallOK, Looking, Entering, Unrouted, None
<1>6. BooksOK' /\ UNCHANGED <<poolVars, envVars>>
  BY DEF Fetch, BridgeInv, BooksOK, envVars, registryVars
<1>7. QED
  BY <1>4, <1>5, <1>6, CallMoves

LEMMA FindExpiredKeepsInv ==
  ASSUME BridgeInv, NEW c \in Calls, FindExpired(c)
  PROVE  BridgeInv'
<1> DEFINE k == [call[c] EXCEPT !.pc = "evict", !.session = None]
           d == decision[c]
<1>1. CallOK(call[c], d) /\ call[c].pc = "test"
  BY DEF BridgeInv, FindExpired, At
<1>2. /\ k \in CallRecord /\ k.pc = "evict" /\ k.rlp = call[c].rlp /\ k.msg = call[c].msg
      /\ k.session = None
  BY <1>1 DEF CallOK, CallRecord, Locations, None
<1>3. call' = [call EXCEPT ![c] = k] /\ decision' = decision
  BY DEF FindExpired
<1> HIDE DEF k
<1>4. CallOK(k, d)
  BY <1>1, <1>2 DEF CallOK, Looking, Entering, Unrouted, None
<1>5. BooksOK' /\ UNCHANGED <<poolVars, envVars>>
  BY DEF FindExpired, BridgeInv, BooksOK, envVars, registryVars
<1>6. QED
  BY <1>3, <1>4, <1>5, CallMoves

\* The gate is passed once, for all the agents of the message.
LEMMA PassGateKeepsInv ==
  ASSUME BridgeInv, NEW c \in Calls, PassGate(c)
  PROVE  BridgeInv'
<1>0. PICK label \in {"vote", "dispatch"} :
        call' = [call EXCEPT ![c].pc = label, ![c].reports = spent.reports]
  BY DEF PassGate
<1> DEFINE k == [call[c] EXCEPT !.pc = label, !.reports = spent.reports]
           d == decision[c]
<1>1. CallOK(call[c], d) /\ call[c].pc = "gate" /\ spent.reports \in Nat
  BY DEF BridgeInv, BooksOK, PassGate, At
<1>2. /\ k \in CallRecord /\ k.pc = label /\ k.rlp = call[c].rlp /\ k.msg = call[c].msg
      /\ k.session = call[c].session
  BY <1>1 DEF CallOK, CallRecord, Locations
<1>3. call' = [call EXCEPT ![c] = k] /\ decision' = decision
  BY <1>0 DEF PassGate
<1> HIDE DEF k
<1>4. CallOK(k, d)
  BY <1>1, <1>2 DEF CallOK, Looking, Entering, Unrouted, None
<1>5. BooksOK' /\ UNCHANGED <<poolVars, envVars>>
  BY DEF PassGate, BridgeInv, BooksOK, envVars, registryVars
<1>6. QED
  BY <1>3, <1>4, <1>5, CallMoves

LEMMA FailureKeepsInv ==
  ASSUME BridgeInv, NEW c \in Calls,
         \/ KeyError(c) \/ RouteNull(c) \/ MalformedVote(c) \/ RoundRaises(c)
         \/ NoVoterListed(c) \/ AdaptNull(c)
  PROVE  BridgeInv'
BY ErrorKeepsInv DEF KeyError, RouteNull, MalformedVote, RoundRaises, NoVoterListed, AdaptNull

LEMMA AdaptKeepsInv ==
  ASSUME BridgeInv, NEW c \in Calls, Adapt(c)
  PROVE  BridgeInv'
<1>1. Over(c) /\ (Count("served") \/ UNCHANGED answers) /\ UNCHANGED <<poolVars, envVars>>
  BY DEF Adapt
<1>2. BooksOK'
  BY <1>1, Bumped DEF BridgeInv, BooksOK, envVars, registryVars
<1>3. QED
  BY <1>1, <1>2, OverKeepsInv

LEMMA RlpGetKeepsInv ==
  ASSUME BridgeInv, NEW c \in Calls, RlpGet(c)
  PROVE  BridgeInv'
<1> DEFINE r == rlpStore[SessionOf(c)]
           k == [call[c] EXCEPT !.pc = "route", !.rlp = r]
           d == decision[c]
<1>1. CallOK(call[c], d) /\ call[c].pc = "rlp_get"
  BY DEF BridgeInv, RlpGet, At
<1>2. SessionOf(c) \in DOMAIN rlpStore
  BY <1>1 DEF CallOK, SessionOf, Looking
<1>3. r \in DOMAIN rlps /\ DOMAIN rlps \subseteq Nat \ {0}
  BY <1>2, LenProperties DEF BridgeInv, PoolsOK
<1> HIDE DEF r
<1>4. /\ k \in CallRecord /\ k.pc = "route" /\ k.rlp = r /\ k.msg = call[c].msg
      /\ k.session = call[c].session
  BY <1>1, <1>3 DEF CallOK, CallRecord, Locations
<1>5. call' = [call EXCEPT ![c] = k] /\ decision' = decision
  BY DEF RlpGet, r
<1> HIDE DEF k
<1>6. CallOK(k, d)
  BY <1>1, <1>3, <1>4 DEF CallOK, Looking, Entering, Unrouted, None
<1>7. BooksOK' /\ UNCHANGED <<poolVars, envVars>>
  BY DEF RlpGet, BridgeInv, BooksOK, envVars, registryVars
<1>8. QED
  BY <1>5, <1>6, <1>7, CallMoves

\* The router's decision refers to cards on the heap.
LEMMA RouteCallKeepsInv ==
  ASSUME BridgeInv, NEW c \in Calls, RouteCall(c)
  PROVE  BridgeInv'
<1> DEFINE trust == call[c].msg.trust
           event == [kind |-> "trust_evaluated", arg |-> trust]
           k == [call[c] EXCEPT !.pc = "read", !.event = event]
<1>1. CallOK(call[c], decision[c]) /\ call[c].pc = "route" /\ trust # NoTrust
  BY DEF BridgeInv, RouteCall, At
<1>2. trust \in TrustRange
  BY <1>1, RoutedTrust DEF CallOK
<1>3. event \in BridgeUpdate
  BY <1>2 DEF BridgeUpdate
<1>4. PICK d : DecisionOK(d) /\ decision' = [decision EXCEPT ![c] = d]
  <2>1. PICK t \in Translated(call[c].msg) :
          decision' = [decision EXCEPT ![c] = Decision(call[c].msg, t)]
    BY DEF RouteCall, Route
  <2>2. DecisionOK(Decision(call[c].msg, t))
    BY DecisionIsOK DEF BridgeInv
  <2>3. QED
    BY <2>1, <2>2
<1> HIDE DEF event
<1>5. /\ k \in CallRecord /\ k.pc = "read" /\ k.rlp = call[c].rlp /\ k.msg = call[c].msg
      /\ k.session = call[c].session /\ k.event = event
  BY <1>1, <1>3 DEF CallOK, CallRecord, Locations
<1>6. call' = [call EXCEPT ![c] = k]
  BY DEF RouteCall, event
<1> HIDE DEF k
<1>7. CallOK(k, d)
  BY <1>1, <1>2, <1>3, <1>4, <1>5 DEF CallOK, Looking, Entering, Unrouted, None
<1>8. BooksOK' /\ UNCHANGED <<poolVars, envVars>>
  BY DEF RouteCall, Route, BridgeInv, BooksOK, envVars, registryVars
<1>9. QED
  BY <1>4, <1>6, <1>7, <1>8, CallMoves

\* The ledger of the call's RLPSession, read.
LEMMA ReadLedgerKeepsInv ==
  ASSUME BridgeInv, NEW c \in Calls, ReadLedger(c)
  PROVE  BridgeInv'
<1> DEFINE l == rlps[call[c].rlp].ledger
           k == [call[c] EXCEPT !.pc = "write", !.read = l]
           d == decision[c]
<1>1. CallOK(call[c], d) /\ call[c].pc = "read"
  BY DEF BridgeInv, ReadLedger, At
<1>2. rlps[call[c].rlp] \in BridgeRLP
  BY <1>1, ElementOfSeq DEF CallOK, Entering, Looking, BridgeInv, PoolsOK
<1>3. l \in BridgeLedger
  BY <1>2 DEF BridgeRLP
<1> HIDE DEF l
<1>4. /\ k \in CallRecord /\ k.pc = "write" /\ k.rlp = call[c].rlp /\ k.msg = call[c].msg
      /\ k.session = call[c].session /\ k.event = call[c].event
      /\ k.read = l
  BY <1>1, <1>3 DEF CallOK, CallRecord, Locations
<1>5. call' = [call EXCEPT ![c] = k] /\ decision' = decision
  BY DEF ReadLedger, l
<1> HIDE DEF k
<1>6. CallOK(k, d)
  BY <1>1, <1>3, <1>4 DEF CallOK, Looking, Entering, Unrouted, None
<1>7. BooksOK' /\ UNCHANGED <<poolVars, envVars>>
  BY DEF ReadLedger, BridgeInv, BooksOK, envVars, registryVars
<1>8. QED
  BY <1>5, <1>6, <1>7, CallMoves

LEMMA BlockedKeepsInv ==
  ASSUME BridgeInv, NEW c \in Calls, Blocked(c)
  PROVE  BridgeInv'
<1> DEFINE k == [call[c] EXCEPT !.pc = "adapt", !.ok = FALSE]
           d == decision[c]
<1>1. CallOK(call[c], d) /\ call[c].pc = "gate"
  BY DEF BridgeInv, Blocked, At
<1>2. /\ k \in CallRecord /\ k.pc = "adapt" /\ k.rlp = call[c].rlp /\ k.msg = call[c].msg
      /\ k.session = call[c].session
  BY <1>1 DEF CallOK, CallRecord, Locations
<1>3. call' = [call EXCEPT ![c] = k] /\ decision' = decision
  BY DEF Blocked, Respond
<1> HIDE DEF k
<1>4. CallOK(k, d)
  BY <1>1, <1>2 DEF CallOK, Looking, Entering, Unrouted, None
<1>5. BooksOK' /\ UNCHANGED <<poolVars, envVars>>
  BY DEF Blocked, BridgeInv, BooksOK, envVars, registryVars
<1>6. QED
  BY <1>3, <1>4, <1>5, CallMoves

LEMMA VoteKeepsInv ==
  ASSUME BridgeInv, NEW c \in Calls, Vote(c)
  PROVE  BridgeInv'
<1> DEFINE v == call[c].votes + 1
           k == [call[c] EXCEPT !.votes = v]
           d == decision[c]
<1>1. CallOK(call[c], d) /\ call[c].pc = "vote"
  BY DEF BridgeInv, Vote, At
<1>2. v \in Nat
  BY <1>1 DEF CallOK, CallRecord
<1>3. call' = [call EXCEPT ![c] = k] /\ decision' = decision
  BY DEF Vote
<1> HIDE DEF v
<1>4. /\ k \in CallRecord /\ k.pc = "vote" /\ k.rlp = call[c].rlp /\ k.msg = call[c].msg
      /\ k.session = call[c].session
  BY <1>1, <1>2 DEF CallOK, CallRecord
<1> HIDE DEF k
<1>5. CallOK(k, d)
  BY <1>1, <1>4 DEF CallOK, Looking, Entering, Unrouted, None
<1>6. BooksOK' /\ UNCHANGED <<poolVars, envVars>>
  BY DEF Vote, BridgeInv, BooksOK, envVars, registryVars
<1>7. QED
  BY <1>3, <1>5, <1>6, CallMoves

LEMMA RunConsensusKeepsInv ==
  ASSUME BridgeInv, NEW c \in Calls, RunConsensus(c)
  PROVE  BridgeInv'
<1>1. PICK event \in [kind: {"consensus_reached"}, arg: Confidences] \cup
                     [kind: {"consensus_failed"}] :
        call' = [call EXCEPT ![c].pc = "read", ![c].event = event]
  BY DEF RunConsensus
<1>2. event \in BridgeUpdate
  BY <1>1, BridgeAssumption DEF BridgeUpdate, Unscored
<1> DEFINE k == [call[c] EXCEPT !.pc = "read", !.event = event]
           d == decision[c]
<1>3. CallOK(call[c], d) /\ call[c].pc = "vote"
  BY DEF BridgeInv, RunConsensus, At
<1>4. /\ k \in CallRecord /\ k.pc = "read" /\ k.rlp = call[c].rlp /\ k.msg = call[c].msg
      /\ k.session = call[c].session /\ k.event = event
  BY <1>2, <1>3 DEF CallOK, CallRecord, Locations
<1>5. call' = [call EXCEPT ![c] = k] /\ decision' = decision
  BY <1>1 DEF RunConsensus
<1> HIDE DEF k
<1>6. CallOK(k, d)
  BY <1>2, <1>3, <1>4 DEF CallOK, Looking, Entering, Unrouted, None
<1>7. BooksOK' /\ UNCHANGED <<poolVars, envVars>>
  BY DEF RunConsensus, BridgeInv, BooksOK, envVars, registryVars
<1>8. QED
  BY <1>5, <1>6, <1>7, CallMoves

-----------------------------------------------------------------------------
\* The steps that change what is shared.

\* What the operations on a Session keep.
LEMMA BridgeSessionFacts ==
  ASSUME NEW session \in BridgeSession
  PROVE  /\ Touched(session) \in BridgeSession /\ Touched(session).sid = session.sid
         /\ Older(session) \in BridgeSession /\ Older(session).sid = session.sid
         /\ \A agent \in Served : /\ Recorded(session, agent) \in BridgeSession
                                  /\ Recorded(session, agent).sid = session.sid
<1>1. SessionTTL \in Nat /\ 0 \in 0..(SessionTTL + 1)
  BY SessionTTLAssumption
<1>2. session.idle \in 0..(SessionTTL + 1) /\ session.turns \in Seq(Served)
  BY DEF BridgeSession
<1>3. Touched(session) \in BridgeSession /\ Touched(session).sid = session.sid
  BY <1>1 DEF Touched, BridgeSession
<1>4. Older(session) \in BridgeSession /\ Older(session).sid = session.sid
  BY <1>1, <1>2 DEF Older, BridgeSession
<1>5. ASSUME NEW agent \in Served
      PROVE  Recorded(session, agent) \in BridgeSession
             /\ Recorded(session, agent).sid = session.sid
  <2> DEFINE more == Append(session.turns, agent)
  <2>1. more \in Seq(Served)
    BY <1>2, AppendProperties
  <2>2. Recorded(session, agent) = [session EXCEPT !.turns = more, !.idle = 0]
    BY DEF Recorded
  <2> HIDE DEF more
  <2>3. QED
    BY <1>1, <2>1, <2>2, Zenon DEF BridgeSession
<1>6. QED
  BY <1>3, <1>4, <1>5

\* One Session changes and keeps its id.
LEMMA SessionChange ==
  ASSUME BridgeInv, NEW o \in DOMAIN sessions, NEW new \in BridgeSession,
         new.sid = sessions[o].sid, sessions' = [sessions EXCEPT ![o] = new],
         UNCHANGED <<store, rlps, rlpStore>>
  PROVE  /\ PoolsOK' /\ DOMAIN sessions' = DOMAIN sessions
         /\ \A p \in DOMAIN sessions : sessions'[p].sid = sessions[p].sid
<1>1. /\ sessions' \in Seq(BridgeSession) /\ DOMAIN sessions' = DOMAIN sessions
      /\ sessions'[o] = new /\ \A p \in DOMAIN sessions : p # o => sessions'[p] = sessions[p]
  BY ExceptSeq DEF BridgeInv, PoolsOK
<1>2. QED
  BY <1>1 DEF BridgeInv, PoolsOK

\* rlp-0 is told something: one instance changes, and whatever reads it goes on.
LEMMA RlpChange ==
  ASSUME BridgeInv, NEW r \in DOMAIN rlps, NEW new \in BridgeRLP,
         rlps' = [rlps EXCEPT ![r] = new], UNCHANGED <<sessions, store, rlpStore>>
  PROVE  PoolsOK' /\ DOMAIN rlps' = DOMAIN rlps
<1>1. rlps' \in Seq(BridgeRLP) /\ DOMAIN rlps' = DOMAIN rlps
  BY ExceptSeq DEF BridgeInv, PoolsOK
<1>2. QED
  BY <1>1 DEF BridgeInv, PoolsOK

\* A step of one call that also changes what is shared, and keeps what others hold.
LEMMA SharedMoves ==
  ASSUME BridgeInv, PoolsOK', UNCHANGED <<decision, answers, envVars>>,
         DOMAIN sessions \subseteq DOMAIN sessions',
         \A o \in DOMAIN sessions : sessions'[o].sid = sessions[o].sid,
         DOMAIN rlps \subseteq DOMAIN rlps', DOMAIN rlpStore \subseteq DOMAIN rlpStore',
         NEW c \in Calls, NEW k, call' = [call EXCEPT ![c] = k], CallOK(k, decision[c])'
  PROVE  BridgeInv'
<1>1. PoolsKept /\ RegistryInv' /\ BooksOK'
  BY DEF PoolsKept, envVars, registryVars, Card, Distinct, BridgeInv, RegistryInv, BooksOK
<1>2. HumanOK'
  BY DEF BridgeInv, HumanOK, envVars, registryVars
<1>3. PICK d : d = decision[c]
  OBVIOUS
<1>4. CallOK(k, d)' /\ decision' = decision
  BY <1>3
<1>5. QED
  BY <1>1, <1>2, <1>3, <1>4, OneMoves

\* The session a call took out of the store is touched, whether it is still there or not.
LEMMA ResumeFacts ==
  ASSUME BridgeInv, NEW c \in Calls, Resume(c)
  PROVE  /\ call[c].session \in DOMAIN sessions /\ sessions[call[c].session] \in BridgeSession
         /\ sessions' = [sessions EXCEPT ![call[c].session] = Touched(sessions[call[c].session])]
         /\ PoolsOK' /\ DOMAIN sessions' = DOMAIN sessions
         /\ \A p \in DOMAIN sessions : sessions'[p].sid = sessions[p].sid
<1>0. PICK o, new : o = call[c].session /\ new = Touched(sessions[o])
  OBVIOUS
<1>1. CallOK(call[c], decision[c]) /\ call[c].pc = "touch"
  BY DEF BridgeInv, Resume, At
<1>2. o \in DOMAIN sessions
  BY <1>0, <1>1 DEF CallOK, Looking
<1>3. sessions[o] \in BridgeSession
  BY <1>2, ElementOfSeq DEF BridgeInv, PoolsOK
<1>4. new \in BridgeSession /\ new.sid = sessions[o].sid
  BY <1>0, <1>3, BridgeSessionFacts
<1>5. sessions' = [sessions EXCEPT ![o] = new] /\ UNCHANGED <<store, rlps, rlpStore>>
  BY <1>0 DEF Resume
<1>6. /\ PoolsOK' /\ DOMAIN sessions' = DOMAIN sessions
      /\ \A p \in DOMAIN sessions : sessions'[p].sid = sessions[p].sid
  BY <1>2, <1>4, <1>5, SessionChange
<1>7. QED
  BY <1>0, <1>2, <1>3, <1>5, <1>6

LEMMA ResumeKeepsInv ==
  ASSUME BridgeInv, NEW c \in Calls, Resume(c)
  PROVE  BridgeInv'
<1>0. PICK k : k = [call[c] EXCEPT !.pc = "rlp"]
  OBVIOUS
<1>1. CallOK(call[c], decision[c]) /\ call[c].pc = "touch"
  BY DEF BridgeInv, Resume, At
<1>2. call' = [call EXCEPT ![c] = k] /\ UNCHANGED <<store, rlps, rlpStore, decision, answers, envVars>>
  BY <1>0 DEF Resume, Goto
<1>3. /\ k \in CallRecord /\ k.pc = "rlp" /\ k.rlp = call[c].rlp /\ k.msg = call[c].msg
      /\ k.session = call[c].session
  BY <1>0, <1>1 DEF CallOK, CallRecord, Locations
<1>4. CallOK(k, decision[c])'
  BY <1>1, <1>2, <1>3, ResumeFacts
     DEF CallOK, DecisionOK, Looking, Entering, Unrouted, None, envVars, registryVars, Card,
         Distinct
<1>5. QED
  BY <1>2, <1>4, ResumeFacts, SharedMoves

LEMMA EvictKeepsInv ==
  ASSUME BridgeInv, NEW c \in Calls, Evict(c)
  PROVE  BridgeInv'
<1>0. PICK k : k = [call[c] EXCEPT !.pc = "create"]
  OBVIOUS
<1>1. CallOK(call[c], decision[c]) /\ call[c].pc = "evict"
  BY DEF BridgeInv, Evict, At
<1>2. store' = Without(store, {Sid(c)}) /\ call' = [call EXCEPT ![c] = k]
      /\ UNCHANGED <<sessions, rlps, rlpStore, decision, answers, envVars>>
  BY <1>0 DEF Evict, Goto
<1>3. PoolsOK'
  BY <1>2 DEF BridgeInv, PoolsOK, Without
<1>4. /\ k \in CallRecord /\ k.pc = "create" /\ k.rlp = call[c].rlp /\ k.msg = call[c].msg
      /\ k.session = call[c].session
  BY <1>0, <1>1 DEF CallOK, CallRecord, Locations
<1>5. CallOK(k, decision[c])'
  BY <1>1, <1>2, <1>4
     DEF CallOK, DecisionOK, Looking, Entering, Unrouted, None, envVars, registryVars, Card,
         Distinct
<1>6. QED
  BY <1>2, <1>3, <1>5, SharedMoves

\* What create enters: a Session of the id asked for, or of an id no session has had.
LEMMA CreateFacts ==
  ASSUME BridgeInv, NEW c \in Calls, Create(c)
  PROVE  \E id \in Ids :
           /\ sessions' = Append(sessions, NewSession(id))
           /\ store' = Entry(store, id, Len(sessions) + 1)
           /\ call' = [call EXCEPT ![c].pc = "rlp", ![c].session = Len(sessions) + 1]
           /\ DOMAIN sessions' = DOMAIN sessions \cup {Len(sessions) + 1}
           /\ Len(sessions) + 1 \in Nat \ {0} /\ Len(sessions) + 1 \notin DOMAIN sessions
           /\ \A o \in DOMAIN sessions : sessions'[o] = sessions[o]
           /\ sessions'[Len(sessions) + 1].sid = id
           /\ PoolsOK'
<1>1. CallOK(call[c], decision[c]) /\ call[c].pc = "create"
  BY DEF BridgeInv, Create, At
<1>2. PICK id \in (IF Sid(c) = NoSid THEN Unused ELSE {Sid(c)}) :
        /\ sessions' = Append(sessions, NewSession(id))
        /\ store' = Entry(store, id, Len(sessions) + 1)
  BY DEF Create
<1>3. id \in Ids
  BY <1>1, <1>2, BridgeAssumption DEF CallOK, Sid, Unused, Ids
<1>4. NewSession(id) \in BridgeSession /\ NewSession(id).sid = id
  BY <1>3, EmptySeq, SessionTTLAssumption DEF NewSession, BridgeSession
<1>5. Len(sessions) \in Nat /\ DOMAIN sessions = 1..Len(sessions)
  BY LenProperties DEF BridgeInv, PoolsOK
<1>6. /\ sessions' \in Seq(BridgeSession) /\ DOMAIN sessions' = 1..(Len(sessions) + 1)
      /\ \A o \in DOMAIN sessions : sessions'[o] = sessions[o]
      /\ sessions'[Len(sessions) + 1] = NewSession(id)
  BY <1>2, <1>4, <1>5, AppendProperties DEF BridgeInv, PoolsOK
<1>7. /\ DOMAIN sessions' = DOMAIN sessions \cup {Len(sessions) + 1}
      /\ Len(sessions) + 1 \in Nat \ {0} /\ Len(sessions) + 1 \notin DOMAIN sessions
  BY <1>5, <1>6
<1>8. UNCHANGED <<rlps, rlpStore>>
      /\ call' = [call EXCEPT ![c].pc = "rlp", ![c].session = Len(sessions) + 1]
  BY DEF Create
<1>9. PoolsOK'
  BY <1>2, <1>3, <1>4, <1>6, <1>7, <1>8 DEF BridgeInv, PoolsOK, Entry
<1>10. QED
  BY <1>2, <1>3, <1>4, <1>6, <1>7, <1>8, <1>9

LEMMA CreateKeepsInv ==
  ASSUME BridgeInv, NEW c \in Calls, Create(c)
  PROVE  BridgeInv'
<1>0. PICK o, k : o = Len(sessions) + 1 /\ k = [call[c] EXCEPT !.pc = "rlp", !.session = o]
  OBVIOUS
<1>1. CallOK(call[c], decision[c]) /\ call[c].pc = "create"
  BY DEF BridgeInv, Create, At
<1>2. /\ call' = [call EXCEPT ![c] = k]
      /\ DOMAIN sessions' = DOMAIN sessions \cup {o}
      /\ o \in Nat \ {0} /\ PoolsOK'
      /\ \A p \in DOMAIN sessions : sessions'[p] = sessions[p]
  BY <1>0, CreateFacts
<1>3. UNCHANGED <<rlps, rlpStore, decision, answers, envVars>>
  BY DEF Create
<1>4. /\ k \in CallRecord /\ k.pc = "rlp" /\ k.rlp = call[c].rlp /\ k.msg = call[c].msg
      /\ k.session = o
  BY <1>0, <1>1, <1>2 DEF CallOK, CallRecord, Locations
<1>5. CallOK(k, decision[c])'
  BY <1>1, <1>2, <1>3, <1>4
     DEF CallOK, DecisionOK, Looking, Entering, Unrouted, None, envVars, registryVars, Card,
         Distinct
<1>6. QED
  BY <1>2, <1>3, <1>5, SharedMoves

\* A new RLPSession is entered under the id of the call's session.
LEMMA RlpCreateFacts ==
  ASSUME BridgeInv, NEW c \in Calls, RlpCreate(c)
  PROVE  /\ PoolsOK' /\ Len(rlps) + 1 \in Nat \ {0} /\ Len(rlps) + 1 \notin DOMAIN rlps
         /\ DOMAIN rlps' = DOMAIN rlps \cup {Len(rlps) + 1}
         /\ \A r \in DOMAIN rlps : rlps'[r] = rlps[r]
         /\ rlps'[Len(rlps) + 1] = NewRLP0
         /\ SessionOf(c) \in Ids /\ DOMAIN rlpStore' = DOMAIN rlpStore \cup {SessionOf(c)}
         /\ \A s \in DOMAIN rlpStore' :
              rlpStore'[s] = IF s = SessionOf(c) THEN Len(rlps) + 1 ELSE rlpStore[s]
<1>1. CallOK(call[c], decision[c]) /\ call[c].pc = "rlp_create"
  BY DEF BridgeInv, RlpCreate, At
<1>2. call[c].session \in DOMAIN sessions
  BY <1>1 DEF CallOK, Looking
<1>3. SessionOf(c) \in Ids
  <2>1. sessions[call[c].session] \in BridgeSession
    BY <1>2, ElementOfSeq DEF BridgeInv, PoolsOK
  <2>2. QED
    BY <2>1 DEF BridgeSession, SessionOf
<1>4. Len(rlps) \in Nat /\ DOMAIN rlps = 1..Len(rlps)
  BY LenProperties DEF BridgeInv, PoolsOK
<1>5. /\ rlps' \in Seq(BridgeRLP) /\ DOMAIN rlps' = 1..(Len(rlps) + 1)
      /\ \A r \in DOMAIN rlps : rlps'[r] = rlps[r]
      /\ rlps'[Len(rlps) + 1] = NewRLP0
  <2>1. rlps \in Seq(BridgeRLP) /\ rlps' = Append(rlps, NewRLP0)
    BY DEF RlpCreate, BridgeInv, PoolsOK
  <2>2. NewRLP0 \in BridgeRLP
    BY BridgeFresh
  <2>3. QED
    BY <1>4, <2>1, <2>2, AppendProperties
<1>6. /\ DOMAIN rlps' = DOMAIN rlps \cup {Len(rlps) + 1}
      /\ Len(rlps) + 1 \in Nat \ {0} /\ Len(rlps) + 1 \notin DOMAIN rlps
  BY <1>4, <1>5
<1>7. /\ DOMAIN rlpStore' = DOMAIN rlpStore \cup {SessionOf(c)}
      /\ \A s \in DOMAIN rlpStore' :
           rlpStore'[s] = IF s = SessionOf(c) THEN Len(rlps) + 1 ELSE rlpStore[s]
  BY DEF RlpCreate, Entry
<1>8. sessions' = sessions /\ store' = store
  BY DEF RlpCreate
<1>9. PoolsOK'
  BY <1>3, <1>5, <1>6, <1>7, <1>8 DEF BridgeInv, PoolsOK
<1>10. QED
  BY <1>3, <1>5, <1>6, <1>7, <1>9

LEMMA RlpCreateKeepsInv ==
  ASSUME BridgeInv, NEW c \in Calls, RlpCreate(c)
  PROVE  BridgeInv'
<1>0. PICK k : k = [call[c] EXCEPT !.pc = "rlp_get"]
  OBVIOUS
<1>1. CallOK(call[c], decision[c]) /\ call[c].pc = "rlp_create"
  BY DEF BridgeInv, RlpCreate, At
<1>2. /\ PoolsOK' /\ DOMAIN rlps \subseteq DOMAIN rlps'
      /\ DOMAIN rlpStore' = DOMAIN rlpStore \cup {SessionOf(c)}
  BY RlpCreateFacts
<1>3. UNCHANGED <<sessions, store, decision, answers, envVars>> /\ call' = [call EXCEPT ![c] = k]
  BY <1>0 DEF RlpCreate, Goto
<1>4. /\ k \in CallRecord /\ k.pc = "rlp_get" /\ k.rlp = call[c].rlp /\ k.msg = call[c].msg
      /\ k.session = call[c].session
  BY <1>0, <1>1 DEF CallOK, CallRecord, Locations
<1>5. CallOK(k, decision[c])'
  BY <1>1, <1>2, <1>3, <1>4
     DEF CallOK, DecisionOK, Looking, Entering, Unrouted, None, SessionOf, envVars,
         registryVars, Card, Distinct
<1>6. QED
  BY <1>2, <1>3, <1>5, SharedMoves

\* A handler of the call's RLPSession writes back what it made of what it had read.
LEMMA ToldFacts ==
  ASSUME BridgeInv, NEW c \in Calls, NEW kind, Told(c, kind), UNCHANGED <<sessions, store, rlpStore>>
  PROVE  /\ call[c].rlp \in DOMAIN rlps /\ call[c].event \in BridgeUpdate
         /\ call[c].event.kind = kind /\ call[c].pc = "write"
         /\ Applied(call[c].event, call[c].read) \in BridgeLedger
         /\ PoolsOK' /\ DOMAIN rlps' = DOMAIN rlps
         /\ \A r \in DOMAIN rlps : r # call[c].rlp => rlps'[r] = rlps[r]
         /\ rlps'[call[c].rlp] =
              UpdateState(rlps[call[c].rlp], Applied(call[c].event, call[c].read))
<1>1. CallOK(call[c], decision[c]) /\ call[c].pc = "write" /\ call[c].event.kind = kind
  BY DEF BridgeInv, Told, At
<1>2. /\ call[c].rlp \in DOMAIN rlps /\ call[c].event \in BridgeUpdate /\ call[c].read \in BridgeLedger
  BY <1>1 DEF CallOK, Entering, Looking
<1>3. rlps[call[c].rlp] \in BridgeRLP
  BY <1>2, ElementOfSeq DEF BridgeInv, PoolsOK
<1> DEFINE l == Applied(call[c].event, call[c].read)
           new == UpdateState(rlps[call[c].rlp], l)
<1>4. l \in BridgeLedger
  BY <1>2, BridgeApplied
<1> HIDE DEF l
<1>5. new \in BridgeRLP
  BY <1>3, <1>4, BridgeUpdated
<1>6. rlps' = [rlps EXCEPT ![call[c].rlp] = new]
  BY DEF Told, l
<1> HIDE DEF new
<1>7. PoolsOK' /\ DOMAIN rlps' = DOMAIN rlps
  BY <1>2, <1>5, <1>6, RlpChange
<1>8. rlps'[call[c].rlp] = new /\ \A r \in DOMAIN rlps : r # call[c].rlp => rlps'[r] = rlps[r]
  BY <1>2, <1>6
<1>9. QED
  BY <1>1, <1>2, <1>4, <1>7, <1>8 DEF l, new

LEMMA ToldMoves ==
  ASSUME BridgeInv, NEW c \in Calls, NEW kind, Told(c, kind),
         UNCHANGED <<decision, sessions, store, rlpStore, answers, envVars>>,
         NEW label \in {"read", "gate", "record", "adapt"}, NEW event \in BridgeUpdate \cup {None},
         label = "read" => event \in BridgeUpdate,
         call' = [call EXCEPT ![c] = [Forgotten(c) EXCEPT !.pc = label, !.event = event]]
  PROVE  BridgeInv'
<1>0. PICK k : k = [Forgotten(c) EXCEPT !.pc = label, !.event = event]
  OBVIOUS
<1>1. CallOK(call[c], decision[c]) /\ call[c].pc = "write"
  BY DEF BridgeInv, Told, At
<1>2. PoolsOK' /\ DOMAIN rlps' = DOMAIN rlps
  BY ToldFacts
<1>3. /\ k \in CallRecord /\ k.pc = label /\ k.rlp = call[c].rlp /\ k.msg = call[c].msg
      /\ k.session = call[c].session /\ k.event = event
  BY <1>0, <1>1 DEF CallOK, CallRecord, Locations, Forgotten
<1>4. call' = [call EXCEPT ![c] = k]
  BY <1>0
<1>5. CallOK(k, decision[c])'
  BY <1>1, <1>2, <1>3
     DEF CallOK, DecisionOK, Looking, Entering, Unrouted, None, envVars, registryVars, Card,
         Distinct
<1>6. QED
  BY <1>2, <1>4, <1>5, SharedMoves

\* Once told, an event is forgotten.
LEMMA ForgottenFacts ==
  ASSUME BridgeInv, NEW c \in Calls, NEW label
  PROVE  [Forgotten(c) EXCEPT !.pc = label] = [Forgotten(c) EXCEPT !.pc = label, !.event = None]
<1>1. call[c] \in CallRecord
  BY DEF BridgeInv, CallOK
<1>2. QED
  BY <1>1 DEF CallRecord, Forgotten

LEMMA ToldKeepsInv ==
  ASSUME BridgeInv, NEW c \in Calls,
         ToldTrust(c) \/ ToldIntent(c) \/ ToldReached(c) \/ ToldFailed(c)
  PROVE  BridgeInv'
<1>1. ASSUME NEW kind, NEW label \in {"gate", "record", "adapt"}, Told(c, kind),
             UNCHANGED <<decision, sessions, store, rlpStore, answers, envVars>>,
             call' = [call EXCEPT ![c] = [Forgotten(c) EXCEPT !.pc = label]]
      PROVE  BridgeInv'
  BY <1>1, ForgottenFacts, ToldMoves
<1>2. CASE ToldTrust(c)
  <2>1. /\ Told(c, "trust_evaluated")
        /\ UNCHANGED <<decision, sessions, store, rlpStore, answers, envVars>>
    BY <1>2 DEF ToldTrust
  <2>2. PICK event : event = [kind |-> "intent_translated", arg |-> 100]
    OBVIOUS
  <2>3. event \in BridgeUpdate
    BY <2>2 DEF BridgeUpdate, Level
  <2>4. \/ call' = [call EXCEPT ![c] = [Forgotten(c) EXCEPT !.pc = "adapt"]]
        \/ call' = [call EXCEPT ![c] = [Forgotten(c) EXCEPT !.pc = "read", !.event = event]]
        \/ call' = [call EXCEPT ![c] = [Forgotten(c) EXCEPT !.pc = "gate"]]
    BY <1>2, <2>2 DEF ToldTrust
  <2>5. CASE call' = [call EXCEPT ![c] = [Forgotten(c) EXCEPT !.pc = "read", !.event = event]]
    BY <2>1, <2>3, <2>5, ToldMoves
  <2>6. QED
    BY <1>1, <2>1, <2>4, <2>5
<1>3. CASE ToldIntent(c)
  BY <1>1, <1>3 DEF ToldIntent
<1>4. CASE ToldReached(c)
  BY <1>1, <1>4 DEF ToldReached
<1>5. CASE ToldFailed(c)
  BY <1>1, <1>5 DEF ToldFailed
<1>6. QED
  BY <1>2, <1>3, <1>4, <1>5

\* A turn is recorded for an agent whose card a decision refers to.
LEMMA RecordTurnFacts ==
  ASSUME BridgeInv, NEW c \in Calls, RecordTurn(c)
  PROVE  /\ PoolsOK' /\ DOMAIN sessions' = DOMAIN sessions
         /\ \A o \in DOMAIN sessions : sessions'[o].sid = sessions[o].sid
         /\ call[c].session \in DOMAIN sessions /\ sessions[call[c].session] \in BridgeSession
         /\ \E agent \in Served :
              sessions' = [sessions EXCEPT ![call[c].session] = Recorded(@, agent)]
<1> DEFINE o == call[c].session
           d == decision[c]
<1>1. CallOK(call[c], d) /\ call[c].pc = "record"
  BY DEF BridgeInv, RecordTurn, At
<1>2. PICK agent \in Servers(c) : sessions' = [sessions EXCEPT ![o] = Recorded(@, agent)]
  BY DEF RecordTurn
<1>3. agent \in Served
  <2>1. \A p \in Card : cards[p].agent_id \in AgentIds
    BY RegistryFacts DEF BridgeInv, ACard
  <2>2. d.outcome = "routed" => d.primary \in Card
    BY <1>1 DEF CallOK, DecisionOK
  <2>3. \A p \in Elements(d.candidates) : p \in Card
    BY <1>1, ElementOfSeq, LenProperties DEF CallOK, DecisionOK, Elements
  <2>4. QED
    BY <1>2, <2>1, <2>2, <2>3 DEF Servers, Served
<1>4. o \in DOMAIN sessions
  BY <1>1 DEF CallOK, Looking
<1>5. sessions[o] \in BridgeSession
  BY <1>4, ElementOfSeq DEF BridgeInv, PoolsOK
<1> DEFINE new == Recorded(sessions[o], agent)
<1>6. new \in BridgeSession /\ new.sid = sessions[o].sid
  BY <1>3, <1>5, BridgeSessionFacts
<1>7. sessions' = [sessions EXCEPT ![o] = new] /\ UNCHANGED <<store, rlps, rlpStore>>
  BY <1>2 DEF RecordTurn
<1> HIDE DEF new
<1>8. /\ PoolsOK' /\ DOMAIN sessions' = DOMAIN sessions
      /\ \A p \in DOMAIN sessions : sessions'[p].sid = sessions[p].sid
  BY <1>4, <1>6, <1>7, SessionChange
<1>9. QED
  BY <1>2, <1>3, <1>4, <1>5, <1>8

LEMMA RecordTurnKeepsInv ==
  ASSUME BridgeInv, NEW c \in Calls, RecordTurn(c)
  PROVE  BridgeInv'
<1>0. PICK k : k = [call[c] EXCEPT !.pc = "adapt", !.ok = TRUE]
  OBVIOUS
<1>1. CallOK(call[c], decision[c]) /\ call[c].pc = "record"
  BY DEF BridgeInv, RecordTurn, At
<1>2. UNCHANGED <<decision, store, rlps, rlpStore, answers, envVars>>
      /\ call' = [call EXCEPT ![c] = k]
  BY <1>0 DEF RecordTurn, Respond
<1>3. /\ k \in CallRecord /\ k.pc = "adapt" /\ k.rlp = call[c].rlp /\ k.msg = call[c].msg
      /\ k.session = call[c].session
  BY <1>0, <1>1 DEF CallOK, CallRecord, Locations
<1>4. CallOK(k, decision[c])'
  BY <1>1, <1>2, <1>3, RecordTurnFacts
     DEF CallOK, DecisionOK, Looking, Entering, Unrouted, None, envVars, registryVars, Card,
         Distinct
<1>5. QED
  BY <1>2, <1>4, RecordTurnFacts, SharedMoves

LEMMA CallStepKeepsInv ==
  ASSUME BridgeInv, NEW c \in Calls, CallStep(c)
  PROVE  BridgeInv'
BY FetchKeepsInv, FindExpiredKeepsInv, ResumeKeepsInv, EvictKeepsInv, CreateKeepsInv,
   FailureKeepsInv, WalkKeepsInv, PassGateKeepsInv, RlpCreateKeepsInv, RlpGetKeepsInv,
   RouteCallKeepsInv, ReadLedgerKeepsInv, ToldKeepsInv,
   BlockedKeepsInv, VoteKeepsInv, RunConsensusKeepsInv, RecordTurnKeepsInv, AdaptKeepsInv
   DEF CallStep

-----------------------------------------------------------------------------
\* pact-hh, the registry and the clock.

LEMMA NobodyMoves ==
  ASSUME BridgeInv, RegistryInv', PoolsOK', HumanOK', BooksOK', PoolsKept,
         UNCHANGED <<call, decision>>
  PROVE  BridgeInv'
<1>1. \A c \in Calls : CallOK(call[c], decision[c])'
  <2> SUFFICES ASSUME NEW c \in Calls PROVE CallOK(call[c], decision[c])'
    OBVIOUS
  <2>1. PICK k, d : k = call[c] /\ d = decision[c]
    OBVIOUS
  <2>2. CallOK(k, d)'
    BY <2>1, CallStays DEF BridgeInv
  <2>3. k = call'[c] /\ d = decision'[c]
    BY <2>1
  <2>4. QED
    BY <2>2, <2>3 DEF CallOK, DecisionOK, Distinct
<1>2. QED
  BY <1>1 DEF BridgeInv

\* What the bounds count only grows.
LEMMA SpentFacts ==
  ASSUME BooksOK, UNCHANGED answers, NEW bound,
         NEW k \in {"ticks", "changes", "reports", "approvals"}, Spend(k, bound)
  PROVE  /\ BooksOK'
         /\ \A j \in {"ticks", "changes", "reports", "approvals"} : spent[j] # 0 => spent'[j] # 0
         /\ spent'[k] # 0 /\ spent'[k] = spent[k] + 1
         /\ \A j \in {"ticks", "changes", "reports", "approvals"} : j # k => spent'[j] = spent[j]
<1> DEFINE n == spent[k] + 1
<1>1. n \in Nat \ {0}
  BY DEF BooksOK
<1>2. spent' = [spent EXCEPT ![k] = n]
  BY DEF Spend
<1>3. n = spent[k] + 1
  OBVIOUS
<1> HIDE DEF n
<1>4. spent' \in [ticks : Nat, changes : Nat, reports : Nat, approvals : Nat]
  BY <1>1, <1>2 DEF BooksOK
<1>5. spent'[k] = n /\ \A j \in {"ticks", "changes", "reports", "approvals"} : j # k => spent'[j] = spent[j]
  BY <1>2 DEF BooksOK
<1>6. QED
  BY <1>1, <1>3, <1>4, <1>5 DEF BooksOK

\* pact-hh writes to an RLPSession, from whatever it was doing to whatever it does next.
LEMMA HumanMoves ==
  ASSUME BridgeInv, UNCHANGED <<routerVars, sessions, store, rlpStore, call, answers>>,
         BooksOK', HumanOK', PoolsOK', DOMAIN rlps' = DOMAIN rlps
  PROVE  BridgeInv'
<1>1. RegistryInv' /\ PoolsKept
  BY DEF BridgeInv, RegistryInv, PoolsKept, routerVars, registryVars, Card
<1>2. UNCHANGED <<call, decision>>
  BY DEF routerVars
<1>3. QED
  BY <1>1, <1>2, NobodyMoves

LEMMA HumanReportsKeepsInv ==
  ASSUME BridgeInv, NEW s \in Ids, NEW u \in Reports, HumanReports(s, u)
  PROVE  BridgeInv' /\ DOMAIN rlps' = DOMAIN rlps
<1> DEFINE r == rlpStore[s]
           new == UpdateState(rlps[r], Applied(u, rlps[r].ledger))
<1>1. r \in DOMAIN rlps /\ rlps[r] \in BridgeRLP
  BY ElementOfSeq DEF HumanReports, BridgeInv, PoolsOK
<1>2. Applied(u, rlps[r].ledger) \in BridgeLedger
  BY <1>1, BridgeApplied, BridgeAssumption DEF BridgeRLP, BridgeUpdate
<1>3. new \in BridgeRLP
  BY <1>1, <1>2, BridgeUpdated
<1>4. rlps' = [rlps EXCEPT ![r] = new] /\ UNCHANGED <<routerVars, sessions, store, rlpStore, call, human, answers>>
  BY DEF HumanReports
<1> HIDE DEF r, new
<1>5. PoolsOK' /\ DOMAIN rlps' = DOMAIN rlps
  BY <1>1, <1>3, <1>4, RlpChange
<1>6. BooksOK' /\ (spent["approvals"] # 0 => spent'["approvals"] # 0)
  BY SpentFacts DEF HumanReports, BridgeInv
<1>7. HumanOK'
  BY <1>4, <1>5, <1>6 DEF BridgeInv, HumanOK
<1>8. QED
  BY <1>4, <1>5, <1>6, <1>7, HumanMoves

LEMMA HumanApprovesKeepsInv ==
  ASSUME BridgeInv, NEW s \in Ids, HumanApproves(s)
  PROVE  BridgeInv'
<1>1. rlpStore[s] \in DOMAIN rlps
  BY DEF HumanApproves, BridgeInv, PoolsOK
<1>2. BooksOK' /\ spent'["approvals"] # 0
  BY SpentFacts DEF HumanApproves, BridgeInv
<1>3. HumanOK'
  BY <1>1, <1>2 DEF HumanApproves, HumanOK, poolVars
<1>4. PoolsOK' /\ UNCHANGED <<routerVars, sessions, store, rlps, rlpStore, call, answers>>
  BY DEF HumanApproves, BridgeInv, PoolsOK, poolVars
<1>5. QED
  BY <1>2, <1>3, <1>4, HumanMoves

\* The three steps of an approval.
LEMMA ApprovalFacts ==
  ASSUME BridgeInv, HumanWrites \/ HumanAcknowledges \/ HumanNudges
  PROVE  /\ human.rlp \in DOMAIN rlps /\ human.sid \in Ids /\ spent.approvals # 0
         /\ rlps[human.rlp] \in BridgeRLP
         /\ PoolsOK' /\ HumanOK' /\ BooksOK' /\ DOMAIN rlps' = DOMAIN rlps
         /\ \A r \in DOMAIN rlps : r # human.rlp => rlps'[r] = rlps[r]
         /\ HumanWrites => rlps'[human.rlp] = UpdateState(rlps[human.rlp], ApprovedLedger)
         /\ HumanAcknowledges => rlps'[human.rlp] = AcknowledgeRepair(rlps[human.rlp])
         /\ HumanNudges => rlps'[human.rlp] =
              UpdateState(rlps[human.rlp], Applied([kind |-> "nudge"], rlps[human.rlp].ledger))
<1> DEFINE r == human.rlp
<1>1. /\ human \in [pc : {"approve", "acknowledge", "nudge"}, sid : Ids, rlp : DOMAIN rlps]
      /\ spent.approvals # 0
  BY DEF HumanWrites, HumanAcknowledges, HumanNudges, BridgeInv, HumanOK, HumanIdle
<1>2. r \in DOMAIN rlps /\ human.sid \in Ids
  BY <1>1
<1>3. rlps[r] \in BridgeRLP
  BY <1>2, ElementOfSeq DEF BridgeInv, PoolsOK
<1>4. PICK new \in BridgeRLP :
        /\ rlps' = [rlps EXCEPT ![r] = new]
        /\ HumanWrites => new = UpdateState(rlps[r], ApprovedLedger)
        /\ HumanAcknowledges => new = AcknowledgeRepair(rlps[r])
        /\ HumanNudges => new = UpdateState(rlps[r], Applied([kind |-> "nudge"], rlps[r].ledger))
  <2>1. CASE HumanWrites
    <3>1. UpdateState(rlps[r], ApprovedLedger) \in BridgeRLP
      BY <1>3, BridgeFresh, BridgeUpdated
    <3>2. QED
      BY <2>1, <3>1 DEF HumanWrites, HumanAcknowledges, HumanNudges
  <2>2. CASE HumanAcknowledges
    <3>1. AcknowledgeRepair(rlps[r]) \in BridgeRLP
      BY <1>3, BridgeAcknowledged
    <3>2. QED
      BY <2>2, <3>1 DEF HumanWrites, HumanAcknowledges, HumanNudges
  <2>3. CASE HumanNudges
    <3>1. [kind |-> "nudge"] \in BridgeUpdate
      BY DEF BridgeUpdate, Unscored
    <3>2. Applied([kind |-> "nudge"], rlps[r].ledger) \in BridgeLedger
      BY <1>3, <3>1, BridgeApplied DEF BridgeRLP
    <3>3. UpdateState(rlps[r], Applied([kind |-> "nudge"], rlps[r].ledger)) \in BridgeRLP
      BY <1>3, <3>2, BridgeUpdated
    <3>4. QED
      BY <2>3, <3>3 DEF HumanWrites, HumanAcknowledges, HumanNudges
  <2>4. QED
    BY <2>1, <2>2, <2>3
<1>5. UNCHANGED <<sessions, store, rlpStore, answers, spent>>
  BY DEF HumanWrites, HumanAcknowledges, HumanNudges
<1> HIDE DEF r
<1>6. PoolsOK' /\ DOMAIN rlps' = DOMAIN rlps
  BY <1>2, <1>4, <1>5, RlpChange
<1>7. rlps'[r] = new /\ \A q \in DOMAIN rlps : q # r => rlps'[q] = rlps[q]
  BY <1>2, <1>4
<1>8. BooksOK'
  BY <1>5 DEF BridgeInv, BooksOK
<1>9. HumanOK'
  BY <1>1, <1>5, <1>6 DEF HumanWrites, HumanAcknowledges, HumanNudges, HumanOK
<1>10. QED
  BY <1>1, <1>2, <1>3, <1>4, <1>6, <1>7, <1>8, <1>9 DEF r

LEMMA HumanStepKeepsInv ==
  ASSUME BridgeInv, HumanStep
  PROVE  BridgeInv'
<1>1. CASE HumanWrites \/ HumanAcknowledges \/ HumanNudges
  BY <1>1, ApprovalFacts, HumanMoves DEF HumanWrites, HumanAcknowledges, HumanNudges
<1>2. QED
  BY <1>1, HumanReportsKeepsInv, HumanApprovesKeepsInv DEF HumanStep

LEMMA AgentsChangeKeepsInv ==
  ASSUME BridgeInv, AgentsChange
  PROVE  BridgeInv'
<1>1. /\ RegistryInv' /\ Card \subseteq Card'
      /\ \A o \in Card : cards'[o].agent_id = cards[o].agent_id
  BY RegistryInvStep, HeapGrows DEF AgentsChange, RegistryNext, BridgeInv
<1>2. UNCHANGED <<sessions, store, rlps, rlpStore, decision, call, human, answers>>
  BY DEF AgentsChange, poolVars
<1>3. BooksOK' /\ (spent["approvals"] # 0 => spent'["approvals"] # 0)
  BY SpentFacts DEF AgentsChange, BridgeInv
<1>4. PoolsOK' /\ HumanOK' /\ PoolsKept
  BY <1>1, <1>2, <1>3 DEF BridgeInv, PoolsOK, HumanOK, PoolsKept
<1>5. QED
  BY <1>1, <1>2, <1>3, <1>4, NobodyMoves

LEMMA TickFacts ==
  ASSUME BridgeInv, Tick
  PROVE  /\ sessions' \in Seq(BridgeSession) /\ DOMAIN sessions' = DOMAIN sessions
         /\ \A o \in DOMAIN sessions : sessions'[o].sid = sessions[o].sid
<1>1. Len(sessions) \in Nat /\ DOMAIN sessions = 1..Len(sessions)
      /\ \A o \in 1..Len(sessions) : sessions[o] \in BridgeSession
  BY LenProperties, ElementOfSeq DEF BridgeInv, PoolsOK
<1>2. sessions' = [o \in 1..Len(sessions) |-> Older(sessions[o])]
  BY <1>1 DEF Tick
<1>3. \A o \in 1..Len(sessions) :
        Older(sessions[o]) \in BridgeSession /\ Older(sessions[o]).sid = sessions[o].sid
  BY <1>1, BridgeSessionFacts
<1>4. sessions' \in Seq(BridgeSession)
  BY <1>1, <1>2, <1>3, SeqDef
<1>5. QED
  BY <1>1, <1>2, <1>3, <1>4

LEMMA TickKeepsInv ==
  ASSUME BridgeInv, Tick
  PROVE  BridgeInv'
<1>1. /\ RegistryInv' /\ Card \subseteq Card'
      /\ \A o \in Card : cards'[o].agent_id = cards[o].agent_id
  BY RegistryInvStep, HeapGrows DEF Tick, RegistryNext, BridgeInv
<1>2. UNCHANGED <<store, rlps, rlpStore, decision, call, human, answers>>
  BY DEF Tick
<1>3. BooksOK' /\ (spent["approvals"] # 0 => spent'["approvals"] # 0)
  BY SpentFacts DEF Tick, BridgeInv
<1>4. PoolsOK' /\ HumanOK' /\ PoolsKept
  BY <1>1, <1>2, <1>3, TickFacts DEF BridgeInv, PoolsOK, HumanOK, PoolsKept
<1>5. QED
  BY <1>1, <1>2, <1>3, <1>4, NobodyMoves

LEMMA BridgeInvStep == BridgeInv /\ [BridgeNext]_bridgeVars => BridgeInv'
<1> SUFFICES ASSUME BridgeInv, [BridgeNext]_bridgeVars PROVE BridgeInv'
  OBVIOUS
<1>1. CASE UNCHANGED bridgeVars
  BY <1>1 DEF bridgeVars, routerVars, registryVars, BridgeInv, RegistryInv, PoolsOK, HumanOK,
              BooksOK, CallOK, DecisionOK, Card, Distinct
<1>2. QED
  BY <1>1, CallStepKeepsInv, HandleKeepsInv, HandleMalformedKeepsInv, HumanStepKeepsInv,
     AgentsChangeKeepsInv, TickKeepsInv DEF BridgeNext

LEMMA BridgeInvInit == BridgeInit => BridgeInv
<1> SUFFICES ASSUME BridgeInit PROVE BridgeInv
  OBVIOUS
<1> DEFINE n == Len(RegisteredAtStart)
<1>1. /\ n \in Nat /\ n <= MaxCards /\ DOMAIN RegisteredAtStart = 1..n
      /\ \A k \in 1..n : RegisteredAtStart[k] \in Cards
  BY LenProperties, ElementOfSeq, BridgeAssumption
<1>2. \A k \in 1..n : cards[k] \in ACard /\ cards[k].agent_id = RegisteredAtStart[k].agent_id
  BY <1>1, RegistryAssumption DEF BridgeInit, ACard, AgentIds, Platforms
<1>3. cards \in Seq(ACard) /\ Len(cards) = n
  <2>1. cards = [k \in 1..n |-> cards[k]]
    BY <1>1 DEF BridgeInit
  <2>2. cards \in [1..n -> ACard]
    BY <1>2, <2>1
  <2>3. QED
    BY <1>1, <2>2, SeqDef, LenProperties
<1>4. agents \in [1..n -> 1..n] /\ \A k \in 1..n : agents[k] = k
  BY <1>1 DEF BridgeInit
<1>5. agents \in Seq(Card)
  BY <1>1, <1>3, <1>4, SeqDef DEF Card
<1>6. DOMAIN agents = 1..n
  BY <1>4
<1>7. RegistryInv
  <2>1. \A j, k \in 1..n :
          cards[agents[j]].agent_id = cards[agents[k]].agent_id => j = k
    BY <1>1, <1>2, <1>4, BridgeAssumption
  <2>2. QED
    BY <1>1, <1>3, <1>5, <1>6, <2>1 DEF BridgeInit, RegistryInv
<1>8. PoolsOK
  BY EmptySeq DEF BridgeInit, PoolsOK
<1>9. HumanOK /\ BooksOK
  <2>1. HumanOK
    BY DEF BridgeInit, HumanOK
  <2>2. answers = [handled |-> 0, served |-> 0, failed |-> 0]
        /\ spent = [ticks |-> 0, changes |-> 0, reports |-> 0, approvals |-> 0]
    BY DEF BridgeInit
  <2>3. MaxHandled \in Nat
    BY BridgeAssumption
  <2>4. BooksOK
    BY <2>2, <2>3 DEF BooksOK
  <2>5. QED
    BY <2>1, <2>4
<1>10. DOMAIN call = Calls /\ DOMAIN decision = Calls
       /\ \A c \in Calls : call[c] = Idle /\ decision[c] = NoDecision
  BY DEF BridgeInit
<1>11. CallOK(Idle, NoDecision)
  BY NoCallIsOK
<1>12. QED
  BY <1>7, <1>8, <1>9, <1>10, <1>11 DEF BridgeInv

LEMMA BridgeInvHolds == BridgeSpec => []BridgeInv
BY BridgeInvInit, BridgeInvStep, PTL DEF BridgeSpec

\* Type correctness of the bridge under any number of calls: an entry of the store is
\* the session of its id, a call's session and RLPSession are there once it has looked
\* them up, and whatever trust the messages claim, the other three primitives of every
\* ledger stay within 0..1.
THEOREM BridgeTypeCorrect == BridgeSpec => []BridgeTypeOK
<1>1. BridgeInv => BridgeTypeOK
  <2> SUFFICES ASSUME BridgeInv PROVE BridgeTypeOK
    OBVIOUS
  <2>1. RegistryTypeOK
    BY RegistryInvType DEF BridgeInv
  <2>2. \A o \in DOMAIN sessions :
          sessions[o].sid \in Ids /\ sessions[o].idle \in 0..(SessionTTL + 1)
    <3>1. \A o \in DOMAIN sessions : sessions[o] \in BridgeSession
      BY ElementOfSeq DEF BridgeInv, PoolsOK
    <3>2. QED
      BY <3>1 DEF BridgeSession
  <2>3. ASSUME NEW r \in DOMAIN rlps
        PROVE  rlps[r].ledger \in WideLedger /\ rlps[r].gate \in BOOLEAN
    <3>1. rlps[r] \in BridgeRLP
      BY ElementOfSeq DEF BridgeInv, PoolsOK
    <3>2. QED
      BY <3>1, TrustFacts DEF BridgeRLP, BridgeLedger, WideLedger
  <2>4. ASSUME NEW c \in Calls
        PROVE  /\ call[c].pc \in Locations
               /\ call[c].pc \in {"idle", "fetch", "evict", "create"} <=> call[c].session = None
               /\ call[c].rlp # None => rlpStore[SessionOf(c)] \in DOMAIN rlps
    <3>1. CallOK(call[c], decision[c])
      BY DEF BridgeInv
    <3>2. call[c].rlp # None => SessionOf(c) \in DOMAIN rlpStore
      BY <3>1 DEF CallOK, SessionOf, Entering
    <3>3. QED
      BY <3>1, <3>2 DEF CallOK, CallRecord, Looking, BridgeInv, PoolsOK
  <2>5. QED
    BY <2>1, <2>2, <2>3, <2>4 DEF BridgeTypeOK, BridgeInv, PoolsOK, BooksOK
<1>2. QED
  BY <1>1, BridgeInvHolds, PTL

-----------------------------------------------------------------------------
\* A call that moves leaves the others' locals alone.
LEMMA OthersStay ==
  ASSUME BridgeInv, NEW c \in Calls, CallStep(c)
  PROVE  DOMAIN call' = Calls /\ \A b \in Calls : b # c => call'[b] = call[b]
<1> USE DEF BridgeInv, Goto, Over, Error, Respond
<1>1. CASE \/ Fetch(c) \/ FindFresh(c) \/ FindExpired(c) \/ Resume(c)
           \/ Evict(c) \/ KeyError(c) \/ Create(c)
  BY <1>1 DEF Fetch, FindFresh, FindExpired, Resume, Evict, KeyError, Create
<1>2. CASE RlpTest(c) \/ RlpCreate(c) \/ RlpGet(c)
  BY <1>2 DEF RlpTest, RlpCreate, RlpGet
<1>3. CASE RouteCall(c) \/ RouteNull(c) \/ ReadLedger(c) \/ ToldTrust(c) \/ ToldIntent(c)
  BY <1>3 DEF RouteCall, RouteNull, ReadLedger, ToldTrust, ToldIntent
<1>4. CASE \/ Blocked(c) \/ PassGate(c) \/ Dispatch(c) \/ Vote(c)
           \/ MalformedVote(c) \/ RoundRaises(c) \/ NoVoterListed(c)
  BY <1>4 DEF Blocked, PassGate, Dispatch, Vote, MalformedVote, RoundRaises, NoVoterListed
<1>5. CASE RunConsensus(c)
  BY <1>5 DEF RunConsensus
<1>6. CASE ToldReached(c) \/ ToldFailed(c) \/ RecordTurn(c) \/ Adapt(c) \/ AdaptNull(c)
  BY <1>6 DEF ToldReached, ToldFailed, RecordTurn, Adapt, AdaptNull
<1>7. QED
  BY <1>1, <1>2, <1>3, <1>4, <1>5, <1>6 DEF CallStep

\* A call's step is neither the human's nor counted by the bounds.
LEMMA CallsLeaveHuman ==
  ASSUME NEW c \in Calls, CallStep(c)
  PROVE  UNCHANGED <<human, spent>>
BY DEF CallStep, Fetch, FindFresh, FindExpired, Resume, Evict, KeyError, Create, RlpTest,
   RlpCreate, RlpGet, RouteCall, RouteNull, ReadLedger, ToldTrust, ToldIntent, Blocked, PassGate,
   Dispatch, Vote, MalformedVote, RunConsensus, RoundRaises, ToldReached, ToldFailed, RecordTurn,
   NoVoterListed, Adapt, AdaptNull, Error, envVars

\* An approval once given is remembered.
LEMMA ApprovalsGrow ==
  ASSUME BridgeInv, [BridgeNext]_bridgeVars
  PROVE  spent.approvals # 0 => spent'.approvals # 0
<1>1. CASE UNCHANGED spent
  BY <1>1
<1>2. ASSUME NEW k \in {"ticks", "changes", "reports", "approvals"}, NEW bound,
             Spend(k, bound), UNCHANGED answers
      PROVE  spent["approvals"] # 0 => spent'["approvals"] # 0
  BY <1>2, SpentFacts DEF BridgeInv
<1>3. CASE HumanStep \/ AgentsChange \/ Tick
  BY <1>1, <1>2, <1>3
     DEF HumanStep, HumanReports, HumanApproves, HumanWrites, HumanAcknowledges, HumanNudges,
         AgentsChange, Tick
<1>4. ASSUME NEW c \in Calls, CallStep(c)
      PROVE  UNCHANGED spent
  BY <1>4, CallsLeaveHuman
<1>5. ASSUME NEW c \in Calls, HandleMalformed(c) \/ \E m \in Messages : Handle(c, m)
      PROVE  UNCHANGED spent
  BY <1>5 DEF HandleMalformed, Handle, envVars, registryVars
<1>6. QED
  BY <1>1, <1>3, <1>4, <1>5 DEF BridgeNext, bridgeVars

\* What a call's step does to the RLPSessions.
LEMMA CallAndRlps ==
  ASSUME BridgeInv, NEW c \in Calls, CallStep(c)
  PROVE  \/ UNCHANGED <<rlps, rlpStore>>
         \/ RlpCreate(c)
         \/ \E kind : Told(c, kind) /\ UNCHANGED <<sessions, store, rlpStore>>
<1>1. CASE \/ Fetch(c) \/ FindFresh(c) \/ FindExpired(c) \/ Resume(c)
           \/ Evict(c) \/ KeyError(c) \/ Create(c)
  BY <1>1 DEF Fetch, FindFresh, FindExpired, Resume, Evict, KeyError, Create, Error, poolVars
<1>2. CASE RlpTest(c) \/ RlpCreate(c) \/ RlpGet(c)
  BY <1>2 DEF RlpTest, RlpGet, poolVars
<1>3. CASE RouteCall(c) \/ RouteNull(c) \/ ReadLedger(c)
  BY <1>3 DEF RouteCall, RouteNull, ReadLedger, Error, poolVars
<1>4. CASE ToldTrust(c) \/ ToldIntent(c) \/ ToldReached(c) \/ ToldFailed(c)
  BY <1>4 DEF ToldTrust, ToldIntent, ToldReached, ToldFailed
<1>5. CASE \/ Blocked(c) \/ PassGate(c) \/ Dispatch(c) \/ Vote(c)
           \/ MalformedVote(c) \/ RoundRaises(c) \/ NoVoterListed(c)
  BY <1>5 DEF Blocked, PassGate, Dispatch, Vote, MalformedVote, RoundRaises, NoVoterListed,
              Error, poolVars
<1>6. CASE RunConsensus(c) \/ RecordTurn(c) \/ Adapt(c) \/ AdaptNull(c)
  BY <1>6 DEF RunConsensus, RecordTurn, Adapt, AdaptNull, Error, poolVars
<1>7. QED
  BY <1>1, <1>2, <1>3, <1>4, <1>5, <1>6 DEF CallStep

\* Without an approval no gate is ever opened, by whatever is told to whichever session.
LEMMA GatesOnlyClose ==
  ASSUME BridgeInv, [BridgeNext]_bridgeVars, spent'.approvals = 0
  PROVE  \A r \in DOMAIN rlps : rlps'[r].gate => rlps[r].gate
<1>1. ASSUME NEW c \in Calls, CallStep(c)
      PROVE  \A r \in DOMAIN rlps : rlps'[r].gate => rlps[r].gate
  <2>1. CASE RlpCreate(c)
    BY <2>1, RlpCreateFacts
  <2>2. ASSUME NEW kind, Told(c, kind), UNCHANGED <<sessions, store, rlpStore>>
        PROVE  \A r \in DOMAIN rlps : rlps'[r].gate => rlps[r].gate
    <3> DEFINE p == call[c].rlp
               l == Applied(call[c].event, call[c].read)
    <3>1. /\ p \in DOMAIN rlps /\ l \in BridgeLedger
          /\ \A r \in DOMAIN rlps : r # p => rlps'[r] = rlps[r]
          /\ rlps'[p] = UpdateState(rlps[p], l)
      BY <2>2, ToldFacts, Zenon
    <3>2. rlps[p] \in BridgeRLP
      BY <3>1, ElementOfSeq DEF BridgeInv, PoolsOK
    <3> HIDE DEF p, l
    <3>3. rlps'[p].gate = (rlps[p].gate /\ ~Ruptured(l))
      BY <3>1, <3>2, BridgeUpdated
    <3>4. QED
      BY <3>1, <3>3
  <2>3. QED
    BY <1>1, <2>1, <2>2, CallAndRlps
<1>2. CASE HumanWrites \/ HumanAcknowledges \/ HumanNudges
  BY <1>2, ApprovalFacts, ApprovalsGrow
<1>3. ASSUME NEW s \in Ids, NEW u \in Reports, HumanReports(s, u)
      PROVE  \A r \in DOMAIN rlps : rlps'[r].gate => rlps[r].gate
  <2> DEFINE p == rlpStore[s]
             l == Applied(u, rlps[p].ledger)
  <2>1. rlps' = [rlps EXCEPT ![p] = UpdateState(rlps[p], l)]
    BY <1>3 DEF HumanReports
  <2> HIDE DEF p, l
  <2>2. QED
    BY <2>1 DEF UpdateState
<1>4. CASE UNCHANGED rlps
  BY <1>4
<1>5. QED
  BY <1>1, <1>2, <1>3, <1>4
     DEF BridgeNext, HumanStep, HumanApproves, HandleMalformed, Handle, AgentsChange, Tick,
         bridgeVars, poolVars

-----------------------------------------------------------------------------
\* What rlp-0's formula has to be for a low trust to matter: of two ledgers that the
\* messages can lead to, the one that is nowhere better is ruptured if the other is.
AtMost(l, m) ==
  /\ l.trust <= m.trust /\ l.intent <= m.intent
  /\ l.narrative <= m.narrative /\ l.commitments <= m.commitments

RiskFalls == \A l, m \in BridgeLedger : AtMost(l, m) /\ Ruptured(m) => Ruptured(l)

\* The best ledger a message of this trust can leave behind.
BestLedger(trust) ==
  [trust |-> MapTrust(trust), intent |-> 100, narrative |-> 100, commitments |-> 100]

\* rlp-0 is being told this call's trust; it has been told.
Telling(k) == k.pc \in {"read", "write"} /\ k.event.kind = "trust_evaluated"
Heard(k)   == \/ k.pc = "gate"
              \/ k.pc \in {"read", "write"} /\ k.event.kind = "intent_translated"

WaryOK(k) ==
  /\ Telling(k) => k.event.arg = k.msg.trust
  /\ Heard(k) /\ Ruptured(BestLedger(k.msg.trust)) /\ spent.approvals = 0 => ~rlps[k.rlp].gate

WaryInv == \A c \in Calls : WaryOK(call[c])

LEMMA WaryInit == BridgeInit => WaryInv
BY DEF BridgeInit, WaryInv, WaryOK, Idle, Telling, Heard

\* A ledger that has just been told a message's trust is at most the best one.
LEMMA ToldLedger ==
  ASSUME RiskFalls, NEW l \in BridgeLedger, NEW u \in BridgeUpdate, u.kind = "trust_evaluated",
         Ruptured(BestLedger(u.arg))
  PROVE  Ruptured(Applied(u, l))
<1>1. u.arg \in TrustRange
  BY DEF BridgeUpdate, Unscored
<1>2. MapTrust(u.arg) \in TrustRange /\ MapTrust(u.arg) \in Int
  BY <1>1, TrustFacts
<1>3. BestLedger(u.arg) \in BridgeLedger
  BY <1>2 DEF BestLedger, BridgeLedger, Level
<1>4. Applied(u, l) = [l EXCEPT !.trust = MapTrust(u.arg)]
  BY DEF Applied
<1>5. Applied(u, l) \in BridgeLedger /\ Applied(u, l).trust = MapTrust(u.arg)
  BY <1>2, <1>4 DEF BridgeLedger
<1>6. \A m \in BridgeLedger : m.intent <= 100 /\ m.narrative <= 100 /\ m.commitments <= 100
  BY DEF BridgeLedger, Level
<1>7. AtMost(Applied(u, l), BestLedger(u.arg))
  BY <1>2, <1>5, <1>6 DEF AtMost, BestLedger, Level
<1>8. QED
  BY <1>3, <1>5, <1>7 DEF RiskFalls

\* A call that does not move: no gate opens behind it.
LEMMA WaryStays ==
  ASSUME BridgeInv, WaryInv, [BridgeNext]_bridgeVars, NEW b \in Calls, call'[b] = call[b]
  PROVE  WaryOK(call[b])'
<1>1. CallOK(call[b], decision[b]) /\ WaryOK(call[b])
  BY DEF BridgeInv, WaryInv
<1>2. Heard(call[b]) => call[b].rlp \in DOMAIN rlps
  BY <1>1 DEF Heard, CallOK, Entering, Looking
<1>3. spent'.approvals = 0 => spent.approvals = 0
  BY ApprovalsGrow
<1>4. QED
  BY <1>1, <1>2, <1>3, GatesOnlyClose DEF WaryOK, Heard, Telling

\* The step of a call to the places where it matters what rlp-0 has been told.
LEMMA WaryMoves ==
  ASSUME BridgeInv, WaryInv, RiskFalls, [BridgeNext]_bridgeVars, NEW c \in Calls, CallStep(c)
  PROVE  WaryOK(call[c])'
<1>1. CallOK(call[c], decision[c]) /\ WaryOK(call[c]) /\ call[c] \in CallRecord
  BY DEF BridgeInv, WaryInv, CallOK
<1>2. spent'.approvals = 0 => spent.approvals = 0
  BY ApprovalsGrow
<1> DEFINE Elsewhere == call'[c].pc \notin {"read", "write", "gate"}
<1>3. CASE Elsewhere
  BY <1>3 DEF WaryOK, Telling, Heard
<1>4. CASE RouteCall(c)
  <2>1. /\ call'[c].pc = "read" /\ call'[c].event.kind = "trust_evaluated"
        /\ call'[c].event.arg = call'[c].msg.trust
    BY <1>1, <1>4 DEF RouteCall, BridgeInv, CallRecord
  <2>2. QED
    BY <2>1 DEF WaryOK, Telling, Heard
<1>5. CASE ReadLedger(c)
  <2>1. /\ call[c].pc = "read" /\ call'[c].pc = "write" /\ call'[c].event = call[c].event
        /\ call'[c].msg = call[c].msg /\ call'[c].rlp = call[c].rlp /\ rlps' = rlps
    BY <1>1, <1>5 DEF ReadLedger, BridgeInv, CallRecord, At, poolVars
  <2>2. QED
    BY <1>1, <1>2, <2>1 DEF WaryOK, Telling, Heard
<1>6. CASE ToldTrust(c)
  <2> DEFINE clear == [kind |-> "intent_translated", arg |-> 100]
  <2>a. \/ call' = [call EXCEPT ![c] = [Forgotten(c) EXCEPT !.pc = "adapt"]]
        \/ call' = [call EXCEPT ![c] = [Forgotten(c) EXCEPT !.pc = "read", !.event = clear]]
        \/ call' = [call EXCEPT ![c] = [Forgotten(c) EXCEPT !.pc = "gate"]]
    BY <1>6 DEF ToldTrust
  <2>b. clear.kind # "trust_evaluated"
    OBVIOUS
  <2> HIDE DEF clear
  <2>c. /\ DOMAIN call = Calls
        /\ call[c] = [pc |-> call[c].pc, msg |-> call[c].msg, session |-> call[c].session,
                      rlp |-> call[c].rlp, event |-> call[c].event, read |-> call[c].read,
                      votes |-> call[c].votes, reports |-> call[c].reports, ok |-> call[c].ok]
    BY <1>1 DEF BridgeInv, CallRecord
  <2>1. /\ call'[c].msg = call[c].msg /\ call'[c].rlp = call[c].rlp
        /\ ~Telling(call'[c])
    BY <2>a, <2>b, <2>c DEF Forgotten, Telling
  <2>2. /\ Telling(call[c]) /\ call[c].event \in BridgeUpdate /\ call[c].rlp \in DOMAIN rlps
        /\ call[c].event.kind = "trust_evaluated" /\ call[c].read \in BridgeLedger
    BY <1>1, <1>6 DEF ToldTrust, Told, At, Telling, CallOK, Entering, Looking
  <2>3. rlps'[call[c].rlp] =
          UpdateState(rlps[call[c].rlp], Applied(call[c].event, call[c].read))
    BY <1>6, ToldFacts, Zenon DEF ToldTrust
  <2>4. Applied(call[c].event, call[c].read) \in BridgeLedger /\ rlps[call[c].rlp] \in BridgeRLP
    BY <2>2, BridgeApplied, ElementOfSeq DEF BridgeInv, PoolsOK
  <2>5. rlps'[call[c].rlp].gate =>
          ~Ruptured(Applied(call[c].event, call[c].read))
    BY <2>3, <2>4, BridgeUpdated
  <2>6. call[c].event.arg = call[c].msg.trust
    BY <1>1, <2>2 DEF WaryOK
  <2>7. Ruptured(BestLedger(call[c].msg.trust)) => ~rlps'[call[c].rlp].gate
    BY <2>2, <2>5, <2>6, ToldLedger
  <2>8. QED
    BY <2>1, <2>7 DEF WaryOK, Telling, Heard, BestLedger, Ruptured
<1>7. CASE ToldIntent(c)
  <2>1. /\ call'[c].msg = call[c].msg /\ call'[c].rlp = call[c].rlp
        /\ call'[c].pc = "gate" /\ Heard(call[c])
    BY <1>1, <1>7 DEF ToldIntent, Told, At, BridgeInv, CallRecord, Forgotten, Heard
  <2>2. call[c].rlp \in DOMAIN rlps
    BY <1>1, <2>1 DEF Heard, CallOK, Entering, Looking
  <2>3. QED
    BY <1>1, <1>2, <2>1, <2>2, GatesOnlyClose DEF WaryOK, Telling, Heard, BestLedger, Ruptured
<1>8. CASE RunConsensus(c)
  <2>1. PICK event \in [kind: {"consensus_reached"}, arg: Confidences] \cup
                       [kind: {"consensus_failed"}] :
          call' = [call EXCEPT ![c].pc = "read", ![c].event = event]
    BY <1>8 DEF RunConsensus
  <2>2. call'[c].pc = "read" /\ call'[c].event = event
    BY <1>1, <2>1 DEF BridgeInv, CallRecord
  <2>3. event.kind \notin {"trust_evaluated", "intent_translated"}
    BY <2>1
  <2>4. QED
    BY <2>2, <2>3 DEF WaryOK, Telling, Heard
<1>9. CASE \/ Fetch(c) \/ FindFresh(c) \/ FindExpired(c) \/ Resume(c)
           \/ Evict(c) \/ KeyError(c) \/ Create(c)
  <2>1. Elsewhere
    BY <1>1, <1>9 DEF Fetch, FindFresh, FindExpired, Resume, Evict, KeyError, Create, Goto,
                      Error, Over, Idle,
                      BridgeInv, CallRecord
  <2>2. QED
    BY <1>3, <2>1
<1>10. CASE RlpTest(c) \/ RlpCreate(c) \/ RlpGet(c) \/ RouteNull(c)
  <2>1. Elsewhere
    BY <1>1, <1>10 DEF RlpTest, RlpCreate, RlpGet, RouteNull, Goto, Error, Over, Idle,
                       BridgeInv, CallRecord
  <2>2. QED
    BY <1>3, <2>1
<1>11. CASE \/ Blocked(c) \/ PassGate(c) \/ Dispatch(c) \/ Vote(c)
           \/ MalformedVote(c) \/ RoundRaises(c) \/ NoVoterListed(c)
  <2>1. Elsewhere
    BY <1>1, <1>11 DEF Blocked, PassGate, Dispatch, Vote, MalformedVote, RoundRaises,
                       NoVoterListed, Respond, At, Goto, Error, Over, Idle, BridgeInv, CallRecord
  <2>2. QED
    BY <1>3, <2>1
<1>12. CASE ToldReached(c) \/ ToldFailed(c)
  <2>1. Elsewhere
    BY <1>1, <1>12 DEF ToldReached, ToldFailed, Forgotten, BridgeInv, CallRecord
  <2>2. QED
    BY <1>3, <2>1
<1>13. CASE RecordTurn(c) \/ Adapt(c) \/ AdaptNull(c)
  <2>1. Elsewhere
    BY <1>1, <1>13 DEF RecordTurn, Adapt, AdaptNull, Respond, Error, Over, Idle, BridgeInv,
                       CallRecord
  <2>2. QED
    BY <1>3, <2>1
<1>14. QED
  BY <1>4, <1>5, <1>6, <1>7, <1>8, <1>9, <1>10, <1>11, <1>12, <1>13 DEF CallStep

LEMMA WaryStep == BridgeInv /\ WaryInv /\ RiskFalls /\ [BridgeNext]_bridgeVars => WaryInv'
<1> SUFFICES ASSUME BridgeInv, WaryInv, RiskFalls, [BridgeNext]_bridgeVars PROVE WaryInv'
  OBVIOUS
<1>1. CASE UNCHANGED call
  BY <1>1, WaryStays DEF WaryInv
<1>2. ASSUME NEW c \in Calls, CallStep(c)
      PROVE  WaryInv'
  BY <1>2, WaryMoves, OthersStay, WaryStays DEF WaryInv
<1>3. ASSUME NEW c \in Calls, NEW m \in Messages, Handle(c, m)
      PROVE  WaryInv'
  <2>1. call[c] \in CallRecord /\ DOMAIN call = Calls
    BY DEF BridgeInv, CallOK
  <2>2. call'[c].pc \in {"fetch", "create"} /\ \A b \in Calls : b # c => call'[b] = call[b]
    BY <1>3, <2>1 DEF Handle, CallRecord
  <2>3. WaryOK(call[c])'
    BY <2>2 DEF WaryOK, Telling, Heard
  <2>4. QED
    BY <2>2, <2>3, WaryStays DEF WaryInv
<1>4. QED
  BY <1>1, <1>2, <1>3
     DEF BridgeNext, HumanStep, HumanReports, HumanApproves, HumanWrites, HumanAcknowledges,
         HumanNudges, HandleMalformed, AgentsChange, Tick, bridgeVars

\* For any number of calls at once, and any formula under which less trust is no less
\* risk: without an approval, a message whose trust ruptures even the best ledger never
\* passes the gate.  Its own telling closes the gate, what others tell cannot open it.
THEOREM WaryMessageBlocked ==
  ASSUME RiskFalls
  PROVE  BridgeSpec => WaryMessageIsBlocked
<1> DEFINE Passing == \A c \in Calls : PassGate(c) /\ spent.approvals = 0 =>
                        ~Ruptured([trust |-> MapTrust(call[c].msg.trust),
                                   intent |-> 100, narrative |-> 100, commitments |-> 100])
<1>1. BridgeInv /\ WaryInv /\ [BridgeNext]_bridgeVars => [Passing]_bridgeVars
  BY DEF WaryInv, WaryOK, Heard, BestLedger, PassGate, At, GateOpen
<1>2. BridgeInv /\ WaryInv /\ [BridgeNext]_bridgeVars => WaryInv'
  BY WaryStep
<1>3. BridgeInit => WaryInv
  BY WaryInit
<1> HIDE DEF Passing
<1>4. BridgeSpec => [][Passing]_bridgeVars
  BY <1>1, <1>2, <1>3, BridgeInvHolds, PTL DEF BridgeSpec
<1>5. QED
  BY <1>4 DEF WaryMessageIsBlocked, Passing

-----------------------------------------------------------------------------
\* What happens to the RLPSessions, whoever does it: a new one, new evidence for one
\* of them, or the acknowledgement of an approval.
Assessed(r, l) ==
  /\ r \in DOMAIN rlps /\ l \in BridgeLedger
  /\ rlps'[r] = UpdateState(rlps[r], l)
  /\ DOMAIN rlps' = DOMAIN rlps /\ rlpStore' = rlpStore
  /\ \A q \in DOMAIN rlps : q # r => rlps'[q] = rlps[q]

LEMMA CallAssesses ==
  ASSUME BridgeInv, NEW c \in Calls, CallStep(c)
  PROVE  \/ UNCHANGED <<rlps, rlpStore>>
         \/ RlpCreate(c)
         \/ call[c].pc = "write" /\ \E l \in BridgeLedger : Assessed(call[c].rlp, l)
<1>1. ASSUME NEW kind, Told(c, kind), UNCHANGED <<sessions, store, rlpStore>>
      PROVE  call[c].pc = "write" /\ \E l \in BridgeLedger : Assessed(call[c].rlp, l)
  <2>1. PICK l : l = Applied(call[c].event, call[c].read)
    OBVIOUS
  <2>2. /\ call[c].rlp \in DOMAIN rlps /\ call[c].pc = "write" /\ l \in BridgeLedger
        /\ DOMAIN rlps' = DOMAIN rlps
        /\ \A r \in DOMAIN rlps : r # call[c].rlp => rlps'[r] = rlps[r]
        /\ rlps'[call[c].rlp] = UpdateState(rlps[call[c].rlp], l)
    BY <1>1, <2>1, ToldFacts, Zenon
  <2>3. QED
    BY <1>1, <2>2 DEF Assessed
<1>2. QED
  BY <1>1, CallAndRlps

LEMMA ReportAssesses ==
  ASSUME BridgeInv, NEW s \in Ids, NEW u \in Reports, HumanReports(s, u)
  PROVE  s \in DOMAIN rlpStore /\ \E l \in BridgeLedger : Assessed(rlpStore[s], l)
<1>1. PICK r : r = rlpStore[s]
  OBVIOUS
<1>2. PICK l : l = Applied(u, rlps[r].ledger)
  OBVIOUS
<1>3. s \in DOMAIN rlpStore /\ r \in DOMAIN rlps
  BY <1>1 DEF HumanReports, BridgeInv, PoolsOK
<1>4. rlps[r] \in BridgeRLP
  BY <1>3, ElementOfSeq DEF BridgeInv, PoolsOK
<1>5. l \in BridgeLedger
  BY <1>2, <1>4, BridgeApplied, BridgeAssumption DEF BridgeRLP, BridgeUpdate
<1>6. rlps' = [rlps EXCEPT ![r] = UpdateState(rlps[r], l)] /\ rlpStore' = rlpStore
  BY <1>1, <1>2 DEF HumanReports
<1>7. QED
  BY <1>1, <1>3, <1>5, <1>6 DEF Assessed

LEMMA HumanAssesses ==
  ASSUME BridgeInv, HumanWrites \/ HumanNudges
  PROVE  /\ human.rlp \in DOMAIN rlps /\ human.sid \in Ids
         /\ \E l \in BridgeLedger :
              /\ Assessed(human.rlp, l)
              /\ HumanWrites => l = ApprovedLedger
              /\ HumanNudges => l = Applied([kind |-> "nudge"], rlps[human.rlp].ledger)
<1>1. /\ human.rlp \in DOMAIN rlps /\ human.sid \in Ids /\ rlps[human.rlp] \in BridgeRLP
      /\ DOMAIN rlps' = DOMAIN rlps
      /\ \A r \in DOMAIN rlps : r # human.rlp => rlps'[r] = rlps[r]
  BY ApprovalFacts
<1>2. rlpStore' = rlpStore
  BY DEF HumanWrites, HumanNudges
<1>3. CASE HumanWrites
  <2>1. ~HumanNudges
    BY <1>3 DEF HumanWrites, HumanNudges
  <2>2. rlps'[human.rlp] = UpdateState(rlps[human.rlp], ApprovedLedger)
    BY <1>3, ApprovalFacts
  <2>3. QED
    BY <1>1, <1>2, <2>1, <2>2, BridgeFresh DEF Assessed
<1>4. CASE HumanNudges
  <2>1. ~HumanWrites
    BY <1>4 DEF HumanWrites, HumanNudges
  <2>2. PICK l : l = Applied([kind |-> "nudge"], rlps[human.rlp].ledger)
    OBVIOUS
  <2>3. rlps'[human.rlp] = UpdateState(rlps[human.rlp], l)
    BY <1>4, <2>2, ApprovalFacts
  <2>4. [kind |-> "nudge"] \in BridgeUpdate /\ rlps[human.rlp].ledger \in BridgeLedger
    BY <1>1 DEF BridgeUpdate, Unscored, BridgeRLP
  <2>5. l \in BridgeLedger
    BY <2>2, <2>4, BridgeApplied
  <2>6. QED
    BY <1>1, <1>2, <2>1, <2>2, <2>3, <2>5 DEF Assessed
<1>5. QED
  BY <1>3, <1>4

-----------------------------------------------------------------------------
\* One message at a time.  Every RLPSession is the one the store holds for its id, the
\* one of the call at work and the one pact-hh is about to release included.
RlpsPaired ==
  /\ \A r \in DOMAIN rlps : \E s \in DOMAIN rlpStore : rlpStore[s] = r
  /\ \A s, t \in DOMAIN rlpStore : rlpStore[s] = rlpStore[t] => s = t
  /\ human # HumanIdle => human.sid \in DOMAIN rlpStore /\ rlpStore[human.sid] = human.rlp

\* What a call has looked up is still what the stores would give it.
CallKept(c) ==
  /\ At(c, "rlp_create") => SessionOf(c) \notin DOMAIN rlpStore
  /\ call[c].session # None =>
       SessionOf(c) \in DOMAIN store /\ store[SessionOf(c)] = call[c].session
  /\ call[c].rlp # None =>
       SessionOf(c) \in DOMAIN rlpStore /\ rlpStore[SessionOf(c)] = call[c].rlp

SoleInv == RlpsPaired /\ \A c \in Calls : CallKept(c)

LEMMA SoleInit == BridgeInit => SoleInv
BY DEF BridgeInit, SoleInv, RlpsPaired, CallKept, Idle, None, At

\* The RLP stores of a step that is not the creation of an RLPSession.
LEMMA PairedStays ==
  ASSUME RlpsPaired, DOMAIN rlps' = DOMAIN rlps, rlpStore' = rlpStore,
         human' # HumanIdle => human'.sid \in DOMAIN rlpStore /\ rlpStore[human'.sid] = human'.rlp
  PROVE  RlpsPaired'
BY DEF RlpsPaired

LEMMA PairedCreate ==
  ASSUME BridgeInv, SoleInv, NEW c \in Calls, RlpCreate(c)
  PROVE  RlpsPaired'
<1>1. PICK o, s : o = Len(rlps) + 1 /\ s = SessionOf(c)
  OBVIOUS
<1>2. /\ o \notin DOMAIN rlps /\ DOMAIN rlps' = DOMAIN rlps \cup {o}
      /\ DOMAIN rlpStore' = DOMAIN rlpStore \cup {s}
      /\ \A t \in DOMAIN rlpStore' : rlpStore'[t] = IF t = s THEN o ELSE rlpStore[t]
  BY <1>1, RlpCreateFacts
<1>3. s \notin DOMAIN rlpStore
  BY <1>1 DEF SoleInv, CallKept, RlpCreate
<1>4. human' = human /\ \A t \in DOMAIN rlpStore : rlpStore[t] \in DOMAIN rlps
  BY DEF RlpCreate, envVars, registryVars, BridgeInv, PoolsOK
<1>5. QED
  BY <1>2, <1>3, <1>4 DEF SoleInv, RlpsPaired

LEMMA PairedStep ==
  ASSUME BridgeInv, SoleInv, [BridgeNext]_bridgeVars
  PROVE  RlpsPaired'
<1>1. ASSUME NEW c \in Calls, CallStep(c)
      PROVE  RlpsPaired'
  <2>1. human' = human
    BY <1>1, CallsLeaveHuman
  <2>2. human # HumanIdle =>
          human.sid \in DOMAIN rlpStore /\ rlpStore[human.sid] = human.rlp
    BY DEF SoleInv, RlpsPaired
  <2>3. CASE DOMAIN rlps' = DOMAIN rlps /\ rlpStore' = rlpStore
    BY <2>1, <2>2, <2>3, PairedStays DEF SoleInv
  <2>4. CASE RlpCreate(c)
    BY <2>4, PairedCreate
  <2>5. QED
    BY <1>1, <2>3, <2>4, CallAssesses DEF Assessed
<1>2. CASE HumanWrites \/ HumanAcknowledges \/ HumanNudges
  <2>1. DOMAIN rlps' = DOMAIN rlps /\ rlpStore' = rlpStore
    BY <1>2, ApprovalFacts DEF HumanWrites, HumanAcknowledges, HumanNudges
  <2>2. human' = HumanIdle \/ (human'.sid = human.sid /\ human'.rlp = human.rlp)
    <3>1. human \in [pc : {"approve", "acknowledge", "nudge"}, sid : Ids, rlp : DOMAIN rlps]
      BY <1>2 DEF HumanWrites, HumanAcknowledges, HumanNudges, BridgeInv, HumanOK, HumanIdle
    <3>2. QED
      BY <1>2, <3>1 DEF HumanWrites, HumanAcknowledges, HumanNudges
  <2>3. human # HumanIdle
    BY <1>2 DEF HumanWrites, HumanAcknowledges, HumanNudges, HumanIdle
  <2>4. QED
    BY <2>1, <2>2, <2>3, PairedStays DEF SoleInv, RlpsPaired
<1>3. ASSUME NEW s \in Ids, HumanApproves(s) \/ \E u \in Reports : HumanReports(s, u)
      PROVE  RlpsPaired'
  <2>1. CASE HumanApproves(s)
    BY <2>1, PairedStays DEF HumanApproves, poolVars, SoleInv
  <2>2. ASSUME NEW u \in Reports, HumanReports(s, u)
        PROVE  RlpsPaired'
    <3>1. DOMAIN rlps' = DOMAIN rlps /\ rlpStore' = rlpStore /\ human' = HumanIdle
      BY <2>2, ReportAssesses DEF Assessed, HumanReports
    <3>2. QED
      BY <3>1, PairedStays DEF SoleInv
  <2>3. QED
    BY <1>3, <2>1, <2>2
<1>4. CASE UNCHANGED <<rlps, rlpStore, human>>
  BY <1>4 DEF SoleInv, RlpsPaired
<1>5. QED
  BY <1>1, <1>2, <1>3, <1>4
     DEF BridgeNext, HumanStep, HandleMalformed, Handle, AgentsChange, Tick, bridgeVars,
         poolVars, envVars, registryVars

\* A step that changes neither store, and looks nothing up.
LEMMA KeptOn ==
  ASSUME BridgeInv, NEW c \in Calls, CallKept(c), UNCHANGED <<store, rlpStore>>,
         \A o \in DOMAIN sessions : sessions'[o].sid = sessions[o].sid,
         \/ call'[c].session = None /\ call'[c].rlp = None
         \/ call'[c].session = call[c].session /\ call'[c].rlp \in {None, call[c].rlp},
         call'[c].pc = "rlp_create" =>
           call[c].pc = "rlp_create" /\ call'[c].session = call[c].session
  PROVE  CallKept(c)'
<1>1. CallOK(call[c], decision[c])
  BY DEF BridgeInv
<1>2. /\ call[c].session # None => call[c].session \in DOMAIN sessions
      /\ call[c].rlp # None => call[c].session # None
      /\ call[c].pc = "rlp_create" => call[c].session # None
  BY <1>1 DEF CallOK, Entering, Looking
<1>3. call'[c].session = call[c].session /\ call[c].session # None =>
        sessions'[call'[c].session].sid = sessions[call[c].session].sid
  BY <1>2
<1>4. QED
  BY <1>2, <1>3 DEF CallKept, SessionOf, At

\* The steps of get_or_create, of both stores.
LEMMA LookupKept ==
  ASSUME BridgeInv, SoleInv, NEW c \in Calls,
         Fetch(c) \/ Create(c) \/ Evict(c) \/ RlpTest(c) \/ RlpCreate(c) \/ RlpGet(c)
  PROVE  CallKept(c)'
<1>1. CallOK(call[c], decision[c]) /\ call[c] \in CallRecord /\ DOMAIN call = Calls /\ CallKept(c)
  BY DEF BridgeInv, CallOK, SoleInv
<1>2. CASE Fetch(c)
  <2>1. PICK o : o = store[Sid(c)]
    OBVIOUS
  <2>2. /\ call'[c].pc = "test" /\ call'[c].session = o /\ call'[c].rlp = call[c].rlp
        /\ call[c].pc = "fetch" /\ Sid(c) \in DOMAIN store /\ UNCHANGED <<sessions, store>>
    BY <1>1, <1>2, <2>1 DEF Fetch, CallRecord, At, poolVars
  <2>3. sessions[o].sid = Sid(c)
    BY <2>1, <2>2 DEF BridgeInv, PoolsOK
  <2>4. call'[c].rlp = None
    BY <1>1, <2>2 DEF CallOK, Entering, Looking
  <2>5. QED
    BY <2>1, <2>2, <2>3, <2>4 DEF CallKept, SessionOf, At
<1>3. CASE Create(c)
  <2>1. PICK o : o = Len(sessions) + 1
    OBVIOUS
  <2>2. PICK id \in Ids :
          /\ store' = Entry(store, id, o)
          /\ call' = [call EXCEPT ![c].pc = "rlp", ![c].session = o]
          /\ sessions'[o].sid = id
    BY <1>3, <2>1, CreateFacts
  <2>3. /\ call'[c].pc = "rlp" /\ call'[c].session = o /\ call'[c].rlp = call[c].rlp
    BY <1>1, <2>2 DEF CallRecord
  <2>4. call[c].rlp = None
    BY <1>1, <1>3 DEF Create, At, CallOK, Entering, Looking
  <2>5. id \in DOMAIN store' /\ store'[id] = o
    BY <2>2 DEF Entry
  <2>6. QED
    BY <2>2, <2>3, <2>4, <2>5 DEF CallKept, SessionOf, At
<1>4. CASE Evict(c)
  <2>1. /\ call[c].pc = "evict" /\ call'[c].pc = "create"
        /\ call'[c].session = call[c].session /\ call'[c].rlp = call[c].rlp
    BY <1>1, <1>4 DEF Evict, Goto, At, CallRecord
  <2>2. call[c].session = None /\ call[c].rlp = None
    BY <1>1, <2>1 DEF CallOK, Entering, Looking
  <2>3. QED
    BY <2>1, <2>2 DEF CallKept, At
<1>5. CASE RlpTest(c)
  <2>1. /\ call'[c].pc = "rlp_create" => SessionOf(c) \notin DOMAIN rlpStore
        /\ call'[c].session = call[c].session /\ call'[c].rlp = call[c].rlp
        /\ UNCHANGED <<sessions, store, rlpStore>>
    BY <1>1, <1>5 DEF RlpTest, Goto, CallRecord, poolVars
  <2>2. QED
    BY <1>1, <2>1 DEF CallKept, SessionOf, At
<1>6. CASE RlpCreate(c)
  <2>1. /\ call[c].pc = "rlp_create" /\ call'[c].pc = "rlp_get"
        /\ call'[c].session = call[c].session /\ call'[c].rlp = call[c].rlp
        /\ UNCHANGED <<sessions, store>>
    BY <1>1, <1>6 DEF RlpCreate, Goto, At, CallRecord
  <2>2. call[c].rlp = None
    BY <1>1, <2>1 DEF CallOK, Entering, Looking
  <2>3. QED
    BY <1>1, <2>1, <2>2 DEF CallKept, SessionOf, At
<1>7. CASE RlpGet(c)
  <2>1. /\ call[c].pc = "rlp_get" /\ call'[c].pc = "route"
        /\ call'[c].session = call[c].session /\ call'[c].rlp = rlpStore[SessionOf(c)]
        /\ UNCHANGED <<sessions, store, rlpStore>>
    BY <1>1, <1>7 DEF RlpGet, At, CallRecord, poolVars
  <2>2. SessionOf(c) \in DOMAIN rlpStore
    BY <1>1, <2>1 DEF CallOK, Looking, SessionOf
  <2>3. QED
    BY <1>1, <2>1, <2>2 DEF CallKept, SessionOf, At
<1>8. QED
  BY <1>2, <1>3, <1>4, <1>5, <1>6, <1>7

\* The steps of a call after its lookups, and those that end it.
LEMMA ServingKept ==
  ASSUME BridgeInv, SoleInv, NEW c \in Calls, CallStep(c),
         ~(Fetch(c) \/ Create(c) \/ Evict(c) \/ RlpTest(c) \/ RlpCreate(c) \/ RlpGet(c))
  PROVE  CallKept(c)'
<1>1. CallOK(call[c], decision[c]) /\ call[c] \in CallRecord /\ DOMAIN call = Calls /\ CallKept(c)
  BY DEF BridgeInv, CallOK, SoleInv
<1> DEFINE Kept == /\ call'[c].pc # "rlp_create"
                   /\ \/ call'[c].session = None /\ call'[c].rlp = None
                      \/ call'[c].session = call[c].session /\ call'[c].rlp = call[c].rlp
<1>2. CASE Error(c) \/ Adapt(c)
  <2>1. Kept
    BY <1>1, <1>2 DEF Adapt, Error, Over, Idle, None
  <2>2. UNCHANGED <<sessions, store, rlpStore>>
    BY <1>2 DEF Adapt, Error, poolVars
  <2>3. QED
    BY <1>1, <2>1, <2>2, KeptOn
<1>3. CASE FindFresh(c) \/ FindExpired(c) \/ RouteCall(c) \/ ReadLedger(c)
  <2>1. Kept
    <3>1. FindExpired(c) => call'[c].session = None /\ call'[c].rlp = None
      BY <1>1 DEF FindExpired, At, CallRecord, CallOK, Entering
    <3>2. QED
      BY <1>1, <1>3, <3>1 DEF FindFresh, FindExpired, RouteCall, ReadLedger, Goto, CallRecord
  <2>2. UNCHANGED <<sessions, store, rlpStore>>
    BY <1>3 DEF FindFresh, FindExpired, RouteCall, ReadLedger, poolVars
  <2>3. QED
    BY <1>1, <2>1, <2>2, KeptOn
<1>4. CASE ToldTrust(c)
  <2>1. Kept
    <3> DEFINE clear == [kind |-> "intent_translated", arg |-> 100]
    <3>1. \/ call' = [call EXCEPT ![c] = [Forgotten(c) EXCEPT !.pc = "adapt"]]
          \/ call' = [call EXCEPT ![c] = [Forgotten(c) EXCEPT !.pc = "read", !.event = clear]]
          \/ call' = [call EXCEPT ![c] = [Forgotten(c) EXCEPT !.pc = "gate"]]
      BY <1>4 DEF ToldTrust
    <3> HIDE DEF clear
    <3>2. QED
      BY <1>1, <3>1 DEF Forgotten, CallRecord
  <2>2. UNCHANGED <<sessions, store, rlpStore>>
    BY <1>4 DEF ToldTrust
  <2>3. QED
    BY <1>1, <2>1, <2>2, KeptOn
<1>5. CASE ToldIntent(c) \/ ToldReached(c) \/ ToldFailed(c)
  <2>1. Kept
    BY <1>1, <1>5 DEF ToldIntent, ToldReached, ToldFailed, Forgotten, CallRecord
  <2>2. UNCHANGED <<sessions, store, rlpStore>>
    BY <1>5 DEF ToldIntent, ToldReached, ToldFailed
  <2>3. QED
    BY <1>1, <2>1, <2>2, KeptOn
<1>6. CASE Blocked(c) \/ PassGate(c) \/ Dispatch(c) \/ Vote(c)
  <2>1. Kept
    BY <1>1, <1>6 DEF Blocked, PassGate, Dispatch, Vote, Respond, Goto, At, CallRecord
  <2>2. UNCHANGED <<sessions, store, rlpStore>>
    BY <1>6 DEF Blocked, PassGate, Dispatch, Vote, poolVars
  <2>3. QED
    BY <1>1, <2>1, <2>2, KeptOn
<1>7. CASE RunConsensus(c)
  <2>1. Kept
    BY <1>1, <1>7 DEF RunConsensus, CallRecord
  <2>2. UNCHANGED <<sessions, store, rlpStore>>
    BY <1>7 DEF RunConsensus, poolVars
  <2>3. QED
    BY <1>1, <2>1, <2>2, KeptOn
<1>8. CASE RecordTurn(c)
  <2>1. Kept
    BY <1>1, <1>8 DEF RecordTurn, Respond, CallRecord
  <2>2. UNCHANGED <<store, rlpStore>> /\ \A o \in DOMAIN sessions : sessions'[o].sid = sessions[o].sid
    BY <1>8, RecordTurnFacts DEF RecordTurn
  <2>3. QED
    BY <1>1, <2>1, <2>2, KeptOn
<1>9. CASE Resume(c)
  <2>1. Kept
    BY <1>1, <1>9 DEF Resume, Goto, CallRecord
  <2>2. UNCHANGED <<store, rlpStore>> /\ \A o \in DOMAIN sessions : sessions'[o].sid = sessions[o].sid
    BY <1>9, ResumeFacts DEF Resume
  <2>3. QED
    BY <1>1, <2>1, <2>2, KeptOn
<1>10. QED
  BY <1>2, <1>3, <1>4, <1>5, <1>6, <1>7, <1>8, <1>9
     DEF CallStep, KeyError, RouteNull, MalformedVote, RoundRaises, NoVoterListed, AdaptNull

LEMMA SoleStep ==
  ASSUME NEW main, Calls = {main}
  PROVE  BridgeInv /\ SoleInv /\ [BridgeNext]_bridgeVars => SoleInv'
<1> SUFFICES ASSUME BridgeInv, SoleInv, [BridgeNext]_bridgeVars PROVE SoleInv'
  OBVIOUS
<1> USE DEF SoleInv
<1>1. RlpsPaired'
  BY PairedStep
<1>2. CASE CallStep(main)
  BY <1>1, <1>2, LookupKept, ServingKept
<1>3. ASSUME UNCHANGED <<store, rlpStore, call>>,
             \A o \in DOMAIN sessions : sessions'[o].sid = sessions[o].sid
      PROVE  SoleInv'
  BY <1>1, <1>3, KeptOn
<1>4. CASE Tick
  BY <1>3, <1>4, TickFacts DEF Tick
<1>5. ASSUME NEW m \in Messages, Handle(main, m)
      PROVE  SoleInv'
  <2>1. CallOK(call[main], decision[main]) /\ DOMAIN call = Calls
    BY DEF BridgeInv
  <2>2. /\ call'[main].pc \in {"fetch", "create"} /\ call'[main].rlp = call[main].rlp
        /\ call'[main].session = call[main].session /\ UNCHANGED <<sessions, store, rlpStore>>
    BY <1>5, <2>1 DEF Handle, CallOK, CallRecord, poolVars
  <2>3. QED
    BY <1>1, <2>2, KeptOn
<1>6. CASE UNCHANGED <<sessions, store, rlpStore, call>>
  BY <1>3, <1>6
<1>7. QED
  BY <1>2, <1>4, <1>5, <1>6
     DEF BridgeNext, HumanStep, HumanReports, HumanApproves, HumanWrites, HumanAcknowledges,
         HumanNudges, HandleMalformed, AgentsChange, bridgeVars, poolVars

LEMMA SoleInvHolds ==
  ASSUME NEW main, Calls = {main}
  PROVE  BridgeSpec => []SoleInv
<1>1. BridgeInv /\ SoleInv /\ [BridgeNext]_bridgeVars => SoleInv'
  BY SoleStep
<1>2. QED
  BY <1>1, SoleInit, BridgeInvHolds, PTL DEF BridgeSpec

\* For one message at a time, of any number of messages: no RLPSession is ever replaced
\* in the store by a second one of its id.
THEOREM OneRLPSessionForever ==
  ASSUME NEW main, Calls = {main}
  PROVE  BridgeSpec => []OneRLPSessionPerId
<1>1. SoleInv => OneRLPSessionPerId
  BY DEF SoleInv, RlpsPaired, OneRLPSessionPerId
<1>2. QED
  BY <1>1, SoleInvHolds, PTL

\* For one message at a time: the session that a turn is recorded in is the one the
\* store then holds for its id, whether it was resumed, expired or just begun.
THEOREM TurnsFound ==
  ASSUME NEW main, Calls = {main}
  PROVE  BridgeSpec => TurnsAreFound
<1> DEFINE Found == \A c \in Calls : RecordTurn(c) =>
                      SessionOf(c) \in DOMAIN store /\ store[SessionOf(c)] = call[c].session
<1>1. BridgeInv /\ SoleInv => Found
  <2> SUFFICES ASSUME BridgeInv, SoleInv, NEW c \in Calls, RecordTurn(c)
               PROVE  SessionOf(c) \in DOMAIN store /\ store[SessionOf(c)] = call[c].session
    OBVIOUS
  <2>1. CallOK(call[c], decision[c]) /\ call[c].pc = "record"
    BY DEF BridgeInv, RecordTurn, At
  <2>2. call[c].session # None
    BY <2>1 DEF CallOK, Looking
  <2>3. QED
    BY <2>2 DEF SoleInv, CallKept
<1> HIDE DEF Found
<1>2. BridgeInv /\ SoleInv /\ [BridgeNext]_bridgeVars => [Found]_bridgeVars
  BY <1>1
<1>3. BridgeSpec => [][Found]_bridgeVars
  BY <1>2, SoleInvHolds, BridgeInvHolds, PTL DEF BridgeSpec
<1>4. QED
  BY <1>3 DEF TurnsAreFound, Found

-----------------------------------------------------------------------------
\* The gate of a session id, as RepairGate sees it.
Open(s)      == s \in DOMAIN rlpStore => rlps[rlpStore[s]].gate
Broken(s)    == s \in DOMAIN rlpStore /\ Ruptured(rlps[rlpStore[s]].ledger)
Approving(s) == IF human.pc \in {"approve", "acknowledge"} /\ human.sid = s THEN {"human"} ELSE {}

GateStep(s) == [Gate(s)!GateNext]_(Gate(s)!gateVars)

LEMMA GateUntouched ==
  ASSUME NEW s, Open(s)' = Open(s), Broken(s)' = Broken(s), Approving(s)' = Approving(s)
  PROVE  GateStep(s)
BY DEF GateStep, Gate!gateVars, Open, Broken, Approving

LEMMA GateAssess ==
  ASSUME NEW s, Broken(s)' \in BOOLEAN, Open(s)' = (Open(s) /\ ~Broken(s)'),
         Approving(s)' = Approving(s)
  PROVE  GateStep(s)
BY Zenon DEF GateStep, Gate!GateNext, Gate!Assess, Open, Broken, Approving

\* New evidence about one RLPSession is an assessment of the ids that have it.
LEMMA AssessedGate ==
  ASSUME BridgeInv, NEW r, NEW l \in BridgeLedger, Assessed(r, l), NEW s,
         Approving(s)' = Approving(s)
  PROVE  GateStep(s)
<1>1. rlps[r] \in BridgeRLP
  BY ElementOfSeq DEF Assessed, BridgeInv, PoolsOK
<1>2. rlps'[r].ledger = l /\ rlps'[r].gate = (rlps[r].gate /\ ~Ruptured(l))
  BY <1>1, BridgeUpdated DEF Assessed
<1>3. CASE s \in DOMAIN rlpStore /\ rlpStore[s] = r
  <2>1. Broken(s)' \in BOOLEAN
    BY DEF Broken, Ruptured
  <2>2. Open(s)' = (Open(s) /\ ~Broken(s)')
    BY <1>2, <1>3 DEF Assessed, Open, Broken
  <2>3. QED
    BY <2>1, <2>2, GateAssess
<1>4. CASE ~(s \in DOMAIN rlpStore /\ rlpStore[s] = r)
  <2>1. Open(s)' = Open(s) /\ Broken(s)' = Broken(s)
    BY <1>4 DEF Assessed, Open, Broken, BridgeInv, PoolsOK
  <2>2. QED
    BY <2>1, GateUntouched
<1>5. QED
  BY <1>3, <1>4

\* A first RLPSession for an id begins with an open gate.
LEMMA CreateGate ==
  ASSUME BridgeInv, SoleInv, NEW c \in Calls, RlpCreate(c), NEW s
  PROVE  GateStep(s)
<1>1. PICK o, t : o = Len(rlps) + 1 /\ t = SessionOf(c)
  OBVIOUS
<1>2. /\ o \notin DOMAIN rlps /\ rlps'[o] = NewRLP0
      /\ \A r \in DOMAIN rlps : rlps'[r] = rlps[r]
      /\ DOMAIN rlpStore' = DOMAIN rlpStore \cup {t}
      /\ \A u \in DOMAIN rlpStore' : rlpStore'[u] = IF u = t THEN o ELSE rlpStore[u]
  BY <1>1, RlpCreateFacts
<1>3. t \notin DOMAIN rlpStore
  BY <1>1 DEF SoleInv, CallKept, RlpCreate
<1>4. Approving(s)' = Approving(s)
  BY DEF RlpCreate, envVars, registryVars, Approving
<1>5. CASE s = t
  <2>1. Open(s) /\ Open(s)'
    BY <1>2, <1>3, <1>5 DEF Open, NewRLP0
  <2>2. ~Broken(s) /\ ~Broken(s)'
    BY <1>2, <1>3, <1>5, LedgerAssumption DEF Broken, NewRLP0
  <2>3. QED
    BY <1>4, <2>1, <2>2, GateUntouched DEF Open, Broken
<1>6. CASE s # t
  <2>1. Open(s)' = Open(s) /\ Broken(s)' = Broken(s)
    BY <1>2, <1>6 DEF Open, Broken, BridgeInv, PoolsOK
  <2>2. QED
    BY <1>4, <2>1, GateUntouched
<1>7. QED
  BY <1>5, <1>6

\* What pact-hh does to an approval.
LEMMA ApproveGate ==
  ASSUME BridgeInv, NEW t \in Ids, HumanApproves(t), NEW s
  PROVE  GateStep(s)
<1>1. Open(s)' = Open(s) /\ Broken(s)' = Broken(s)
  BY DEF HumanApproves, poolVars, Open, Broken
<1>2. Approving(s) = {} /\ Approving(s)' = IF s = t THEN {"human"} ELSE {}
  BY DEF HumanApproves, HumanIdle, Approving
<1>3. CASE s = t
  BY <1>1, <1>2, <1>3
     DEF GateStep, Gate!GateNext, Gate!Approve, Open, Broken, Approving
<1>4. CASE s # t
  BY <1>1, <1>2, <1>4, GateUntouched
<1>5. QED
  BY <1>3, <1>4

LEMMA AcknowledgeGate ==
  ASSUME BridgeInv, SoleInv, HumanAcknowledges, NEW s
  PROVE  GateStep(s)
<1>1. /\ human.rlp \in DOMAIN rlps /\ rlps[human.rlp] \in BridgeRLP
      /\ rlps'[human.rlp] = AcknowledgeRepair(rlps[human.rlp])
      /\ \A r \in DOMAIN rlps : r # human.rlp => rlps'[r] = rlps[r]
      /\ rlpStore' = rlpStore
  BY ApprovalFacts DEF HumanAcknowledges
<1>2. human.sid \in DOMAIN rlpStore /\ rlpStore[human.sid] = human.rlp
  BY DEF SoleInv, RlpsPaired, HumanAcknowledges, HumanIdle
<1>3. /\ rlps'[human.rlp].ledger = rlps[human.rlp].ledger
      /\ rlps'[human.rlp].gate = (rlps[human.rlp].gate \/ ~Ruptured(rlps[human.rlp].ledger))
  BY <1>1, BridgeAcknowledged
<1>4. human.pc = "acknowledge" /\ human'.pc \notin {"approve", "acknowledge"}
  <2>1. human \in [pc : {"approve", "acknowledge", "nudge"}, sid : Ids, rlp : DOMAIN rlps]
    BY DEF HumanAcknowledges, BridgeInv, HumanOK, HumanIdle
  <2>2. QED
    BY <2>1 DEF HumanAcknowledges, HumanIdle
<1>5. Approving(s)' = {}
  BY <1>4 DEF Approving
<1>6. CASE s = human.sid
  <2>1. Approving(s) = {"human"}
    BY <1>4, <1>6 DEF Approving
  <2>2. Broken(s)' = Broken(s)
    BY <1>1, <1>2, <1>3, <1>6 DEF Broken
  <2>3. Open(s)' = (Open(s) \/ ~Broken(s))
    BY <1>1, <1>2, <1>3, <1>6 DEF Open, Broken
  <2>4. QED
    BY <1>5, <2>1, <2>2, <2>3
       DEF GateStep, Gate!GateNext, Gate!Acknowledged, Open, Broken, Approving
<1>7. CASE s # human.sid
  <2>1. s \in DOMAIN rlpStore => rlpStore[s] # human.rlp /\ rlpStore[s] \in DOMAIN rlps
    BY <1>2, <1>7 DEF SoleInv, RlpsPaired, BridgeInv, PoolsOK
  <2>2. Open(s)' = Open(s) /\ Broken(s)' = Broken(s)
    BY <1>1, <2>1 DEF Open, Broken
  <2>3. Approving(s) = {}
    BY <1>7 DEF Approving
  <2>4. QED
    BY <1>5, <2>2, <2>3, GateUntouched
<1>8. QED
  BY <1>6, <1>7

\* Whatever happens is a step of the gate of every id, or none.
LEMMA EveryGateStep ==
  ASSUME BridgeInv, SoleInv, [BridgeNext]_bridgeVars, NEW s \in Ids
  PROVE  GateStep(s)
<1>1. CASE UNCHANGED <<rlps, rlpStore, human>>
  BY <1>1, GateUntouched DEF Open, Broken, Approving
<1>2. ASSUME NEW c \in Calls, CallStep(c)
      PROVE  GateStep(s)
  <2>1. human' = human
    BY <1>2, CallsLeaveHuman
  <2>2. Approving(s)' = Approving(s)
    BY <2>1 DEF Approving
  <2>3. QED
    BY <1>1, <1>2, <2>1, <2>2, CallAssesses, AssessedGate, CreateGate
<1>3. ASSUME NEW t \in Ids, NEW u \in Reports, HumanReports(t, u)
      PROVE  GateStep(s)
  <2>1. Approving(s)' = Approving(s)
    BY <1>3 DEF HumanReports, Approving
  <2>2. QED
    BY <1>3, <2>1, ReportAssesses, AssessedGate
<1>4. CASE HumanWrites \/ HumanNudges
  <2>1. human \in [pc : {"approve", "acknowledge", "nudge"}, sid : Ids, rlp : DOMAIN rlps]
    BY <1>4 DEF HumanWrites, HumanNudges, BridgeInv, HumanOK, HumanIdle
  <2>2. \/ human.pc = "approve" /\ human' = [human EXCEPT !.pc = "acknowledge"]
        \/ human.pc = "nudge" /\ human' = HumanIdle
    BY <1>4 DEF HumanWrites, HumanNudges
  <2>3. Approving(s)' = Approving(s)
    BY <2>1, <2>2 DEF Approving, HumanIdle
  <2>4. QED
    BY <1>4, <2>3, HumanAssesses, AssessedGate
<1>5. QED
  BY <1>1, <1>2, <1>3, <1>4, ApproveGate, AcknowledgeGate
     DEF BridgeNext, HumanStep, HandleMalformed, Handle, AgentsChange, Tick, bridgeVars,
         poolVars, envVars, registryVars

\* For one message at a time, and every risk formula: the gate of each session id takes
\* only the steps of RepairGate.  Sessions that expire and are begun again, and whatever
\* rlp-0 is told, never reopen it; the acknowledgement of an approval of this id does,
\* and only over a healthy ledger.
THEOREM EveryGateImplementsRepairGate ==
  ASSUME NEW main, Calls = {main}
  PROVE  BridgeSpec => EveryIdKeepsItsGate
<1> DEFINE Stepping == \A s \in Ids : [Gate(s)!GateNext]_(Gate(s)!gateVars)
<1>1. BridgeInv /\ SoleInv /\ [BridgeNext]_bridgeVars => [Stepping]_bridgeVars
  BY EveryGateStep DEF GateStep
<1> HIDE DEF Stepping
<1>2. BridgeSpec => [][Stepping]_bridgeVars
  BY <1>1, SoleInvHolds, BridgeInvHolds, PTL DEF BridgeSpec
<1>3. QED
  BY <1>2 DEF EveryIdKeepsItsGate, Stepping

-----------------------------------------------------------------------------
\* A gate is open only over a healthy ledger, and stays so while a call is at its agents.
HealthOK == \A r \in DOMAIN rlps : rlps[r].gate => ~Ruptured(rlps[r].ledger)

AtAgents(k) == k.pc \in {"dispatch", "vote"}

BehindInv ==
  /\ HealthOK
  /\ \A c \in Calls : AtAgents(call[c]) =>
       /\ call[c].reports <= spent.reports
       /\ spent.reports = call[c].reports => rlps[call[c].rlp].gate

LEMMA BehindInit == BridgeInit => BehindInv
BY DEF BridgeInit, BehindInv, HealthOK, AtAgents, Idle

LEMMA AssessedHealth ==
  ASSUME BridgeInv, HealthOK, NEW r, NEW l \in BridgeLedger, Assessed(r, l)
  PROVE  HealthOK' /\ rlps'[r].gate = (rlps[r].gate /\ ~Ruptured(l))
<1>1. rlps[r] \in BridgeRLP
  BY ElementOfSeq DEF Assessed, BridgeInv, PoolsOK
<1>2. rlps'[r].ledger = l /\ rlps'[r].gate = (rlps[r].gate /\ ~Ruptured(l))
  BY <1>1, BridgeUpdated DEF Assessed
<1>3. QED
  BY <1>2 DEF Assessed, HealthOK

\* If messages claim levels, the nudge only ever raises trust, so it breaks nothing that
\* was whole.  (Its min(1.0, ...) would lower a trust above 1.0.)
LEMMA NudgeIsHarmless ==
  ASSUME RiskFalls, InRange, NEW l \in BridgeLedger, Ruptured(Applied([kind |-> "nudge"], l))
  PROVE  Ruptured(l)
<1>1. PICK m : m = Applied([kind |-> "nudge"], l)
  OBVIOUS
<1>2. [kind |-> "nudge"] \in BridgeUpdate
  BY DEF BridgeUpdate, Unscored
<1>3. m \in BridgeLedger
  BY <1>1, <1>2, BridgeApplied
<1>4. m = [l EXCEPT !.trust = Raised(l.trust, 2)]
  BY <1>1 DEF Applied
<1>5. l.trust \in 0..100 /\ l.intent \in 0..100 /\ l.narrative \in 0..100 /\ l.commitments \in 0..100
  BY DEF BridgeLedger, TrustRange, Level
<1>6. l.trust <= Raised(l.trust, 2)
  BY <1>5 DEF Raised
<1>7. AtMost(l, m)
  <2>1. /\ m.trust = Raised(l.trust, 2) /\ m.intent = l.intent
        /\ m.narrative = l.narrative /\ m.commitments = l.commitments
    BY <1>4 DEF BridgeLedger
  <2>2. QED
    BY <1>5, <1>6, <2>1 DEF AtMost
<1>8. QED
  BY <1>1, <1>3, <1>7 DEF RiskFalls

\* What pact-hh does to a gate that is open, reports apart.
LEMMA ApprovalKeepsOpen ==
  ASSUME BridgeInv, HealthOK, RiskFalls, InRange, ~Ruptured(ApprovedLedger),
         HumanWrites \/ HumanAcknowledges \/ HumanNudges
  PROVE  HealthOK' /\ \A r \in DOMAIN rlps : rlps[r].gate => rlps'[r].gate
<1>1. /\ human.rlp \in DOMAIN rlps /\ rlps[human.rlp] \in BridgeRLP
      /\ DOMAIN rlps' = DOMAIN rlps
      /\ \A r \in DOMAIN rlps : r # human.rlp => rlps'[r] = rlps[r]
  BY ApprovalFacts
<1>2. CASE HumanAcknowledges
  <2>1. /\ rlps'[human.rlp].ledger = rlps[human.rlp].ledger
        /\ rlps'[human.rlp].gate = (rlps[human.rlp].gate \/ ~Ruptured(rlps[human.rlp].ledger))
    BY <1>1, <1>2, ApprovalFacts, BridgeAcknowledged
  <2>2. QED
    BY <1>1, <2>1 DEF HealthOK
<1>3. CASE HumanWrites \/ HumanNudges
  <2>1. PICK l \in BridgeLedger :
          /\ Assessed(human.rlp, l)
          /\ HumanWrites => l = ApprovedLedger
          /\ HumanNudges => l = Applied([kind |-> "nudge"], rlps[human.rlp].ledger)
    BY <1>3, HumanAssesses
  <2>2. HealthOK' /\ rlps'[human.rlp].gate = (rlps[human.rlp].gate /\ ~Ruptured(l))
    BY <2>1, AssessedHealth
  <2>3. rlps[human.rlp].gate => ~Ruptured(l)
    <3>1. CASE HumanWrites
      BY <2>1, <3>1
    <3>2. CASE HumanNudges
      <4>1. rlps[human.rlp].gate => ~Ruptured(rlps[human.rlp].ledger)
        BY <1>1 DEF HealthOK
      <4>2. rlps[human.rlp].ledger \in BridgeLedger
        BY <1>1 DEF BridgeRLP
      <4>3. QED
        BY <2>1, <3>2, <4>1, <4>2, NudgeIsHarmless
    <3>3. QED
      BY <1>3, <3>1, <3>2
  <2>4. QED
    BY <1>1, <2>2, <2>3
<1>4. QED
  BY <1>2, <1>3

\* The call goes to its agents through the gate, and comes back before it tells rlp-0.
LEMMA CallBehind ==
  ASSUME BridgeInv, BehindInv, NEW c \in Calls, CallStep(c)
  PROVE  /\ HealthOK'
         /\ AtAgents(call'[c]) =>
              /\ call'[c].reports <= spent'.reports
              /\ spent'.reports = call'[c].reports => rlps'[call'[c].rlp].gate
<1>1. CallOK(call[c], decision[c]) /\ call[c] \in CallRecord /\ DOMAIN call = Calls
  BY DEF BridgeInv, CallOK
<1>2. HealthOK'
  <2>1. CASE RlpCreate(c)
    <3>1. PICK o : o = Len(rlps) + 1
      OBVIOUS
    <3>2. /\ DOMAIN rlps' = DOMAIN rlps \cup {o} /\ rlps'[o] = NewRLP0
          /\ \A r \in DOMAIN rlps : rlps'[r] = rlps[r]
      BY <2>1, <3>1, RlpCreateFacts
    <3>3. ~Ruptured(NewRLP0.ledger)
      BY LedgerAssumption DEF NewRLP0
    <3>4. QED
      BY <3>2, <3>3 DEF BehindInv, HealthOK
  <2>2. CASE UNCHANGED <<rlps, rlpStore>>
    BY <2>2 DEF BehindInv, HealthOK
  <2>3. QED
    BY <2>1, <2>2, CallAssesses, AssessedHealth DEF BehindInv
<1>3. CASE PassGate(c)
  <2>1. call'[c].rlp = call[c].rlp /\ rlps' = rlps /\ rlps[call[c].rlp].gate
    BY <1>1, <1>3 DEF PassGate, GateOpen, CallRecord, poolVars
  <2>2. call'[c].reports = spent.reports /\ spent' = spent /\ spent.reports \in Nat
    BY <1>1, <1>3 DEF PassGate, CallRecord, envVars, BridgeInv, BooksOK
  <2>3. QED
    BY <1>2, <2>1, <2>2
<1>4. CASE Vote(c)
  <2> DEFINE v == call[c].votes + 1
  <2>1. /\ call' = [call EXCEPT ![c].votes = v]
        /\ rlps' = rlps /\ spent' = spent /\ call[c].pc = "vote"
    BY <1>4 DEF Vote, At, poolVars, envVars, registryVars
  <2> HIDE DEF v
  <2>2. call'[c].rlp = call[c].rlp /\ call'[c].reports = call[c].reports
    BY <1>1, <2>1 DEF CallRecord
  <2>3. QED
    BY <1>2, <2>1, <2>2 DEF BehindInv, AtAgents
<1>5. CASE \/ Fetch(c) \/ FindFresh(c) \/ FindExpired(c) \/ Resume(c)
           \/ Evict(c) \/ KeyError(c) \/ Create(c)
  BY <1>1, <1>2, <1>5 DEF Fetch, FindFresh, FindExpired, Resume, Evict, KeyError, Create, Goto,
                          Error, Over, Idle, CallRecord, AtAgents
<1>6. CASE RlpTest(c) \/ RlpCreate(c) \/ RlpGet(c) \/ RouteCall(c) \/ RouteNull(c)
  BY <1>1, <1>2, <1>6 DEF RlpTest, RlpCreate, RlpGet, RouteCall, RouteNull, Goto, Error, Over,
                          Idle, CallRecord, AtAgents
<1>7. CASE ReadLedger(c) \/ ToldIntent(c) \/ ToldReached(c) \/ ToldFailed(c)
  BY <1>1, <1>2, <1>7 DEF ReadLedger, ToldIntent, ToldReached, ToldFailed, Forgotten, CallRecord,
                          AtAgents
<1>8. CASE ToldTrust(c)
  <2> DEFINE clear == [kind |-> "intent_translated", arg |-> 100]
  <2>1. \/ call' = [call EXCEPT ![c] = [Forgotten(c) EXCEPT !.pc = "adapt"]]
        \/ call' = [call EXCEPT ![c] = [Forgotten(c) EXCEPT !.pc = "read", !.event = clear]]
        \/ call' = [call EXCEPT ![c] = [Forgotten(c) EXCEPT !.pc = "gate"]]
    BY <1>8 DEF ToldTrust
  <2> HIDE DEF clear
  <2>2. QED
    BY <1>1, <1>2, <2>1 DEF Forgotten, CallRecord, AtAgents
<1>9. CASE Blocked(c) \/ Dispatch(c) \/ RunConsensus(c) \/ Error(c)
  BY <1>1, <1>2, <1>9 DEF Blocked, Dispatch, RunConsensus, Respond, Goto, Error, Over, Idle,
                          CallRecord, AtAgents
<1>10. CASE RecordTurn(c) \/ Adapt(c)
  BY <1>1, <1>2, <1>10 DEF RecordTurn, Adapt, Respond, Over, Idle, CallRecord, AtAgents
<1>11. QED
  BY <1>1, <1>3, <1>4, <1>5, <1>6, <1>7, <1>8, <1>9, <1>10
     DEF CallStep, MalformedVote, RoundRaises, NoVoterListed, AdaptNull

LEMMA BehindStep ==
  ASSUME NEW main, Calls = {main}, RiskFalls, InRange, ~Ruptured(ApprovedLedger)
  PROVE  BridgeInv /\ BehindInv /\ [BridgeNext]_bridgeVars => BehindInv'
<1> SUFFICES ASSUME BridgeInv, BehindInv, [BridgeNext]_bridgeVars PROVE BehindInv'
  OBVIOUS
<1>1. AtAgents(call[main]) => call[main].rlp \in DOMAIN rlps
  BY DEF BridgeInv, CallOK, AtAgents, Entering, Looking
<1>2. CASE CallStep(main)
  BY <1>2, CallBehind DEF BehindInv
<1>3. ASSUME NEW m \in Messages, Handle(main, m)
      PROVE  BehindInv'
  <2>1. call[main] \in CallRecord /\ DOMAIN call = Calls
    BY DEF BridgeInv, CallOK
  <2>2. call'[main].pc \in {"fetch", "create"} /\ rlps' = rlps
    BY <1>3, <2>1 DEF Handle, CallRecord, poolVars
  <2>3. QED
    BY <2>2 DEF BehindInv, HealthOK, AtAgents
<1>4. CASE HumanWrites \/ HumanAcknowledges \/ HumanNudges
  <2>1. call' = call /\ spent' = spent
    BY <1>4 DEF HumanWrites, HumanAcknowledges, HumanNudges
  <2>2. QED
    BY <1>1, <1>4, <2>1, ApprovalKeepsOpen DEF BehindInv
<1>5. ASSUME NEW s \in Ids, NEW u \in Reports, HumanReports(s, u)
      PROVE  BehindInv'
  <2>1. spent'["reports"] = spent["reports"] + 1 /\ spent["reports"] \in Nat /\ call' = call
    BY <1>5, SpentFacts DEF HumanReports, BridgeInv, BooksOK
  <2>2. HealthOK'
    BY <1>5, ReportAssesses, AssessedHealth DEF BehindInv
  <2>3. call[main].reports \in Nat
    BY DEF BridgeInv, CallOK, CallRecord
  <2>4. QED
    BY <2>1, <2>2, <2>3 DEF BehindInv
<1>6. CASE UNCHANGED <<rlps, call>> /\ spent'["reports"] = spent["reports"]
  BY <1>6 DEF BehindInv, HealthOK
<1>7. \A s \in Ids : HumanApproves(s) => spent'["reports"] = spent["reports"]
  BY SpentFacts DEF HumanApproves, BridgeInv
<1>8. AgentsChange \/ Tick => spent'["reports"] = spent["reports"]
  BY SpentFacts DEF AgentsChange, Tick, BridgeInv
<1>9. QED
  BY <1>2, <1>3, <1>4, <1>5, <1>6, <1>7, <1>8
     DEF BridgeNext, HumanStep, HumanApproves, HandleMalformed, AgentsChange, Tick, bridgeVars,
         poolVars, envVars

\* For one message at a time, with trust scores in the documented range, where less trust
\* is no less risk and the ledger an approval writes is healthy: an agent is asked with the
\* gate of the session id closed only if pact-hh reported something after the message
\* passed the gate; what approvals do in between does not close it.
THEOREM AgentsBehindGate ==
  ASSUME NEW main, Calls = {main}, RiskFalls, InRange, ~Ruptured(ApprovedLedger)
  PROVE  BridgeSpec => AgentsBehindOpenGate
<1> DEFINE Behind == \A c \in Calls : (Dispatch(c) \/ Vote(c)) /\ spent.reports = call[c].reports =>
                       rlps[rlpStore[SessionOf(c)]].gate
<1>1. BridgeInv /\ SoleInv /\ BehindInv => Behind
  <2> SUFFICES ASSUME BridgeInv, SoleInv, BehindInv, NEW c \in Calls, Dispatch(c) \/ Vote(c),
                      spent.reports = call[c].reports
               PROVE  rlps[rlpStore[SessionOf(c)]].gate
    OBVIOUS
  <2>1. CallOK(call[c], decision[c]) /\ AtAgents(call[c])
    BY DEF BridgeInv, Dispatch, Vote, At, AtAgents
  <2>2. call[c].rlp # None
    BY <2>1 DEF CallOK, AtAgents, Entering, Looking
  <2>3. rlpStore[SessionOf(c)] = call[c].rlp
    BY <2>2 DEF SoleInv, CallKept
  <2>4. QED
    BY <2>1, <2>3 DEF BehindInv
<1> HIDE DEF Behind
<1>2. BridgeInv /\ SoleInv /\ BehindInv /\ [BridgeNext]_bridgeVars => [Behind]_bridgeVars
  BY <1>1
<1>3. BridgeInv /\ BehindInv /\ [BridgeNext]_bridgeVars => BehindInv'
  BY BehindStep
<1>4. BridgeSpec => [][Behind]_bridgeVars
  BY <1>2, <1>3, BehindInit, SoleInvHolds, BridgeInvHolds, PTL DEF BridgeSpec
<1>5. QED
  BY <1>4 DEF AgentsBehindOpenGate, Behind

-----------------------------------------------------------------------------
\* Turns and answers.  A call that has not got to its answer is not yet a success.
CountInv ==
  /\ \A c \in Calls : call[c].ok => At(c, "adapt")
  /\ IsFiniteSet(Turns) /\ IsFiniteSet(Answering)
  /\ TurnsMatchAnswers

LEMMA CountInit == BridgeInit => CountInv
<1> SUFFICES ASSUME BridgeInit PROVE CountInv
  OBVIOUS
<1>1. Turns = {} /\ Answering = {}
  BY DEF BridgeInit, Turns, Answering, At, Idle
<1>2. answers.served = 0 /\ answers.failed = 0
  BY DEF BridgeInit
<1>3. QED
  BY <1>1, <1>2, FS_EmptySet DEF CountInv, TurnsMatchAnswers, BridgeInit, Idle

\* The arithmetic of a step: what it adds to the turns, the answers and the errors.
LEMMA CountMoves ==
  ASSUME BooksOK, CountInv, IsFiniteSet(Turns)', IsFiniteSet(Answering)',
         NEW t \in Nat, Cardinality(Turns)' = Cardinality(Turns) + t,
         answers'.served \in Nat, NEW e \in Nat, answers'.failed = answers.failed + e,
         LET served == answers.served + Cardinality(Answering) IN
           served' <= served + t /\ served + t <= served' + e
  PROVE  TurnsMatchAnswers'
<1>1. /\ Cardinality(Turns) \in Nat /\ Cardinality(Answering) \in Nat
      /\ Cardinality(Turns)' \in Nat /\ Cardinality(Answering)' \in Nat
  BY FS_CardinalityType DEF CountInv
<1>2. answers.served \in Nat /\ answers.failed \in Nat
  BY DEF BooksOK
<1>3. QED
  BY <1>1, <1>2 DEF CountInv, TurnsMatchAnswers

\* A step that is none of these.
LEMMA CountStays ==
  ASSUME BooksOK, CountInv, Turns' = Turns, Answering' = Answering,
         answers'.served = answers.served,
         NEW e \in Nat, answers'.failed = answers.failed + e
  PROVE  IsFiniteSet(Turns)' /\ IsFiniteSet(Answering)' /\ TurnsMatchAnswers'
<1>1. IsFiniteSet(Turns)' /\ IsFiniteSet(Answering)'
  BY DEF CountInv
<1>2. Cardinality(Turns) \in Nat /\ Cardinality(Answering) \in Nat
  BY FS_CardinalityType DEF CountInv
<1>3. answers.served \in Nat /\ answers.failed \in Nat
  BY DEF BooksOK
<1>4. QED
  BY <1>1, <1>2, <1>3 DEF CountInv, TurnsMatchAnswers

LEMMA TurnsSame ==
  ASSUME DOMAIN sessions \subseteq DOMAIN sessions',
         \A o \in DOMAIN sessions : DOMAIN sessions'[o].turns = DOMAIN sessions[o].turns,
         \A o \in DOMAIN sessions' : o \notin DOMAIN sessions => DOMAIN sessions'[o].turns = {}
  PROVE  Turns' = Turns
BY DEF Turns

LEMMA TurnRecorded ==
  ASSUME BridgeInv, NEW c \in Calls, RecordTurn(c)
  PROVE  \E t : t \notin Turns /\ Turns' = Turns \cup {t}
<1>1. PICK o : o = call[c].session
  OBVIOUS
<1>2. PICK agent \in Served : sessions' = [sessions EXCEPT ![o] = Recorded(@, agent)]
  BY <1>1, RecordTurnFacts
<1>3. o \in DOMAIN sessions /\ sessions[o] \in BridgeSession
  BY <1>1, RecordTurnFacts
<1>4. PICK n : n = Len(sessions[o].turns)
  OBVIOUS
<1>5. sessions[o].turns \in Seq(Served)
  BY <1>3 DEF BridgeSession
<1>6. n \in Nat /\ DOMAIN sessions[o].turns = 1..n
  BY <1>4, <1>5, LenProperties
<1>7. DOMAIN Append(sessions[o].turns, agent) = 1..(n + 1)
  BY <1>4, <1>5, <1>6, AppendProperties
<1>8. sessions'[o].turns = Append(sessions[o].turns, agent)
  BY <1>2, <1>3 DEF Recorded, BridgeSession
<1>9. DOMAIN sessions'[o].turns = DOMAIN sessions[o].turns \cup {n + 1}
      /\ n + 1 \notin DOMAIN sessions[o].turns
  BY <1>6, <1>7, <1>8
<1>10. DOMAIN sessions' = DOMAIN sessions
       /\ \A p \in DOMAIN sessions : p # o => sessions'[p] = sessions[p]
  BY <1>2
<1>11. Turns' = Turns \cup {<<o, n + 1>>} /\ <<o, n + 1>> \notin Turns
  BY <1>3, <1>9, <1>10 DEF Turns
<1>12. QED
  BY <1>11

\* Nothing but record_turn makes a turn.
LEMMA TurnsOfCall ==
  ASSUME BridgeInv, NEW c \in Calls, CallStep(c), ~RecordTurn(c)
  PROVE  Turns' = Turns
<1>1. CASE Resume(c)
  <2>1. PICK o : o = call[c].session
    OBVIOUS
  <2>2. o \in DOMAIN sessions /\ sessions[o] \in BridgeSession
    BY <1>1, <2>1, ResumeFacts
  <2>3. sessions' = [sessions EXCEPT ![o] = Touched(sessions[o])]
    BY <1>1, <2>1, ResumeFacts
  <2>4. Touched(sessions[o]).turns = sessions[o].turns
    BY <2>2 DEF Touched, BridgeSession
  <2>5. QED
    BY <2>2, <2>3, <2>4, TurnsSame
<1>2. CASE Create(c)
  <2>1. PICK o, id : /\ sessions' = Append(sessions, NewSession(id)) /\ o = Len(sessions) + 1
                     /\ DOMAIN sessions' = DOMAIN sessions \cup {o}
                     /\ \A p \in DOMAIN sessions : sessions'[p] = sessions[p]
    BY <1>2, CreateFacts
  <2>2. sessions'[o] = NewSession(id)
    BY <2>1, LenProperties DEF BridgeInv, PoolsOK
  <2>3. DOMAIN sessions'[o].turns = {}
    BY <2>2 DEF NewSession
  <2>4. QED
    BY <2>1, <2>3, TurnsSame
<1>3. CASE UNCHANGED sessions
  BY <1>3, TurnsSame
<1>4. QED
  BY <1>1, <1>2, <1>3
     DEF CallStep, Fetch, FindFresh, FindExpired, Evict, KeyError, RlpTest, RlpCreate, RlpGet,
         RouteCall, RouteNull, ReadLedger, ToldTrust, ToldIntent, Blocked, PassGate, Dispatch, Vote,
         MalformedVote, RunConsensus, RoundRaises, ToldReached, ToldFailed, NoVoterListed, Adapt,
         AdaptNull, Error, poolVars

\* Who is about to answer, when one call moves.
LEMMA AnsweringMoves ==
  ASSUME BridgeInv, CountInv, NEW c \in Calls, CallStep(c), call'[c].ok => call'[c].pc = "adapt"
  PROVE  /\ \A b \in Calls : call'[b].ok => call'[b].pc = "adapt"
         /\ call'[c].ok => Answering' = Answering \cup {c}
         /\ ~call'[c].ok => Answering' = Answering \ {c}
<1>1. \A b \in Calls : b # c => call'[b] = call[b]
  BY OthersStay
<1>2. QED
  BY <1>1 DEF CountInv, Answering, At

\* The steps of a call before its answer: no success yet, and none counted.
LEMMA QuietCalls ==
  ASSUME BridgeInv, CountInv, NEW c \in Calls, CallStep(c),
         ~(RecordTurn(c) \/ Adapt(c)), ~Error(c)
  PROVE  /\ ~call[c].ok /\ ~call'[c].ok
         /\ answers'.served = answers.served /\ answers'.failed = answers.failed
<1>1. call[c] \in CallRecord /\ DOMAIN call = Calls /\ (call[c].ok => call[c].pc = "adapt")
  BY DEF BridgeInv, CallOK, CountInv, At
<1>2. CASE Fetch(c) \/ FindFresh(c) \/ FindExpired(c) \/ Resume(c) \/ Evict(c) \/ Create(c)
  BY <1>1, <1>2 DEF Fetch, FindFresh, FindExpired, Resume, Evict, Create, Goto, At, CallRecord
<1>3. CASE RlpTest(c) \/ RlpCreate(c) \/ RlpGet(c)
  BY <1>1, <1>3 DEF RlpTest, RlpCreate, RlpGet, Goto, At, CallRecord
<1>4. CASE RouteCall(c) \/ ReadLedger(c)
  BY <1>1, <1>4 DEF RouteCall, ReadLedger, At, CallRecord
<1>5. CASE ToldTrust(c)
  <2> DEFINE clear == [kind |-> "intent_translated", arg |-> 100]
  <2>1. \/ call' = [call EXCEPT ![c] = [Forgotten(c) EXCEPT !.pc = "adapt"]]
        \/ call' = [call EXCEPT ![c] = [Forgotten(c) EXCEPT !.pc = "read", !.event = clear]]
        \/ call' = [call EXCEPT ![c] = [Forgotten(c) EXCEPT !.pc = "gate"]]
    BY <1>5 DEF ToldTrust
  <2>2. call[c].pc = "write" /\ answers' = answers
    BY <1>5 DEF ToldTrust, Told, At
  <2> HIDE DEF clear
  <2>3. QED
    BY <1>1, <2>1, <2>2 DEF Forgotten, CallRecord
<1>6. CASE ToldIntent(c) \/ ToldReached(c) \/ ToldFailed(c)
  BY <1>1, <1>6 DEF ToldIntent, ToldReached, ToldFailed, Told, At, Forgotten, CallRecord
<1>7. CASE PassGate(c) \/ Dispatch(c) \/ Vote(c)
  BY <1>1, <1>7 DEF PassGate, Dispatch, Vote, Goto, At, CallRecord
<1>8. CASE Blocked(c) \/ RunConsensus(c)
  BY <1>1, <1>8 DEF Blocked, RunConsensus, Respond, At, CallRecord
<1>9. QED
  BY <1>2, <1>3, <1>4, <1>5, <1>6, <1>7, <1>8
     DEF CallStep, KeyError, RouteNull, MalformedVote, RoundRaises, NoVoterListed, AdaptNull

\* A call that fails takes its answer with it, and is counted.
LEMMA ErrorCounts ==
  ASSUME BridgeInv, CountInv, NEW c \in Calls, CallStep(c), Error(c), ~RecordTurn(c)
  PROVE  CountInv'
<1>1. call'[c] = Idle
  BY DEF Error, Over, BridgeInv
<1>2. ~call'[c].ok
  BY <1>1 DEF Idle
<1>3. Turns' = Turns /\ Answering' = Answering \ {c}
      /\ \A b \in Calls : call'[b].ok => call'[b].pc = "adapt"
  BY <1>2, TurnsOfCall, AnsweringMoves
<1>4. answers.served \in Nat /\ answers.failed \in Nat
  BY DEF BridgeInv, BooksOK
<1>5. answers'.served = answers.served /\ answers'.failed = answers.failed + 1
  BY DEF Error, Count, BridgeInv, BooksOK
<1>6. /\ IsFiniteSet(Turns)' /\ IsFiniteSet(Answering)'
      /\ Cardinality(Turns)' = Cardinality(Turns) + 0 /\ Cardinality(Turns) \in Nat
      /\ Cardinality(Answering) \in Nat
      /\ Cardinality(Answering)' = IF c \in Answering THEN Cardinality(Answering) - 1
                                   ELSE Cardinality(Answering)
  BY <1>3, FS_RemoveElement, FS_CardinalityType DEF CountInv
<1>7. LET served == answers.served + Cardinality(Answering) IN
        served' <= served + 0 /\ served + 0 <= served' + 1
  BY <1>4, <1>5, <1>6
<1>8. answers'.served \in Nat
  BY <1>4, <1>5
<1>9. TurnsMatchAnswers'
  BY <1>5, <1>6, <1>7, <1>8, CountMoves DEF BridgeInv
<1>10. QED
  BY <1>3, <1>6, <1>9 DEF CountInv, At

\* record_turn, and the answer that is then due.
LEMMA RecordCounts ==
  ASSUME BridgeInv, CountInv, NEW c \in Calls, CallStep(c), RecordTurn(c)
  PROVE  CountInv'
<1>1. call[c] \in CallRecord /\ DOMAIN call = Calls /\ (call[c].ok => call[c].pc = "adapt")
  BY DEF BridgeInv, CallOK, CountInv, At
<1>2. call'[c].ok = TRUE /\ call'[c].pc = "adapt" /\ call[c].pc = "record"
  BY <1>1 DEF RecordTurn, Respond, At, CallRecord
<1>3. c \notin Answering
  BY <1>2 DEF Answering, At
<1>4. Answering' = Answering \cup {c} /\ \A b \in Calls : call'[b].ok => call'[b].pc = "adapt"
  BY <1>2, AnsweringMoves
<1>5. PICK t : t \notin Turns /\ Turns' = Turns \cup {t}
  BY TurnRecorded
<1>6. answers.served \in Nat /\ answers.failed \in Nat /\ answers' = answers
  BY DEF BridgeInv, BooksOK, RecordTurn
<1>7. /\ IsFiniteSet(Turns)' /\ Cardinality(Turns)' = Cardinality(Turns) + 1
      /\ IsFiniteSet(Answering)' /\ Cardinality(Answering)' = Cardinality(Answering) + 1
      /\ Cardinality(Turns) \in Nat /\ Cardinality(Answering) \in Nat
  BY <1>3, <1>4, <1>5, FS_AddElement, FS_CardinalityType DEF CountInv
<1>8. LET served == answers.served + Cardinality(Answering) IN
        served' <= served + 1 /\ served + 1 <= served' + 0
  BY <1>6, <1>7
<1>9. answers'.served \in Nat /\ answers'.failed = answers.failed + 0
  BY <1>6
<1>10. TurnsMatchAnswers'
  BY <1>7, <1>8, <1>9, CountMoves DEF BridgeInv
<1>11. QED
  BY <1>4, <1>7, <1>10 DEF CountInv, At

\* The answer is sent, and counted if it is one.
LEMMA AdaptCounts ==
  ASSUME BridgeInv, CountInv, NEW c \in Calls, CallStep(c), Adapt(c)
  PROVE  CountInv'
<1>1. call'[c] = Idle /\ call[c].pc = "adapt"
  BY DEF Adapt, Over, At, BridgeInv
<1>2. ~call'[c].ok /\ ~RecordTurn(c)
  BY <1>1 DEF Idle, RecordTurn, At
<1>3. Turns' = Turns /\ Answering' = Answering \ {c}
      /\ \A b \in Calls : call'[b].ok => call'[b].pc = "adapt"
  BY <1>2, TurnsOfCall, AnsweringMoves
<1>4. answers.served \in Nat /\ answers.failed \in Nat
  BY DEF BridgeInv, BooksOK
<1>5. c \in Answering <=> call[c].ok
  BY <1>1 DEF Answering, At
<1>6. /\ answers'.served = IF c \in Answering THEN answers.served + 1 ELSE answers.served
      /\ answers'.failed = answers.failed + 0
  <2>1. CASE call[c].ok
    BY <1>4, <1>5, <2>1 DEF Adapt, Count, BridgeInv, BooksOK
  <2>2. CASE ~call[c].ok
    BY <1>4, <1>5, <2>2 DEF Adapt
  <2>3. QED
    BY <2>1, <2>2
<1>7. /\ IsFiniteSet(Turns)' /\ IsFiniteSet(Answering)'
      /\ Cardinality(Turns)' = Cardinality(Turns) + 0 /\ Cardinality(Turns) \in Nat
      /\ Cardinality(Answering) \in Nat
      /\ Cardinality(Answering)' = IF c \in Answering THEN Cardinality(Answering) - 1
                                   ELSE Cardinality(Answering)
  BY <1>3, FS_RemoveElement, FS_CardinalityType DEF CountInv
<1>8. LET served == answers.served + Cardinality(Answering) IN
        served' <= served + 0 /\ served + 0 <= served' + 0
  BY <1>4, <1>6, <1>7
<1>9. answers'.served \in Nat
  BY <1>4, <1>6
<1>10. TurnsMatchAnswers'
  BY <1>6, <1>7, <1>8, <1>9, CountMoves DEF BridgeInv
<1>11. QED
  BY <1>3, <1>7, <1>10 DEF CountInv, At

LEMMA CountStep == BridgeInv /\ CountInv /\ [BridgeNext]_bridgeVars => CountInv'
<1> SUFFICES ASSUME BridgeInv, CountInv, [BridgeNext]_bridgeVars PROVE CountInv'
  OBVIOUS
<1>0. /\ BooksOK /\ answers.failed \in Nat /\ answers.failed + 0 = answers.failed
  BY DEF BridgeInv, BooksOK
<1>1. ASSUME NEW c \in Calls, CallStep(c)
      PROVE  CountInv'
  <2>1. CASE ~(RecordTurn(c) \/ Adapt(c)) /\ ~Error(c)
    <3>1. /\ ~call[c].ok /\ ~call'[c].ok
          /\ answers'.served = answers.served /\ answers'.failed = answers.failed
      BY <1>1, <2>1, QuietCalls
    <3>2. Turns' = Turns /\ Answering' = Answering \ {c}
          /\ \A b \in Calls : call'[b].ok => call'[b].pc = "adapt"
      BY <1>1, <2>1, <3>1, TurnsOfCall, AnsweringMoves
    <3>3. Answering' = Answering
      BY <3>1, <3>2 DEF Answering
    <3>4. QED
      BY <1>0, <3>1, <3>2, <3>3, CountStays DEF CountInv, At
  <2>2. QED
    BY <1>1, <2>1, RecordCounts, AdaptCounts, ErrorCounts
<1>2. ASSUME UNCHANGED call, Turns' = Turns, answers'.served = answers.served,
             NEW e \in Nat, answers'.failed = answers.failed + e
      PROVE  CountInv'
  <2>1. Answering' = Answering
    BY <1>2 DEF Answering, At
  <2>2. QED
    BY <1>0, <1>2, <2>1, CountStays DEF CountInv, At
<1>3. CASE Tick
  <2>1. \A o \in DOMAIN sessions : sessions'[o].turns = sessions[o].turns
    <3>1. \A o \in DOMAIN sessions : sessions[o] \in BridgeSession
      BY ElementOfSeq DEF BridgeInv, PoolsOK
    <3>2. QED
      BY <1>3, <3>1 DEF Tick, Older, BridgeSession
  <2>2. Turns' = Turns
    BY <1>3, <2>1, TickFacts, TurnsSame
  <2>3. QED
    BY <1>0, <1>2, <1>3, <2>2 DEF Tick
<1>4. ASSUME NEW c \in Calls, HandleMalformed(c)
      PROVE  CountInv'
  <2>1. answers'.served = answers.served /\ answers'.failed = answers.failed + 1
    BY <1>4 DEF HandleMalformed, BridgeInv, BooksOK
  <2>2. UNCHANGED call /\ Turns' = Turns
    BY <1>4 DEF HandleMalformed, poolVars, Turns
  <2>3. QED
    BY <1>2, <2>1, <2>2
<1>5. ASSUME NEW c \in Calls, NEW m \in Messages, Handle(c, m)
      PROVE  CountInv'
  <2>1. call[c] \in CallRecord /\ DOMAIN call = Calls /\ (call[c].ok => call[c].pc = "adapt")
    BY DEF BridgeInv, CallOK, CountInv, At
  <2>2. /\ ~call[c].ok /\ ~call'[c].ok /\ \A b \in Calls : b # c => call'[b] = call[b]
    BY <1>5, <2>1 DEF Handle, At, CallRecord
  <2>3. Answering' = Answering /\ \A b \in Calls : call'[b].ok => call'[b].pc = "adapt"
    BY <2>2 DEF CountInv, Answering, At
  <2>4. answers'.served = answers.served /\ answers'.failed = answers.failed + 0
    BY <1>0, <1>5 DEF Handle, Count, BridgeInv, BooksOK
  <2>5. Turns' = Turns
    BY <1>5 DEF Handle, poolVars, Turns
  <2>6. QED
    BY <1>0, <2>3, <2>4, <2>5, CountStays DEF CountInv, At
<1>6. CASE UNCHANGED <<call, sessions, answers>>
  BY <1>0, <1>2, <1>6 DEF Turns
<1>7. QED
  BY <1>1, <1>3, <1>4, <1>5, <1>6
     DEF BridgeNext, HumanStep, HumanReports, HumanApproves, HumanWrites, HumanAcknowledges,
         HumanNudges, AgentsChange, bridgeVars, poolVars

\* For any number of calls at once: no successful answer is sent without a turn in some
\* session, and a turn is without its answer only if an error was sent for it.
THEOREM TurnsAndAnswersMatch == BridgeSpec => []TurnsMatchAnswers
<1>1. CountInv => TurnsMatchAnswers
  BY DEF CountInv
<1>2. QED
  BY <1>1, CountInit, CountStep, BridgeInvHolds, PTL DEF BridgeSpec
=============================================================================
