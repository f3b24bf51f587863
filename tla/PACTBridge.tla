------------------------------- MODULE PACTBridge -------------------------------
(***************************************************************************)
(* PACTBridge (pact_bridge/core.py): concurrent activations of handle()    *)
(* over the agent registry, the session store and the RLP sessions, while  *)
(* pact-hh acts on the shared rlp_store, agents come and go, and time      *)
(* passes.  No component takes a lock, so a call can be interrupted        *)
(* wherever it reads or writes what others see.                            *)
(*                                                                         *)
(* The bridge modelled has pact-ax and rlp-0 installed.  What an agent     *)
(* answers is a choice: the model keeps whether the consensus code can     *)
(* read the answer, and how the round ends.                                *)
(***************************************************************************)
EXTENDS IntentRouter, SessionEntries, RLPEvents

CONSTANTS
  SessionIds,   \* the ids senders name
  UuidIds,      \* the ids uuid4 may generate
  NoSid,        \* a message without session_id
  NoTrust,      \* "trust_score": null in a message
  NoPlatform,   \* "platform": null in a message
  Confidences,  \* the confidence_score a consensus round may reach
  Reports,      \* what pact-hh may report besides approvals: unscored updates
  RegisteredAtStart, \* the cards registered before the first message, in order
  MaxHandled,   \* bound on the messages handled
  MaxReports,   \* bound on pact-hh's reports
  MaxApprovals, \* bound on the human approvals
  MaxTicks,     \* bound on the time that passes
  MaxChanges    \* bound on registry changes while messages are handled

ASSUME BridgeAssumption ==
  /\ NoSid \notin SessionIds \cup UuidIds
  /\ SessionIds \cap UuidIds = {}
  /\ Confidences \subseteq Level /\ Reports \subseteq Unscored
  /\ \A m \in Messages : m.trust \in Int \cup {NoTrust} /\ m.sid \in SessionIds \cup {NoSid}
  /\ RegisteredAtStart \in Seq(Cards) /\ Len(RegisteredAtStart) <= MaxCards
  /\ \A j, k \in DOMAIN RegisteredAtStart :
       RegisteredAtStart[j].agent_id = RegisteredAtStart[k].agent_id => j = k
  /\ {MaxHandled, MaxReports, MaxApprovals, MaxTicks, MaxChanges} \subseteq Nat

VARIABLES
  sessions, \* heap of Session objects
  store,    \* self._sessions._sessions: id -> Session
  rlps,     \* heap of RLPSession objects, each with its RLP0 instance
  rlpStore, \* self.rlp_store._sessions: id -> RLPSession
  call,     \* the activations of handle
  human,    \* pact-hh's thread
  answers,  \* history: the messages handled, the successful answers and the errors sent
  spent     \* what the bounds count: ticks, registry changes, reports, approvals

bridgeVars == <<routerVars, sessions, store, rlps, rlpStore, call, human, answers, spent>>
poolVars   == <<sessions, store, rlps, rlpStore>>
envVars    == <<registryVars, human, spent>>

Ids == SessionIds \cup UuidIds
None == 0

Idle == [pc |-> "idle", msg |-> None, session |-> None, rlp |-> None,
         event |-> None, read |-> None, votes |-> 0, reports |-> 0, ok |-> FALSE]

HumanIdle == [pc |-> "idle", sid |-> NoSid, rlp |-> None]

BridgeInit ==
  /\ cards = [k \in DOMAIN RegisteredAtStart |->
                [agent_id |-> RegisteredAtStart[k].agent_id,
                 platform |-> RegisteredAtStart[k].platform,
                 capabilities |-> RegisteredAtStart[k].capabilities,
                 trust |-> RegisteredAtStart[k].trust, age |-> 0]]
  /\ agents = [k \in DOMAIN RegisteredAtStart |-> k] /\ stale = {}
  /\ stats = [k \in Outcomes |-> 0]
  /\ decision = [c \in Calls |-> NoDecision]
  /\ sessions = <<>> /\ store = <<>> /\ rlps = <<>> /\ rlpStore = <<>>
  /\ call = [c \in Calls |-> Idle]
  /\ human = HumanIdle
  /\ answers = [handled |-> 0, served |-> 0, failed |-> 0]
  /\ spent = [ticks |-> 0, changes |-> 0, reports |-> 0, approvals |-> 0]

-----------------------------------------------------------------------------
\* Moving a call along.

At(c, label) == call[c].pc = label
Goto(c, label) == call' = [call EXCEPT ![c].pc = label]
Count(k) == answers' = [answers EXCEPT ![k] = @ + 1]

\* A call is over: the RoutingDecision and the other locals are gone.
Over(c) ==
  /\ call' = [call EXCEPT ![c] = Idle]
  /\ decision' = [decision EXCEPT ![c] = NoDecision]

\* An exception inside handle's try: answered with an error.
Error(c) ==
  /\ Over(c)
  /\ Count("failed")
  /\ UNCHANGED <<stats, poolVars, envVars>>

\* _process returns a BridgeResponse; handle goes on to adapt it.
Respond(c, ok) == call' = [call EXCEPT ![c].pc = "adapt", ![c].ok = ok]

\* handle(message): _parse normalises it; a null field stays null, and a trust_score
\* is taken as it comes.
Handle(c, m) ==
  /\ At(c, "idle") /\ answers.handled < MaxHandled
  /\ Count("handled")
  /\ call' = [call EXCEPT ![c].msg = m,
                          ![c].pc = IF m.sid \in DOMAIN store THEN "fetch" ELSE "create"]
  /\ UNCHANGED <<stats, decision, poolVars, envVars>>

\* A message that _parse cannot read at all.
HandleMalformed(c) ==
  /\ At(c, "idle") /\ answers.handled < MaxHandled
  /\ answers' = [answers EXCEPT !.handled = @ + 1, !.failed = @ + 1]
  /\ UNCHANGED <<stats, decision, poolVars, call, envVars>>

-----------------------------------------------------------------------------
\* SessionStore.get_or_create, as in SessionStore.tla.

Sid(c) == call[c].msg.sid

Fetch(c) ==
  /\ At(c, "fetch") /\ Sid(c) \in DOMAIN store
  /\ call' = [call EXCEPT ![c].pc = "test", ![c].session = store[Sid(c)]]
  /\ UNCHANGED <<stats, decision, poolVars, answers, envVars>>

FindFresh(c) ==
  /\ At(c, "test") /\ ~Expired(sessions[call[c].session])
  /\ Goto(c, "touch")
  /\ UNCHANGED <<stats, decision, poolVars, answers, envVars>>

FindExpired(c) ==
  /\ At(c, "test") /\ Expired(sessions[call[c].session])
  /\ call' = [call EXCEPT ![c].pc = "evict", ![c].session = None]
  /\ UNCHANGED <<stats, decision, poolVars, answers, envVars>>

Resume(c) ==
  /\ At(c, "touch")
  /\ sessions' = [sessions EXCEPT ![call[c].session] = Touched(@)]
  /\ Goto(c, "rlp")
  /\ UNCHANGED <<stats, decision, store, rlps, rlpStore, answers, envVars>>

\* Mutant of Evict: the RLPSession is dropped along with the expired session.
EvictBoth(c) ==
  /\ At(c, "evict") /\ Sid(c) \in DOMAIN store
  /\ store' = Without(store, {Sid(c)})
  /\ rlpStore' = Without(rlpStore, {Sid(c)})
  /\ Goto(c, "create")
  /\ UNCHANGED <<stats, decision, sessions, rlps, answers, envVars>>

Evict(c) ==
  /\ At(c, "evict") /\ Sid(c) \in DOMAIN store
  /\ store' = Without(store, {Sid(c)})
  /\ Goto(c, "create")
  /\ UNCHANGED <<stats, decision, sessions, rlps, rlpStore, answers, envVars>>

\* Another call has deleted the entry meanwhile.
KeyError(c) ==
  /\ At(c, "fetch") \/ At(c, "evict")
  /\ Sid(c) \notin DOMAIN store
  /\ Error(c)

\* The uuids no session has had.
Unused == UuidIds \ {sessions[o].sid : o \in DOMAIN sessions}

\* Mutant of Create: the new session is handed out but not entered in the store.
CreateUnstored(c) ==
  /\ At(c, "create")
  /\ \E id \in (IF Sid(c) = NoSid THEN Unused ELSE {Sid(c)}) :
       sessions' = Append(sessions, NewSession(id))
  /\ call' = [call EXCEPT ![c].pc = "rlp", ![c].session = Len(sessions) + 1]
  /\ UNCHANGED <<stats, decision, store, rlps, rlpStore, answers, envVars>>

Create(c) ==
  /\ At(c, "create")
  /\ \E id \in (IF Sid(c) = NoSid THEN Unused ELSE {Sid(c)}) :
       /\ sessions' = Append(sessions, NewSession(id))
       /\ store' = Entry(store, id, Len(sessions) + 1)
  /\ call' = [call EXCEPT ![c].pc = "rlp", ![c].session = Len(sessions) + 1]
  /\ UNCHANGED <<stats, decision, rlps, rlpStore, answers, envVars>>

-----------------------------------------------------------------------------
\* RLPSessionStore.get_or_create: a test, an insertion, and a lookup.

SessionOf(c) == sessions[call[c].session].sid

\* Mutant of RlpTest: every message gets a new RLPSession.
RlpTestNever(c) ==
  /\ At(c, "rlp")
  /\ Goto(c, "rlp_create")
  /\ UNCHANGED <<stats, decision, poolVars, answers, envVars>>

RlpTest(c) ==
  /\ At(c, "rlp")
  /\ Goto(c, IF SessionOf(c) \in DOMAIN rlpStore THEN "rlp_get" ELSE "rlp_create")
  /\ UNCHANGED <<stats, decision, poolVars, answers, envVars>>

RlpCreate(c) ==
  /\ At(c, "rlp_create")
  /\ rlps' = Append(rlps, NewRLP0)
  /\ rlpStore' = Entry(rlpStore, SessionOf(c), Len(rlps) + 1)
  /\ Goto(c, "rlp_get")
  /\ UNCHANGED <<stats, decision, sessions, store, answers, envVars>>

RlpGet(c) ==
  /\ At(c, "rlp_get")
  /\ call' = [call EXCEPT ![c].pc = "route", ![c].rlp = rlpStore[SessionOf(c)]]
  /\ UNCHANGED <<stats, decision, poolVars, answers, envVars>>

-----------------------------------------------------------------------------
\* The router, and what rlp-0 is told.

RouteCall(c) ==
  /\ At(c, "route") /\ call[c].msg.trust # NoTrust
  /\ Route(c, call[c].msg)
  /\ call' = [call EXCEPT ![c].pc = "read",
                ![c].event = [kind |-> "trust_evaluated", arg |-> call[c].msg.trust]]
  /\ UNCHANGED <<poolVars, answers, human, spent>>

\* None < trust_floor is a TypeError.
RouteNull(c) ==
  /\ At(c, "route") /\ call[c].msg.trust = NoTrust
  /\ Error(c)

\* on_...: the ledger is read, and later written back, as in RLPSession.tla.
ReadLedger(c) ==
  /\ At(c, "read")
  /\ call' = [call EXCEPT ![c].pc = "write", ![c].read = rlps[call[c].rlp].ledger]
  /\ UNCHANGED <<stats, decision, poolVars, answers, envVars>>

Told(c, kind) ==
  /\ At(c, "write") /\ call[c].event.kind = kind
  /\ rlps' = [rlps EXCEPT ![call[c].rlp] =
                UpdateState(@, Applied(call[c].event, call[c].read))]

Forgotten(c) == [call[c] EXCEPT !.event = None, !.read = None]

\* After on_trust_evaluated the outcomes without an agent are answered; an intent
\* that was translated is reported as clear, and then the gate is checked.
ToldTrust(c) ==
  /\ Told(c, "trust_evaluated")
  /\ \/ /\ decision[c].outcome \in {"untrusted", "no_agent", "unknown_intent"}
        /\ call' = [call EXCEPT ![c] = [Forgotten(c) EXCEPT !.pc = "adapt"]]
     \/ /\ decision[c].outcome \in {"routed", "multi_agent"}
        /\ decision[c].translated # call[c].msg.intent
        /\ call' = [call EXCEPT ![c] = [Forgotten(c) EXCEPT !.pc = "read",
                       !.event = [kind |-> "intent_translated", arg |-> 100]]]
     \/ /\ decision[c].outcome \in {"routed", "multi_agent"}
        /\ decision[c].translated = call[c].msg.intent
        /\ call' = [call EXCEPT ![c] = [Forgotten(c) EXCEPT !.pc = "gate"]]
  /\ UNCHANGED <<stats, decision, sessions, store, rlpStore, answers, envVars>>

ToldIntent(c) ==
  /\ Told(c, "intent_translated")
  /\ call' = [call EXCEPT ![c] = [Forgotten(c) EXCEPT !.pc = "gate"]]
  /\ UNCHANGED <<stats, decision, sessions, store, rlpStore, answers, envVars>>

GateOpen(c) == rlps[call[c].rlp].gate

\* Mutant of Blocked: the blocked message is answered as a success.
BlockedAsSuccess(c) ==
  /\ At(c, "gate") /\ ~GateOpen(c)
  /\ Respond(c, TRUE)
  /\ UNCHANGED <<stats, decision, poolVars, answers, envVars>>

Blocked(c) ==
  /\ At(c, "gate") /\ ~GateOpen(c)
  /\ Respond(c, FALSE)
  /\ UNCHANGED <<stats, decision, poolVars, answers, envVars>>

\* Mutant of PassGate: consensus is thought to need no gate.
PassGateForConsensus(c) ==
  /\ At(c, "gate") /\ (GateOpen(c) \/ decision[c].outcome = "multi_agent")
  /\ call' = [call EXCEPT ![c].pc = IF decision[c].outcome = "multi_agent" THEN "vote" ELSE "dispatch",
                          ![c].reports = spent.reports]
  /\ UNCHANGED <<stats, decision, poolVars, answers, envVars>>

PassGate(c) ==
  /\ At(c, "gate") /\ GateOpen(c)
  /\ call' = [call EXCEPT ![c].pc = IF decision[c].outcome = "multi_agent" THEN "vote" ELSE "dispatch",
                          ![c].reports = spent.reports]
  /\ UNCHANGED <<stats, decision, poolVars, answers, envVars>>

-----------------------------------------------------------------------------
\* The agents.

\* _dispatch to the primary agent; whatever comes back, an error too, is a result.
Dispatch(c) ==
  /\ At(c, "dispatch")
  /\ Goto(c, "record")
  /\ UNCHANGED <<stats, decision, poolVars, answers, envVars>>

\* One candidate is dispatched to and its answer becomes its vote.
Vote(c) ==
  /\ At(c, "vote") /\ call[c].votes < Len(decision[c].candidates)
  /\ call' = [call EXCEPT ![c].votes = @ + 1]
  /\ UNCHANGED <<stats, decision, poolVars, answers, envVars>>

\* An answer that is not a dict, or whose confidence is no number, ends the message.
MalformedVote(c) ==
  /\ At(c, "vote") /\ call[c].votes < Len(decision[c].candidates)
  /\ Error(c)

\* ConsensusProtocol.run: reached with some confidence, or failed.
RunConsensus(c) ==
  /\ At(c, "vote") /\ call[c].votes = Len(decision[c].candidates)
  /\ \E event \in [kind: {"consensus_reached"}, arg: Confidences] \cup
                  [kind: {"consensus_failed"}] :
       call' = [call EXCEPT ![c].pc = "read", ![c].event = event]
  /\ UNCHANGED <<stats, decision, poolVars, answers, envVars>>

\* run raises: a decision that is not hashable, say.
RoundRaises(c) ==
  /\ At(c, "vote") /\ call[c].votes = Len(decision[c].candidates)
  /\ Error(c)

ToldReached(c) ==
  /\ Told(c, "consensus_reached")
  /\ call' = [call EXCEPT ![c] = [Forgotten(c) EXCEPT !.pc = "record"]]
  /\ UNCHANGED <<stats, decision, sessions, store, rlpStore, answers, envVars>>

ToldFailed(c) ==
  /\ Told(c, "consensus_failed")
  /\ call' = [call EXCEPT ![c] = [Forgotten(c) EXCEPT !.pc = "adapt"]]
  /\ UNCHANGED <<stats, decision, sessions, store, rlpStore, answers, envVars>>

\* Whom a turn is recorded for: the primary; or one that voted for the winner, or
\* nobody in particular when the dissent map does not say.
Servers(c) ==
  LET d == decision[c] IN
  IF d.outcome = "routed" THEN {cards[d.primary].agent_id}
  ELSE {cards[o].agent_id : o \in Elements(d.candidates)} \cup {"consensus"}

RecordTurn(c) ==
  /\ At(c, "record")
  /\ \E agent \in Servers(c) :
       sessions' = [sessions EXCEPT ![call[c].session] = Recorded(@, agent)]
  /\ Respond(c, TRUE)
  /\ UNCHANGED <<stats, decision, store, rlps, rlpStore, answers, envVars>>

\* The dissent map lists nobody for the winner: an IndexError after the round.
NoVoterListed(c) ==
  /\ At(c, "record") /\ decision[c].outcome = "multi_agent"
  /\ Error(c)

\* adapt; the answer is sent. `answers` is what happened, which the unlocked
\* counters of self._metrics may fall behind.
Adapt(c) ==
  /\ At(c, "adapt") /\ call[c].msg.platform # NoPlatform
  /\ Over(c)
  /\ IF call[c].ok THEN Count("served") ELSE UNCHANGED answers
  /\ UNCHANGED <<stats, poolVars, envVars>>

\* None.lower() is an AttributeError.
AdaptNull(c) ==
  /\ At(c, "adapt") /\ call[c].msg.platform = NoPlatform
  /\ Error(c)

-----------------------------------------------------------------------------
\* Everybody else.

Spend(k, bound) == spent[k] < bound /\ spent' = [spent EXCEPT ![k] = @ + 1]

\* pact-hh reports on a session of the shared rlp_store: on_escalation_to_human, or
\* on_human_decision("hold" or "escalate").
HumanReports(s, u) ==
  /\ human = HumanIdle /\ s \in DOMAIN rlpStore
  /\ Spend("reports", MaxReports)
  /\ rlps' = [rlps EXCEPT ![rlpStore[s]] = UpdateState(@, Applied(u, @.ledger))]
  /\ UNCHANGED <<routerVars, sessions, store, rlpStore, call, human, answers>>

\* on_human_decision("approve"): the write, the acknowledgement, and the nudge for
\* agents that agreed with the human.
HumanApproves(s) ==
  /\ human = HumanIdle /\ s \in DOMAIN rlpStore
  /\ Spend("approvals", MaxApprovals)
  /\ human' = [pc |-> "approve", sid |-> s, rlp |-> rlpStore[s]]
  /\ UNCHANGED <<routerVars, poolVars, call, answers>>

HumanWrites ==
  /\ human.pc = "approve"
  /\ rlps' = [rlps EXCEPT ![human.rlp] = UpdateState(@, ApprovedLedger)]
  /\ human' = [human EXCEPT !.pc = "acknowledge"]
  /\ UNCHANGED <<routerVars, sessions, store, rlpStore, call, answers, spent>>

HumanAcknowledges ==
  /\ human.pc = "acknowledge"
  /\ rlps' = [rlps EXCEPT ![human.rlp] = AcknowledgeRepair(@)]
  /\ human' \in {HumanIdle, [human EXCEPT !.pc = "nudge"]}
  /\ UNCHANGED <<routerVars, sessions, store, rlpStore, call, answers, spent>>

HumanNudges ==
  /\ human.pc = "nudge"
  /\ rlps' = [rlps EXCEPT ![human.rlp] =
                UpdateState(@, Applied([kind |-> "nudge"], @.ledger))]
  /\ human' = HumanIdle
  /\ UNCHANGED <<routerVars, sessions, store, rlpStore, call, answers, spent>>

AgentsChange ==
  /\ Spend("changes", MaxChanges)
  /\ RegistryChange
  /\ UNCHANGED <<stats, decision, poolVars, call, human, answers>>

Tick ==
  /\ Spend("ticks", MaxTicks)
  /\ AgentsAge
  /\ sessions' = [o \in DOMAIN sessions |-> Older(sessions[o])]
  /\ UNCHANGED <<stats, decision, store, rlps, rlpStore, call, human, answers>>

-----------------------------------------------------------------------------
CallStep(c) ==
  \/ Fetch(c) \/ FindFresh(c) \/ FindExpired(c) \/ Resume(c)
  \/ Evict(c) \/ KeyError(c) \/ Create(c)
  \/ RlpTest(c) \/ RlpCreate(c) \/ RlpGet(c)
  \/ RouteCall(c) \/ RouteNull(c)
  \/ ReadLedger(c) \/ ToldTrust(c) \/ ToldIntent(c)
  \/ Blocked(c) \/ PassGate(c)
  \/ Dispatch(c) \/ Vote(c) \/ MalformedVote(c) \/ RunConsensus(c) \/ RoundRaises(c)
  \/ ToldReached(c) \/ ToldFailed(c)
  \/ RecordTurn(c) \/ NoVoterListed(c) \/ Adapt(c) \/ AdaptNull(c)

HumanStep ==
  \/ \E s \in Ids : HumanApproves(s) \/ \E u \in Reports : HumanReports(s, u)
  \/ HumanWrites \/ HumanAcknowledges \/ HumanNudges

BridgeNext ==
  \/ \E c \in Calls : CallStep(c) \/ HandleMalformed(c) \/ \E m \in Messages : Handle(c, m)
  \/ HumanStep \/ AgentsChange \/ Tick

BridgeSpec == BridgeInit /\ [][BridgeNext]_bridgeVars

-----------------------------------------------------------------------------
Locations ==
  {"idle", "fetch", "test", "touch", "evict", "create", "rlp", "rlp_create", "rlp_get",
   "route", "read", "write", "gate", "dispatch", "vote", "record", "adapt"}

\* The ledgers a bridge may write: the trust of a sender is not clamped.
WideLedger == [trust: Int, intent: Level, narrative: Level, commitments: Level]

BridgeTypeOK ==
  /\ RegistryTypeOK
  /\ \A o \in DOMAIN sessions :
       sessions[o].sid \in Ids /\ sessions[o].idle \in 0..(SessionTTL + 1)
  /\ \A s \in DOMAIN store : sessions[store[s]].sid = s
  /\ DOMAIN rlpStore \subseteq Ids
  /\ \A r \in DOMAIN rlps : rlps[r].ledger \in WideLedger /\ rlps[r].gate \in BOOLEAN
  /\ \A c \in Calls :
       /\ call[c].pc \in Locations
       /\ call[c].pc \in {"idle", "fetch", "evict", "create"} <=> call[c].session = None
       /\ call[c].rlp # None => rlpStore[SessionOf(c)] \in DOMAIN rlps
  /\ answers.handled <= MaxHandled

\* A message whose own trust score would rupture even the best of ledgers is never
\* served, as long as no human has approved: the update of another message that
\* overwrites this one's trust reading does not reopen the gate it closed.
WaryMessageIsBlocked ==
  [][\A c \in Calls : PassGate(c) /\ spent.approvals = 0 =>
       ~Ruptured([trust |-> MapTrust(call[c].msg.trust),
                  intent |-> 100, narrative |-> 100, commitments |-> 100])]_bridgeVars

\* Every turn recorded, by the session it is in and its place there.
Turns == UNION {{o} \X DOMAIN sessions[o].turns : o \in DOMAIN sessions}

\* The calls about to send a successful answer.
Answering == {c \in Calls : At(c, "adapt") /\ call[c].ok}

\* The turns of all sessions are the successful answers, those about to be sent
\* and, at most, some whose answer then failed to adapt: an error is the only way
\* for a turn to exist without its answer, and no answer lacks its turn.
TurnsMatchAnswers ==
  LET turns  == Cardinality(Turns)
      served == answers.served + Cardinality(Answering)
  IN  served <= turns /\ turns <= served + answers.failed

\* "One RLPSession per bridge session", never two for an id.
OneRLPSessionPerId ==
  \A r \in DOMAIN rlps : \E s \in DOMAIN rlpStore : rlpStore[s] = r

\* The gate of a session id, whichever RLPSession the store holds for it.
Gate(s) == INSTANCE RepairGate WITH
  Callers   <- {"human"},
  open      <- s \in DOMAIN rlpStore => rlps[rlpStore[s]].gate,
  ruptured  <- s \in DOMAIN rlpStore /\ Ruptured(rlps[rlpStore[s]].ledger),
  approving <- IF human.pc \in {"approve", "acknowledge"} /\ human.sid = s THEN {"human"} ELSE {}

\* README "The gate reopens when ... after a human approves ... No unconditional
\* release": messages, expired and recreated sessions and pact-hh's reports never
\* reopen the gate of a session id; only the acknowledgement of an approval does.
EveryIdKeepsItsGate ==
  [][\A s \in Ids : [Gate(s)!GateNext]_(Gate(s)!gateVars)]_bridgeVars

\* "Interaction blocked until repair": no agent is called for a session id whose
\* gate is closed, counting the message's own trust score, unless pact-hh has reported
\* something since the message passed the gate, which it does once for all its agents.
AgentsBehindOpenGate ==
  [][\A c \in Calls : (Dispatch(c) \/ Vote(c)) /\ spent.reports = call[c].reports =>
       rlps[rlpStore[SessionOf(c)]].gate]_bridgeVars

\* A turn is recorded in the session the next message with the same id will find.
TurnsAreFound ==
  [][\A c \in Calls : RecordTurn(c) =>
       SessionOf(c) \in DOMAIN store /\ store[SessionOf(c)] = call[c].session]_bridgeVars

\* RLPSession "Wraps a single rlp-0 instance for the lifetime of a pact-bridge
\* session": a session that get_or_create starts, afresh after expiry too, finds no
\* RLPSession left by an earlier session of its id.
FreshSessionFreshRLP ==
  [][\A c \in Calls : Create(c) => sessions'[call'[c].session].sid \notin DOMAIN rlpStore]_bridgeVars
=============================================================================
