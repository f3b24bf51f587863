# pact-bridge in TLA+

A verification development for `pact_bridge` (Python), kept beside the code. It
models the message pipeline and the four stateful components under it, checks
them with TLC on small instances, and proves with TLAPS, for every instance, every
safety property the passing runs check. `src/` below is the repository; line numbers are
those of the commit modelled.

## 1. The system

A message enters `PACTBridge.handle(dict)` and leaves as a platform-shaped dict.
On the way (`core.py`, `_process`):

    session  ->  RLPSession  ->  route  ->  tell rlp-0 the sender's trust
             ->  answer untrusted / no agent / unknown intent
             ->  tell rlp-0 a translation  ->  gate check  ->  RUPTURE_BLOCKED
             ->  one agent, or every candidate and a consensus round
             ->  record the turn  ->  adapt to the platform

| Component | State | Operations | Who else touches it |
|---|---|---|---|
| `PACTBridge` (`core.py`) | `_metrics`, `_handlers` | `handle`, `register_handler`, `metrics`, `health` | every thread that calls `handle` |
| `AgentRegistry`, `AgentCard` (`agent_registry.py`) | ordered dict of cards; trust and last-seen of each card, changed in place | `register`, `heartbeat`, `deregister`, `update_trust`, `prune_stale`; `find`, `candidates`, `get` | agents; the coordination bus (TRUST_UPDATED); routing decisions hold references to cards |
| `IntentRouter` (`intent_router.py`) | `_stats` | `route` | reads the registry, calls pact's `translate` |
| `SessionStore`, `Session` (`session_store.py`) | dict of sessions; turns, context, last-active | `get_or_create`, `close`, `gc`, `record_turn`, `prepare_handoff`, `checkpoint` | calls in progress hold references to sessions |
| `RLPSession`, `RLPSessionStore` (`rlp_session.py`) | dict of RLP sessions; each an rlp-0 ledger, a gate, an event log | `on_*` handlers, `gate_open`, `rupture_risk`; `get_or_create`, `close` | the bridge, and pact-hh's loop on the shared `rlp_store` |
| `ResponseAdapter` (`response_adapter.py`) | the adapter of each platform | `register`, `adapt` | |
| `BridgeConfig` (`config.py`) | none | `from_env` | |
| rlp-0, pact, pact-ax, pact-hh | external packages | `update_state`, `acknowledge_repair`; `translate`; `ConsensusProtocol.run`, the bus; approvals | |

What is hard about it:

* **Concurrency without locks.** The README's "Wiring with pact-hh" starts
  pact-hh's escalation loop (`loop.start()`) beside the bridge on the same
  `rlp_store`; nothing in `pact_bridge` takes a lock. That more than one thread
  calls `handle` is an assumption of ours (a webhook server does that): it is made
  by `SessionStore_concurrent`, `PACTBridge_concurrent` and `_gaterace`, and by
  `AgentAnswers`, where a handler that calls `handle` again does as well.
* **Scans that delete later.** `prune_stale` and `gc` list ids and then delete by id.
* **Read-modify-write of a whole ledger.** Every `RLPSession` handler reads the
  four primitives and writes all four back.
* **Two lifetimes under one id.** `SessionStore` expires a session and starts it
  afresh; `RLPSessionStore` does not hear of it.
* **References that outlive dict entries**: sessions, RLP sessions and cards held
  by a call in progress.
* **Failures in the middle** of a message: a null `trust_score`, an answer the
  consensus code cannot read, a platform `adapt` cannot lower-case.
* **Agents that answer anything, late or never**: an error becomes a result, a
  result of any JSON shape becomes a turn or a vote, a handler has no timeout, and
  a handler may call `handle` again.
* **Time**: two TTLs with different comparisons (`<=` for agents, `<` for
  sessions), and a collector that somebody must call.

What makes each component correct:

* registry: an id names one card; only an agent itself makes itself routable; a
  silent agent leaves;
* router: the candidates are exactly the live, able, trusted agents, in order;
  the chosen one is unbeaten;
* session store: a session within its TTL stays the one its id names; one that has
  left never comes back;
* RLP session: only an approval reopens the gate, and an approval is not lost;
* bridge: one RLP session per id, no agent called behind a closed gate, turns and
  answers in step;
* answers: what the sender is told and what the session remembers agree, the
  context is never ahead of the turns, a message is answered unless its agent
  holds it.

## 2. Modules

| Module | Models | Built on |
|---|---|---|
| `RLP0` | the external rlp-0 instance: ledger, latching gate | |
| `RLPEvents` | what each `on_*` handler does to the ledger | `RLP0` |
| `RLPSession` | one RLP session and the threads inside it | `RLPEvents` |
| `RLPApproval` | who calls an RLP session: the pipeline and pact-hh's thread; beside it, the ledger of the same events told one after another | `RLPSession` |
| `RepairGate` | abstract: what the gate of a session promises | |
| `Lists` | a list comprehension with a test, and the stable sort, without recursion | |
| `AgentRegistry` | registry and cards | `Lists` |
| `IntentRouter` | routing over a changing registry | `AgentRegistry` |
| `SessionEntries` | session objects and the store's dict, as pure operators | |
| `SessionStore` | the store and the threads inside it | `SessionEntries` |
| `Conversations` | abstract: what a sender is promised by the session store | |
| `AgentAnswers` | from the routing decision to the wire: dispatch, HTTP, votes, rounds, `record_turn`, `checkpoint`, adapters | |
| `PACTBridge` | `handle` by several callers over all of the above | `IntentRouter`, `SessionEntries`, `RLPEvents` |
| `RLPEventsProofs`, `RLPSessionProofs` | theorems about the ledger's arithmetic and one RLP session | `RLPSession` |
| `ListsProofs`, `AgentRegistryProofs`, `IntentRouterProofs` | theorems about lists, the registry over them, the router over that | `IntentRouter` |
| `SessionStoreProofs` | theorems about the session store and its refinement | `SessionStore` |
| `AgentAnswersProofs` | theorems about answers, turns and contexts | `AgentAnswers` |
| `PACTBridgeProofs` | theorems about the whole bridge | `PACTBridge`, `IntentRouterProofs`, `RLPEventsProofs` |
| `MC*` | instances for TLC | |

There are two abstract specifications. `RepairGate` is implemented twice: by
`RLPSession` (`ImplementsRepairGate`, proved and checked) and, per session id, by
the whole bridge (`EveryIdKeepsItsGate`, proved and checked with one caller; with
two it fails, see below). `Conversations` is implemented by `SessionStore` for one caller
(`ImplementsConversations`, proved and checked): an id's conversation is the turns
of the session the store holds for it, it has lapsed when the session is expired,
and `spoken` is the set of turns ever recorded in any session, so that a turn
recorded in a session the store no longer holds cannot pass for a stutter. With two callers it fails, as
`LiveSessionsAreKept` does.

### How state and actions correspond to the code

* **Objects** (cards, sessions, RLP sessions) live on heaps, sequences that only
  grow, and are named by position; the code's dicts map ids to positions. This is
  what lets a call keep a session that the store has dropped, and a decision keep
  a card that `register` has replaced.
* **Scores** are integers in hundredths: every delta in `rlp_session.py` is a
  multiple of 0.01, and comparisons are exact. `MapTrust` rounds `0.2 + 0.8 x`
  down to a hundredth.
* **Time** passes in ticks; an object has an age, which stops counting one past the
  TTL, where all ages behave alike.
* **`RLPSession`**: `BeginUpdate` is `_log` and `s = self._rlp.state`; `WriteBack`
  is `update_state`; an approval is `BeginApproval`, `WriteApproval`,
  `Acknowledge` and, for agents that agreed, `Reread` and `WriteBack` again.
  Without rlp-0 installed (`available`, chosen at `Init`) the session is a passthrough:
  every event is only logged, as `OtherDecision` is, and `GateOpen` and `RuptureSeen`
  (`gate_open`, `rupture_risk`) answer as if all were well.
  `RLPApproval` says which thread tells of which event, and keeps in `serial` the
  ledger as the same events make it one after another.
* **`AgentRegistry`**: `PruneScan` and one `PruneDelete` per listed id are
  `prune_stale`; an id that has gone meanwhile is `PruneKeyError`. `register`,
  `heartbeat`, `deregister` and `update_trust` are one step each: the KeyError of
  their test and access with a deletion in between, which leaves the registry as it
  is, is left out.
* **`SessionStore`**: `Ask`, `Fetch`, `FindFresh` / `FindExpired`, `Resume`, `Evict`,
  `Create` are the statements of `get_or_create` between which another thread can
  run. `gc` is `GcBegin`, a `GcLook` per entry, `GcListed`, and a `GcDelete` per
  expired id; an insertion or deletion while it looks is Python's RuntimeError
  (`GcRuntimeError`), a key that went meanwhile is `KeyError`. The entries are looked
  at in any order, and `close` is the step of its `del`. Each `record_turn` is one
  step here.
* **`IntentRouter`**: `Decision` is `route` with its five outcomes, `Translations`
  what pact may answer; a registry that raises passes the intent through.
* **`AgentAnswers`** refines one step of `PACTBridge` (`Dispatch`, `Vote`,
  `RecordTurn`, `Adapt`) into what the code does there. `CallHandler`, `Post` and
  `Stub` are the branches of `_dispatch`; `HandlerReturns` and `HttpReturns` bring
  a result, in which only what the code reads is kept: whether it is a dict, what
  it decides, whether its confidence is a number. An error or a stub is a dict that
  decides nothing. `SilencePasses`, `BytesArrive` and `Timeout` are `urlopen`'s
  timeout, which bounds each wait on the socket and not the whole answer. `Answer`
  is what `_process` and `_run_consensus` make of a result, `ReachRound` and
  `FailRound` the outcome of `ConsensusProtocol.run` (external: some decision that
  was voted for, or none; the winner may be missing from the dissent map), and
  `RoundRaises` an exception of it, or of `dissent_map.get(...)[0]` for a winner with
  nobody listed.
  `AppendTurn`, `TellAgent`, `TellCount` are `record_turn` where others may come
  in between; the context is a dict on a heap, and so is each checkpoint, a copy of
  it. `Adapt` and `AdaptFails` are the adapters.
* **`PACTBridge`**: `call[c].pc` says where an activation of `handle` is. `Handle`
  is `_parse` and the test of `get_or_create`; then the session steps, the RLP
  store steps, `RouteCall`, a `ReadLedger` / `Told...` pair for everything rlp-0
  is told, `Blocked` / `PassGate`, `Dispatch` or one `Vote` per candidate and
  `RunConsensus`, `RecordTurn`, `Adapt`. Every exception that reaches `handle`'s
  `except` is an `Error`: `KeyError`, `RouteNull`, `MalformedVote`, `RoundRaises`,
  `NoVoterListed`, `AdaptNull`; `HandleMalformed` is a message `_parse` cannot read.
  `Human...` is pact-hh, `AgentsChange` any step of the registry, `Tick` the clock.
  A `trust_score` is whatever number the message has. `answers` is a history of
  what was handled and answered, not a variable of the code: the counters of
  `_metrics` count the same with an unlocked `+= 1`, and may fall behind it.

## 3. What the runs show

Passing:

| Run | Shows |
|---|---|
| `RLPSession_concurrent` | two threads in one RLP session, all events: refinement of `RepairGate` |
| `AgentRegistry` | `OnlyTheAgentRevives`; `SilentAgentsLeave` (liveness) |
| `IntentRouter` | `CandidatesAreExact` against a definition without lists or sorting, `PrimaryIsUnbeaten`; while a decision is held and the registry goes on changing, its candidates stay different agents (`RouterTypeOK`) |
| `SessionStore_sequential` | one caller: `LiveSessionsAreKept`; refinement of `Conversations` |
| `SessionStore_concurrent` | two threads: `ClosedStaysClosed`, entries are sessions of their ids |
| `PACTBridge_sequential` | conversations of two messages of every kind, while pact-hh reports and approves, sessions expire and the registry changes: `OneRLPSessionPerId`, `EveryIdKeepsItsGate`, `TurnsAreFound`, `AgentsBehindOpenGate`, `TurnsMatchAnswers` |
| `AgentAnswers` | two messages of one session under way at once: `WireTellsOfTurn`, `NoRoundAfterItsTurn`, `ContextIsNeverAhead`, and `AnsweredOrHeld` (liveness) |
| `PACTBridge_concurrent` | two threads in `handle`, and a session that may expire between their steps: `WaryMessageIsBlocked`, `TurnsMatchAnswers`; the primitives the bridge computes stay in 0..1 |

Disagreements between the code and what the repository says of it; each run ends
in the counterexample:

| Run | What happens |
|---|---|
| `RLPApproval_lost` | The bridge reads the ledger for a failed round; pact-hh writes an approval; the bridge writes its stale, ruptured ledger back; pact-hh acknowledges that, and the gate stays closed (README:164 "human approves -> gate releases"). It is not that the primitives did not improve (README:161): the approval followed by the failed round leaves a healthy ledger, `serial`. |
| `AgentRegistry_refresh` | A periodic `register` resets learned trust (`agent_registry.py`:17, :69). |
| `PACTBridge_gaterace` | Two first messages of one conversation create its RLP session twice; a closed gate is replaced by an open one (README:161). |
| `PACTBridge_freshsession` | A session started afresh inherits the gate of the expired one (`rlp_session.py`:58). |

More disagreements are visible in the models without a run of their own:

* Two first messages of one id, in two threads, both find no session (`Ask`); each
  begins one (`Create`), and the second replaces the first, whose turns no later
  message finds (`session_store.py`:173 "Return an existing session"). This is why
  `LiveSessionsAreKept` is about one caller.
* A message starts a session afresh after `gc` has listed its id; `GcDelete` then deletes
  the new one (`session_store.py`:212 "Garbage-collect expired sessions").
* An agent that registers or sends a heartbeat between `PruneScan` and its `PruneDelete`
  is deleted (`agent_registry.py`:246 "Remove stale agents"), and is not routed to until
  it registers again.
* A message's own `trust_score` of 1.5 is told to rlp-0 as a trust above 1
  (`rlp_session.py`:107 "0.0-1.0"; `core.py`:197 and :230 do not clamp): the ledgers of
  `PACTBridge` are `WideLedger`s.
* `_select_best` lets the message's platform outrank trust (README:127 "dispatch to
  best-trust agent"); `PrimaryIsUnbeaten` states exactly what it promises instead.
* `CandidatesAreExact` with its trust floor is also the set of voters: an agent
  below the floor has no vote (README:141 "All registered agents that handle the
  intent cast a vote").
* `ToldTrust` answers NO_AGENT and unknown intents before the gate is looked at;
  README:123 draws the gate check before the translation and the candidates.
* No action of `AgentAnswers` hands a conversation off: nothing calls
  `prepare_handoff`, so that a session that switches agents packages no context
  (README:175-177).
* An agent that fails is answered for by `{"error": ...}`. `Answer` makes it a turn
  with a success on the wire, on which Rasa and Dialogflow show a text that says
  the intent was handled; or a vote for "proceed" with the agent's whole trust, so
  that a round may reach a decision no agent spoke for.
* A result that is no dict is recorded, and counted as a success, before Rasa's and
  Dialogflow's adapters fail on it (`AdaptFails`).
* `_on_signal` publishes two arguments on the bus (`rlp_session.py`:303) on which
  `_emit` publishes one event (`core.py`:534), and only a bus given when the RLP
  session was created (`rlp_session.py`:347) gets any. The bus is external, and
  signals are not modelled.
* `BridgeConfig.enable_bus` (`config.py`:75) is read nowhere: `_emit` publishes
  whenever there is a bus.
* No action of `PACTBridge` collects a session: nothing in the bridge calls `gc`
  (`config.py`:48 "before being garbage-collected").

Each property of a passing run has a mutant, defined just before the operator it
replaces ("Mutant of ..."): a plausible slip in that code under which TLC finds
the property violated in the same run.

### Bounds

| Bound | Value | Why it is enough |
|---|---|---|
| `Callers`, `Calls` | 1 or 2 | every race here is between a reader and one intervening writer; the two threads of `PACTBridge_concurrent` are interchangeable and so its symmetry set |
| `MaxEvents` | 4 or 5 | a rupture takes two or three events, an approval one, and one can be lost in between |
| `Cards`, `MaxCards` | 2-3 cards, 3 objects (2 in the bridge) | a card replaced by a second object of its id, and a third agent to compare with; the bridge has its agents from the start, and they leave, return, expire and lose trust |
| `HeartbeatTTL`, `SessionTTL` | 1 | ages 0, 1 (the boundary) and 2 (beyond) are all that the tests tell apart |
| `MaxSessions`, `UuidIds` | 3, 1-3 | a session, its successor, and one of another id; `Ask` keeps room for what it begins |
| `MaxRouted` | 1 | a decision depends on the registry, not on earlier decisions |
| `MaxHandled` | 2 or 3 (`AgentAnswers`: 2) | a message that ruptures, one that meets the consequence, and one beside them |
| `Agents`, `Routings` of `AgentAnswers` | 2, 2 | one agent behind an endpoint and one that is a stub until its handler is registered; one agent's message, and a round of both |
| `Platforms`, `OwnPlatforms` | 3, 1 | an adapter that passes results through, one that reads them, and one a host registers, which is the pact fallback before |
| `MaxSaved` | 1 | a checkpoint, and what happens after it |
| `MaxReports`, `MaxApprovals` | 0 or 1 | a report and an approval, or none where the run is about messages only |
| `MaxTicks`, `MaxChanges` | 0 to 2 | one tick past each TTL; one registry change in a round |
| `MaxWatched` | 2 | a decision over up to two cards is held while the registry changes them in every way, until a third card is registered |

With the bounds reached callers have nothing to do, so `CHECK_DEADLOCK FALSE` is
set where they stop. rlp-0's risk formula is not in this repository: the runs of
`RLPSession` take the mean of the four primitives and those of `PACTBridge` the
worst, the proofs hold for any.

`AgentsBehindOpenGate` speaks of the agents called before pact-hh reports anything
after the message has passed the gate (`call[c].reports`): a report that closes the
gate between the check and the call is possible, and the code makes no promise about
it. Reports before the check, of this message or an earlier one, are covered.

### What the properties do not say

* `TypeOK` of `RLPSession`, unlike `BridgeTypeOK`, relies on the documented 0..1 of
  `on_trust_evaluated`'s input. In `PACTBridge` the trust of a ledger may be any number
  (`WideLedger`); that rlp-0 accepts one is an assumption.
* `CandidatesAreExact` and `PrimaryIsUnbeaten` leave open which of several agents of
  equal trust comes first.
* `OneRLPSessionPerId`, `TurnsAreFound`, `EveryIdKeepsItsGate` and
  `AgentsBehindOpenGate` are for one caller of `handle`, `LiveSessionsAreKept` and
  `ImplementsConversations` for one caller of the store: the races of
  two are the run `PACTBridge_gaterace` and the first item of the list above.
* `ImplementsRepairGate` and `WaryMessageIsBlocked` rest on the latch of rlp-0's gate,
  which is external. What a stale write of the ledger loses is `ApprovalReleases`'
  subject, not theirs.
* `ContextIsNeverAhead` allows a context that lags behind, and one that is read
  between the writes of `record_turn`.

### Fairness

* `WF(AgentsAge)` in the registry: time passes.
* `WF(Advance(c))` in `AgentAnswers`: a thread inside the bridge's own code runs on,
  and an endpoint's silence lasts until the timeout unless it is broken. Nothing is
  assumed of what agents do: a handler may never return, an endpoint may send for
  ever, and `AnsweredOrHeld` says that nothing else keeps a message unanswered.

Nothing is assumed about senders, agents' heartbeats or humans. `PACTBridge` is
checked for safety only: `handle` has no lock to wait for and no loop, so that a
message is answered is a matter of its agents answering, which is
`AgentAnswers`'.

## 4. What is proved

Every safety property that a passing run checks is a theorem: for every set of callers, agents, ids and messages, every list length, every bound, TTL and
threshold, and every risk formula. The assumptions are the named `ASSUME`s of the
modules, which TLC evaluates on every run: inputs are what the code can be given
(levels within 0..1, ids of senders and uuids apart, no null marker among values,
agents registered at the start under different ids), the TTLs and bounds are
natural numbers, rlp-0 starts on a healthy ledger, the platforms a host registers
are not built in, and the callers of the session store are finitely many. What a
theorem needs beyond these is a hypothesis of its own, named below.

| Theorem | Property | Besides the assumptions |
|---|---|---|
| `TypeCorrect` | `TypeOK` | |
| `SessionImplementsRepairGate` | `ImplementsRepairGate` | |
| `RegistryTypeCorrect`, `AgentsReviveThemselves` | `RegistryTypeOK`, `OnlyTheAgentRevives` | |
| `RouterTypeCorrect`, `CandidatesAreTheAble`, `PrimaryIsAbleAndUnbeaten` | `RouterTypeOK`, `CandidatesAreExact`, `PrimaryIsUnbeaten` | |
| `StoreTypeCorrect`, `ClosedSessionsStayClosed` | `StoreTypeOK`, `ClosedStaysClosed` | |
| `LiveSessionsStay` | `LiveSessionsAreKept` | one caller |
| `ConversationsAreImplemented` | `ImplementsConversations` | one caller, a TTL of at least a tick |
| `AnswersTypeCorrect`, `WireTellsTheTruth`, `ContextFollows`, `RoundsAreNotRepeated` | `AnswersTypeOK`, `WireTellsOfTurn`, `ContextIsNeverAhead`, `NoRoundAfterItsTurn` | |
| `BridgeTypeCorrect`, `TurnsAndAnswersMatch` | `BridgeTypeOK`, `TurnsMatchAnswers` | |
| `WaryMessageBlocked` | `WaryMessageIsBlocked` | `RiskFalls` |
| `OneRLPSessionForever`, `TurnsFound`, `EveryGateImplementsRepairGate` | `OneRLPSessionPerId`, `TurnsAreFound`, `EveryIdKeepsItsGate` | one caller |
| `AgentsBehindGate` | `AgentsBehindOpenGate` | one caller, `RiskFalls`, `InRange`, a healthy `ApprovedLedger` |

"One caller" is where the code needs it: with two, `LiveSessionsAreKept` and
`EveryIdKeepsItsGate` have counterexamples. pact-hh, agents and the clock act
beside that caller. `RiskFalls` says of rlp-0's formula, which this repository does
not have, that a ledger nowhere better than a ruptured one is ruptured; the mean
and the worst of the four primitives are such formulas. Without it the prover is
right to refuse: a formula under which trust adds to risk lets a wary message by.
`InRange` says that messages claim a trust within 0..1, which the code does not see
to; only `AgentsBehindGate` needs it. `BridgeTypeCorrect`, and the theorems
that rest on it, do not: there the trust of a ledger is any integer.

### The arguments

**`RLPSession`.** `TypeOK`'s content is arithmetic: whatever ledger, however stale,
a handler writes back, the primitives stay in 0..1 (`AppliedType`, `ClampedLevels`,
`MappedTrust`), so stale copies are ledgers too. For the refinement,
both writes are `Assess`, `BeginApproval` is `Approve`, `Acknowledge` is
`Acknowledged` (`GateStep`).

**`Lists`.** The prover sees nothing in `SelectSeq` or a fold, and has no induction
over the length of a list. `Select` and `Sorted` are therefore the positions of a
list put in order; that a finite set of positions has exactly one order-preserving
enumeration (`PlaceFacts`: an element's place is one more than the number of
elements before it) gives what both return (`SelectFacts`, `SortedFacts`).

**`AgentRegistry`.** `RegistryInv`: the dict's values are card objects, one per
agent id. From it, `CardOf(id)` is the entry of `id`; a step that is not the
agent's own `register` or `heartbeat` leaves its age, or raises it, or takes the
entry away (`UnannouncedRevivesNobody`), and one that is concerns only that agent
(`AnnouncedRevivesOne`).

**`IntentRouter`.** `RouterInv` adds that what a decision refers to is on the heap
of cards (`DecisionOK`), which only grows. That the candidates are exact is
`SelectFacts` and `SortedFacts` applied to the able and trusted of the live agents.

**`SessionStore`.** `StoreInv` says what the heap holds (`HeapOK`), that an entry is
a session of its id (`DictOK`), where the callers are and that what they hold exists
(`CallersOK`), and that the heap has room for what the calls under way may still
create (`RoomOK`, which is why the callers are finite). `ClosedStaysClosed` follows
because only `Create` enters a session in the dict, and the one it enters is new on the
heap; that others hold on to sessions the store has dropped does not matter to it. With
one caller, what it holds is what the store has for
the id (`Sole`), from which nothing alive is ever replaced; and each statement is a
step of `Conversations` or a stutter.

**`AgentAnswers`.** `AnswersInv` says of every activation how its votes, its turn and
its answer hang together (`Progress`), of every turn that the round it names had a
count no greater than the turns before it (`GoodTurn`), and of every context that it
tells no more turns than there are (`GoodContext`). The properties are read off it.

**`PACTBridge`.** `BridgeInv` holds for any number of calls because nothing a call
has looked up is ever taken away: heaps grow, a session keeps its id, and the RLP
store drops nothing (`PoolsKept`, `CallStays`); so it is enough to follow the one
call that moves (`OneMoves`). On top of it:

* `CountInv`: the turns form a finite set, to which only `RecordTurn` adds, one at a
  time; the calls about to send a success another, which only `RecordTurn` enters; a
  call that is not there is not yet a success (`ToldTrust` and `ToldFailed` go the
  same way with nothing to show). Every step then adds to the turns what it adds to
  the answers, or an error.
* `WaryInv`: while rlp-0 is told a message's trust, the update is that message's;
  once told, the gate is shut (`ToldLedger`, with `RiskFalls`) and stays shut as
  long as nobody approves (`GatesOnlyClose`), whoever else writes what.
* `SoleInv`, one caller: every RLP session is the one the store holds for exactly
  one id (`RlpsPaired`), pact-hh's included, and what the call has looked up is what
  the stores still give (`CallKept`). Each step is then a new, open gate, an
  assessment of one RLP session (`Assessed`), an approval, or the acknowledgement of
  an approval of its id, which is `RepairGate` id by id (`EveryGateStep`).
* `BehindInv`, one caller: an open gate is healthy, and stays open while the call is
  at its agents: an approval writes a healthy ledger, and the nudge after it only
  raises trust (`NudgeIsHarmless`).

### Only model-checked

* Liveness, `SilentAgentsLeave`, `AnsweredOrHeld`: fairness and
  `ENABLED` are out of the prover's reach.
* The counterexamples of section 3: a violation is shown by a run, not by a proof.

## 5. Not modelled

* The wording of the adapters' formats: the model keeps status, agent and what an
  adapter reads.
* `BridgeConfig.from_env`; configuration values are constants.
* `prepare_handoff`: it changes nothing in the session, nothing calls it, and what
  the transfer manager keeps of the packet, which holds the live context, is not in
  this repository.
* The bridge's counters (`_metrics`), an unlocked `+= 1` by which nothing is decided:
  several threads lose counts, of `handled` as of the others, so that the counters may
  show more successes than messages handled. The router's statistics, unlocked too,
  are added to in one step.
* Published events, `metrics()`, `health()`, logging.
* What a consensus round weighs: trust scores go to pact-ax's `ConsensusProtocol`.
* The KeyErrors of the registry's `heartbeat`, `deregister` and `update_trust`, and of
  the store's `close`, when the key goes between test and access. `gc`'s order of
  looking at entries.
* rlp-0's signals (`_on_signal`, `on_rupture`): when they are sent is rlp-0's affair.
* `RLPSessionStore.close`, which nothing in the bridge calls.
* pact-hh's reports and nudges are one step in `PACTBridge`; `RLPSession` splits them.
* The text of an agent's answer, and a handler that writes into the context dict it
  is handed.
* Round ids beyond one `Session` object: a conversation started afresh after expiry
  counts its rounds from 0 again under the same id.

## 6. Plan

Done, in this order: `RLPSession` with its abstract gate; `AgentRegistry`,
`IntentRouter`; `SessionStore`; `PACTBridge`; `AgentAnswers`; `Conversations`;
`RLPSession` without rlp-0; then the proofs of `RLPSession`, `AgentAnswers`,
`SessionStore`, `AgentRegistry`, `IntentRouter` and `PACTBridge`; `RLPApproval`.

Next: what the bridge's steps of `AgentAnswers` add to `PACTBridge` as a refinement
(`Dispatch`, `Vote`, `RecordTurn` and `Adapt` as the abstract steps), and the weakest
conditions under which several callers keep the gate of an id (calls that begin no
RLP session at the same time).
