------------------------------ MODULE AgentAnswers ------------------------------
(***************************************************************************)
(* What becomes of an agent's answer (pact_bridge/core.py from the routing *)
(* decision on, Session.record_turn, response_adapter.py): an agent is     *)
(* called in process, over HTTP or not at all; what it says, or that it    *)
(* fails, becomes a turn or a vote; a turn is entered in the session and   *)
(* its context; and an adapter puts the response on the wire.              *)
(*                                                                         *)
(* The messages belong to one session, and several may be under way: of    *)
(* several threads, or because an in-process handler calls handle again.   *)
(* Which message comes to which agents, rlp-0 and expiry are PACTBridge's. *)
(***************************************************************************)
EXTENDS Integers, Sequences, FiniteSets

CONSTANTS
  Calls,        \* activations of handle
  Agents,       \* the agents the router may choose
  Endpoints,    \* those whose card has an HTTP endpoint
  Hosted,       \* those the host may register a handler for
  Decisions,    \* what an agent may say in "decision" or "action"
  Routings,     \* the routing decisions: the agent chosen, or the candidates of a round
  OwnPlatforms, \* platforms of its own a host may register an adapter for
  Platforms,    \* the platforms messages come from
  None,         \* Python's None
  MaxHandled,   \* bound on the messages handled
  MaxSaved      \* bound on the checkpoints taken

BuiltIn == {"pact", "dialogflow", "rasa", "custom"}

ASSUME AnswersAssumption ==
  /\ Endpoints \subseteq Agents /\ Hosted \subseteq Agents
  /\ "proceed" \in Decisions /\ None \notin Decisions \cup Agents \cup Nat
  /\ \A r \in Routings : r.candidates \in Seq(Agents) /\ r.candidates # <<>>
  /\ OwnPlatforms \cap BuiltIn = {}
  /\ MaxHandled \in Nat /\ MaxSaved \in Nat

VARIABLES
  protocol,    \* whether pact-ax gave a ConsensusProtocol
  handlers,    \* the keys of self._handlers
  adapters,    \* the keys of ResponseAdapter._adapters
  turns,       \* session.turns
  dicts,       \* heap of context dicts; the first is session.context
  checkpoints, \* the dicts handed to the transfer manager as checkpoints
  call,        \* where each activation is, with its locals
  handled      \* the messages handled so far

vars == <<protocol, handlers, adapters, turns, dicts, checkpoints, call, handled>>
sessionVars == <<turns, dicts, checkpoints>>
hostVars == <<protocol, handlers, adapters>>

\* A result: a dict with a decision or without, a dict whose confidence is no number,
\* or another JSON value or Python object.  An error or a stub is a dict that says
\* nothing.
Results ==
  [kind: {"dict"}, decision: Decisions \cup {None}] \cup
  [kind: {"bad_confidence", "not_dict"}, decision: {None}]

Silent == [kind |-> "dict", decision |-> None]

Idle == [pc |-> "idle", routing |-> None, platform |-> None, silent |-> FALSE,
         votes |-> <<>>, agent |-> None, result |-> None, round |-> None,
         turn |-> 0, length |-> 0, ok |-> FALSE, sent |-> None]

EmptyContext == [last_agent |-> None, turn_count |-> 0]

AnswersInit ==
  /\ protocol \in BOOLEAN
  /\ handlers = {} /\ adapters = BuiltIn
  /\ turns = <<>> /\ dicts = <<EmptyContext>> /\ checkpoints = <<>>
  /\ call = [c \in Calls |-> Idle]
  /\ handled = 0

At(c, label) == call[c].pc = label
Goto(c, label) == call' = [call EXCEPT ![c].pc = label]

\* handle returns a dict: what it reads as, and the agent it names.
Send(c, answer) ==
  call' = [call EXCEPT ![c].pc = "sent", ![c].votes = <<>>, ![c].sent = answer]

Failure == [kind |-> "error", agent |-> None]

-----------------------------------------------------------------------------
\* A message has been routed and let through the gate; a round needs the protocol.
Receive(c, r, p) ==
  /\ At(c, "idle") /\ handled < MaxHandled
  /\ handled' = handled + 1
  /\ call' = [call EXCEPT ![c] = [Idle EXCEPT !.routing = r, !.platform = p,
                !.pc = IF r.consensus /\ ~protocol THEN "adapt" ELSE "dispatch"]]
  /\ UNCHANGED <<hostVars, sessionVars>>

\* The agent called next.
Asked(c) == call[c].routing.candidates[Len(call[c].votes) + 1]

\* Mutant of Voted: a dict that says nothing is a vote for None.
VotedAsSaid(r) == r.decision

\* result.get("decision") or result.get("action") or "proceed".
Voted(r) == IF r.decision = None THEN "proceed" ELSE r.decision

\* _dispatch has returned r: the turn's result, or a vote.  A round raises on an
\* answer that is no dict or whose confidence is no number.
Answer(c, r) ==
  LET k == call[c]
      votes == Append(k.votes, [agent |-> Asked(c), decision |-> Voted(r)])
  IN
  \/ /\ ~k.routing.consensus
     /\ call' = [call EXCEPT ![c].pc = "append", ![c].silent = FALSE,
                             ![c].agent = Asked(c), ![c].result = r.kind]
  \/ /\ k.routing.consensus /\ r.kind = "dict"
     /\ call' = [call EXCEPT ![c].votes = votes, ![c].silent = FALSE, ![c].pc =
          IF Len(votes) = Len(k.routing.candidates) THEN "run" ELSE "dispatch"]
  \/ /\ k.routing.consensus /\ r.kind # "dict"
     /\ Send(c, Failure)

\* The handler is looked up when the agent's turn comes.
CallHandler(c) ==
  /\ At(c, "dispatch") /\ Asked(c) \in handlers
  /\ Goto(c, "handler")
  /\ UNCHANGED <<hostVars, sessionVars, handled>>

Post(c) ==
  /\ At(c, "dispatch") /\ Asked(c) \notin handlers /\ Asked(c) \in Endpoints
  /\ call' = [call EXCEPT ![c].pc = "http", ![c].silent = FALSE]
  /\ UNCHANGED <<hostVars, sessionVars, handled>>

Stub(c) ==
  /\ At(c, "dispatch") /\ Asked(c) \notin handlers \cup Endpoints
  /\ Answer(c, Silent)
  /\ UNCHANGED <<hostVars, sessionVars, handled>>

\* A handler returns (a false value becomes {}), or raises and is answered for.
HandlerReturns(c, r) ==
  /\ At(c, "handler")
  /\ Answer(c, r)
  /\ UNCHANGED <<hostVars, sessionVars, handled>>

\* The endpoint's JSON of any shape; or the request failed and is answered for.
HttpReturns(c, r) ==
  /\ At(c, "http")
  /\ Answer(c, r)
  /\ UNCHANGED <<hostVars, sessionVars, handled>>

\* urlopen's timeout bounds each wait on the socket, not the whole answer: five
\* silent seconds pass, or a byte comes and the wait starts again.
SilencePasses(c) ==
  /\ At(c, "http") /\ ~call[c].silent
  /\ call' = [call EXCEPT ![c].silent = TRUE]
  /\ UNCHANGED <<hostVars, sessionVars, handled>>

BytesArrive(c) ==
  /\ At(c, "http") /\ call[c].silent
  /\ call' = [call EXCEPT ![c].silent = FALSE]
  /\ UNCHANGED <<hostVars, sessionVars, handled>>

\* Mutant of Timeout: urlopen without a timeout.
NoTimeout(c) == FALSE /\ UNCHANGED vars

Timeout(c) ==
  /\ At(c, "http") /\ call[c].silent
  /\ Answer(c, Silent)
  /\ UNCHANGED <<hostVars, sessionVars, handled>>

-----------------------------------------------------------------------------
\* Mutant of RoundId: the count the context gives.
RoundIdFromContext == dicts[1].turn_count

\* round_id names the session and this number.
RoundId == Len(turns)

\* For each decision that was voted for, the first of its votes.
FirstVotes(c) ==
  LET votes == call[c].votes
  IN  {k \in DOMAIN votes : \A j \in 1..(k - 1) : votes[j].decision # votes[k].decision}

\* ConsensusProtocol.run reaches a decision somebody voted for; dissent_map may list
\* the winner's voters, or not list the winner at all.
ReachRound(c) ==
  /\ At(c, "run")
  /\ \E k \in FirstVotes(c) : \E agent \in {call[c].votes[k].agent, None} :
       call' = [call EXCEPT ![c].pc = "append", ![c].votes = <<>>, ![c].agent = agent,
                            ![c].round = RoundId, ![c].result = "dict"]
  /\ UNCHANGED <<hostVars, sessionVars, handled>>

\* Mutant of FailRound: a failed round is answered like one that was reached.
FailRoundAsSuccess(c) ==
  /\ At(c, "run")
  /\ call' = [call EXCEPT ![c].pc = "adapt", ![c].votes = <<>>, ![c].ok = TRUE]
  /\ UNCHANGED <<hostVars, sessionVars, handled>>

FailRound(c) ==
  /\ At(c, "run")
  /\ call' = [call EXCEPT ![c].pc = "adapt", ![c].votes = <<>>]
  /\ UNCHANGED <<hostVars, sessionVars, handled>>

\* run raises (a decision may be anything, one it cannot hash too), or dissent_map
\* lists nobody for the decision reached, and the first of nobody is asked for.
RoundRaises(c) ==
  /\ At(c, "run")
  /\ Send(c, Failure)
  /\ UNCHANGED <<hostVars, sessionVars, handled>>

\* Whom a turn is recorded for.
Name(agent) == IF agent = None THEN "consensus" ELSE agent

\* record_turn: the turn, then the context, key by key; nothing keeps another
\* activation out in between.
AppendTurn(c) ==
  /\ At(c, "append")
  /\ turns' = Append(turns, [agent |-> Name(call[c].agent), round |-> call[c].round])
  /\ call' = [call EXCEPT ![c].pc = "context", ![c].turn = Len(turns) + 1]
  /\ UNCHANGED <<hostVars, dicts, checkpoints, handled>>

\* Mutant of TellAgent: the count is taken for one more turn than there are.
TellAgentCountNext(c) ==
  /\ At(c, "context")
  /\ dicts' = [dicts EXCEPT ![1].last_agent = Name(call[c].agent)]
  /\ call' = [call EXCEPT ![c].pc = "count", ![c].length = Len(turns) + 1]
  /\ UNCHANGED <<hostVars, turns, checkpoints, handled>>

\* context["last_agent"] = ..., and len(self.turns) is read.
TellAgent(c) ==
  /\ At(c, "context")
  /\ dicts' = [dicts EXCEPT ![1].last_agent = Name(call[c].agent)]
  /\ call' = [call EXCEPT ![c].pc = "count", ![c].length = Len(turns)]
  /\ UNCHANGED <<hostVars, turns, checkpoints, handled>>

TellCount(c) ==
  /\ At(c, "count")
  /\ dicts' = [dicts EXCEPT ![1].turn_count = call[c].length]
  /\ call' = [call EXCEPT ![c].pc = "adapt", ![c].ok = TRUE]
  /\ UNCHANGED <<hostVars, turns, checkpoints, handled>>

-----------------------------------------------------------------------------
\* ResponseAdapter.adapt: an unknown platform speaks pact.
AdapterFor(p) == IF p \in adapters THEN p ELSE "pact"

\* What every format tells of a response: its status and, of a success, its agent.
Envelope(c) ==
  [kind |-> IF call[c].ok THEN "success" ELSE "status", agent |-> call[c].agent]

\* Dialogflow and Rasa read a successful result, and fail on one that is no dict; an
\* adapter of the host's own may fail on anything.  (None as a platform is PACTBridge's.)
MayFail(c) ==
  LET a == AdapterFor(call[c].platform) IN
  \/ a \in {"dialogflow", "rasa"} /\ call[c].ok /\ call[c].result = "not_dict"
  \/ a \in OwnPlatforms

MustFail(c) == MayFail(c) /\ AdapterFor(call[c].platform) \in BuiltIn

Adapt(c) ==
  /\ At(c, "adapt") /\ ~MustFail(c)
  /\ Send(c, Envelope(c))
  /\ UNCHANGED <<hostVars, sessionVars, handled>>

\* The adapter raises: its error_response is the answer.
AdaptFails(c) ==
  /\ At(c, "adapt") /\ MayFail(c)
  /\ Send(c, Failure)
  /\ UNCHANGED <<hostVars, sessionVars, handled>>

\* The caller of handle has the answer.
Return(c) ==
  /\ At(c, "sent")
  /\ call' = [call EXCEPT ![c] = Idle]
  /\ UNCHANGED <<hostVars, sessionVars, handled>>

-----------------------------------------------------------------------------
\* The host, at any time: register_handler, ResponseAdapter.register, checkpoint.
RegisterHandler(agent) ==
  /\ agent \notin handlers
  /\ handlers' = handlers \cup {agent}
  /\ UNCHANGED <<protocol, adapters, sessionVars, call, handled>>

RegisterAdapter(p) ==
  /\ p \notin adapters
  /\ adapters' = adapters \cup {p}
  /\ UNCHANGED <<protocol, handlers, sessionVars, call, handled>>

\* checkpoint(label): the manager is given a copy, dict(self.context).
Checkpoint ==
  /\ Len(checkpoints) < MaxSaved
  /\ dicts' = Append(dicts, dicts[1])
  /\ checkpoints' = Append(checkpoints, Len(dicts) + 1)
  /\ UNCHANGED <<hostVars, turns, call, handled>>

\* What an activation does by itself, and what its agents do.
Advance(c) ==
  \/ CallHandler(c) \/ Post(c) \/ Stub(c)
  \/ SilencePasses(c) \/ Timeout(c)
  \/ ReachRound(c) \/ FailRound(c) \/ RoundRaises(c)
  \/ AppendTurn(c) \/ TellAgent(c) \/ TellCount(c)
  \/ Adapt(c) \/ AdaptFails(c) \/ Return(c)

Agent(c) == BytesArrive(c) \/ \E r \in Results : HandlerReturns(c, r) \/ HttpReturns(c, r)

Host ==
  \/ \E agent \in Hosted : RegisterHandler(agent)
  \/ \E p \in OwnPlatforms : RegisterAdapter(p)
  \/ Checkpoint

AnswersNext ==
  \/ \E c \in Calls :
       Advance(c) \/ Agent(c) \/ \E r \in Routings, p \in Platforms : Receive(c, r, p)
  \/ Host

\* An activation runs on; agents, endpoints and the host owe nothing.
AnswersSpec ==
  AnswersInit /\ [][AnswersNext]_vars /\ \A c \in Calls : WF_vars(Advance(c))

-----------------------------------------------------------------------------
AnswersTypeOK ==
  /\ handlers \subseteq Agents
  /\ adapters \subseteq BuiltIn \cup OwnPlatforms
  /\ \A t \in DOMAIN turns :
       /\ turns[t].agent \in Agents \cup {"consensus"}
       /\ turns[t].round = None => turns[t].agent \in Agents
       /\ turns[t].round # None => turns[t].round \in 0..(t - 1)
  /\ \A k \in DOMAIN checkpoints : checkpoints[k] \in DOMAIN dicts
  /\ \A c \in Calls :
       /\ call[c].turn \in 0..Len(turns)
       /\ \A k \in DOMAIN call[c].votes :
            call[c].votes[k].agent \in Agents /\ call[c].votes[k].decision \in Decisions
       /\ At(c, "run") => Len(call[c].votes) = Len(call[c].routing.candidates)
       /\ At(c, "adapt") /\ call[c].ok => call[c].turn # 0
  /\ handled \in 0..MaxHandled

\* What the sender is told and what the session remembers agree, whatever becomes of
\* the agents: an answer that reads success names the agent of its message's turn,
\* one that reads another status has none; and where the result is passed through,
\* every turn is told.  (Elsewhere adapt may fail after the turn is recorded.)
WireTellsOfTurn ==
  \A c \in Calls : At(c, "sent") =>
    LET answer == call[c].sent
        t == call[c].turn
    IN  /\ answer.kind = "success" => t # 0 /\ turns[t].agent = Name(answer.agent)
        /\ answer.kind = "status" => t = 0
        /\ call[c].platform \in {"pact", "custom"} => (answer.kind = "success" <=> t # 0)

\* round_id counts the turns of the session: once a round's decision is a turn, no
\* round carries its id again, however the activations interleave.  (Failed rounds,
\* and rounds that overlap, do share an id.)
NoRoundAfterItsTurn ==
  [][\A c \in Calls : ReachRound(c) =>
       \A t \in DOMAIN turns : turns[t].round # call'[c].round]_vars

\* The context handlers, endpoints and handoffs are given is never ahead of the
\* session: it counts no turn and names no agent that is not recorded yet, though
\* record_turn writes the turn and the context in separate steps.
ContextIsNeverAhead ==
  \A d \in DOMAIN dicts :
    /\ dicts[d].turn_count <= Len(turns)
    /\ dicts[d].last_agent \in {None} \cup {turns[t].agent : t \in DOMAIN turns}

\* A message is answered, unless an in-process handler keeps it for ever or an
\* endpoint goes on sending: _call_http's timeout is the only one there is.
AnsweredOrHeld ==
  \A c \in Calls :
    \/ []<>At(c, "idle")
    \/ <>[]At(c, "handler")
    \/ <>[]At(c, "http") /\ []<><<BytesArrive(c)>>_vars
=============================================================================
