--------------------------- MODULE AgentAnswersProofs ---------------------------
(***************************************************************************)
(* AgentAnswers for any number of activations, agents, platforms and       *)
(* votes: whatever agents answer and however the activations interleave,   *)
(* the wire, the session's turns and its context agree.                    *)
(***************************************************************************)
EXTENDS AgentAnswers, SequenceTheorems, TLAPS

Locations ==
  {"idle", "dispatch", "handler", "http", "run", "append", "context", "count", "adapt",
   "sent"}

AVote == [agent : Agents, decision : Decisions]
ATurn == [agent : Agents \cup {"consensus"}, round : Nat \cup {None}]
AContext == [last_agent : Agents \cup {"consensus", None}, turn_count : Nat]
AnAnswer == [kind : {"success", "status", "error"}, agent : Agents \cup {None}]

Activation ==
  [pc : Locations, routing : Routings \cup {None}, platform : Platforms \cup {None},
   silent : BOOLEAN, votes : Seq(AVote), agent : Agents \cup {None},
   result : {"dict", "bad_confidence", "not_dict", None}, round : Nat \cup {None},
   turn : Nat, length : Nat, ok : BOOLEAN, sent : AnAnswer \cup {None}]

\* The turn of an activation is in ts, for the agent it will be told of.
Entered(k, ts) == k.turn \in 1..Len(ts) /\ ts[k.turn].agent = Name(k.agent)

\* How far an activation k is, in a session with the turns ts.
Progress(k, ts) ==
  /\ k.pc # "idle" => k.routing \in Routings /\ k.platform \in Platforms
  /\ k.pc \in {"dispatch", "handler", "http"} => Len(k.votes) < Len(k.routing.candidates)
  /\ k.pc = "run" => Len(k.votes) = Len(k.routing.candidates)
  /\ k.pc \in {"idle", "dispatch", "handler", "http", "run", "append"} => k.turn = 0 /\ ~k.ok
  /\ k.round # None => k.round <= Len(ts)
  /\ k.pc = "append" /\ k.round = None => k.agent \in Agents
  /\ k.pc \in {"context", "count"} => Entered(k, ts)
  /\ k.pc = "count" => k.length <= Len(ts)
  /\ k.pc = "adapt" => IF k.ok THEN Entered(k, ts) ELSE k.turn = 0
  /\ k.pc = "sent" =>
       /\ k.sent \in AnAnswer
       /\ k.turn \in 0..Len(ts)
       /\ k.sent.kind = "success" => k.turn # 0 /\ ts[k.turn].agent = Name(k.sent.agent)
       /\ k.sent.kind = "status" => k.turn = 0
       /\ k.platform \in {"pact", "custom"} => (k.sent.kind = "success" <=> k.turn # 0)

\* A turn of a round carries a number that was the session's before it.
GoodTurn(t) ==
  /\ turns[t].round = None => turns[t].agent \in Agents
  /\ turns[t].round # None => turns[t].round <= t - 1

GoodContext(d) ==
  /\ dicts[d].turn_count <= Len(turns)
  /\ dicts[d].last_agent # None => \E t \in 1..Len(turns) : turns[t].agent = dicts[d].last_agent

\* The inductive invariant: a checkpoint is never the context itself.
AnswersInv ==
  /\ handlers \subseteq Agents
  /\ BuiltIn \subseteq adapters /\ adapters \subseteq BuiltIn \cup OwnPlatforms
  /\ turns \in Seq(ATurn) /\ dicts \in Seq(AContext) /\ Len(dicts) >= 1
  /\ checkpoints \in Seq(Nat)
  /\ \A k \in 1..Len(checkpoints) : checkpoints[k] \in 2..Len(dicts)
  /\ \A t \in 1..Len(turns) : GoodTurn(t)
  /\ \A d \in 1..Len(dicts) : GoodContext(d)
  /\ call \in [Calls -> Activation]
  /\ \A c \in Calls : Progress(call[c], turns)
  /\ handled \in 0..MaxHandled

-----------------------------------------------------------------------------
\* A turn entered by one activation leaves the others where they were.
LEMMA TurnsOnlyGrow ==
  ASSUME NEW k \in Activation, NEW ts \in Seq(ATurn), NEW t \in ATurn, Progress(k, ts)
  PROVE  Progress(k, Append(ts, t))
<1>1. /\ Len(Append(ts, t)) = Len(ts) + 1 /\ Len(ts) \in Nat
      /\ \A i \in 1..Len(ts) : Append(ts, t)[i] = ts[i]
  BY AppendProperties, LenProperties
<1> DEFINE more == Append(ts, t)
<1>2. Len(more) = Len(ts) + 1 /\ Len(ts) \in Nat /\ \A i \in 1..Len(ts) : more[i] = ts[i]
  BY <1>1
<1> HIDE DEF more
<1>3. Progress(k, more)
  BY <1>2 DEF Progress, Entered, Activation
<1>4. QED
  BY <1>3 DEF more

\* A step of one activation that leaves the session and the host alone.
LEMMA OneMoves ==
  ASSUME AnswersInv, NEW c \in Calls, NEW k \in Activation, Progress(k, turns),
         call' = [call EXCEPT ![c] = k], UNCHANGED <<hostVars, sessionVars>>,
         handled' \in 0..MaxHandled
  PROVE  AnswersInv'
<1>1. call' \in [Calls -> Activation]
  BY DEF AnswersInv
<1>2. \A d \in Calls : Progress(call'[d], turns)
  BY DEF AnswersInv
<1>3. turns' = turns /\ dicts' = dicts /\ checkpoints' = checkpoints
      /\ handlers' = handlers /\ adapters' = adapters
  BY DEF hostVars, sessionVars
<1>4. QED
  BY <1>1, <1>2, <1>3 DEF AnswersInv, GoodTurn, GoodContext

\* What becomes of a result, whatever the result: a turn to be entered, a vote, or a
\* failure on the wire.
LEMMA AnswerKeepsInv ==
  ASSUME AnswersInv, NEW c \in Calls, NEW r \in Results, Answer(c, r),
         call[c].pc \in {"dispatch", "handler", "http"},
         UNCHANGED <<hostVars, sessionVars, handled>>
  PROVE  AnswersInv'
<1> DEFINE k == call[c]
<1>1. k \in Activation /\ Progress(k, turns)
  BY DEF AnswersInv
<1>2. /\ k.routing \in Routings /\ Len(k.votes) < Len(k.routing.candidates)
      /\ k.votes \in Seq(AVote) /\ k.turn = 0 /\ ~k.ok
  BY <1>1 DEF Progress, Activation
<1>3. Asked(c) \in Agents
  <2>1. k.routing.candidates \in Seq(Agents)
    BY <1>2, AnswersAssumption
  <2>2. Len(k.votes) + 1 \in 1..Len(k.routing.candidates)
    BY <1>2, <2>1, LenProperties
  <2>3. QED
    BY <2>1, <2>2, ElementOfSeq DEF Asked
<1>4. handled' \in 0..MaxHandled
  BY DEF AnswersInv
<1>5. CASE /\ ~k.routing.consensus
           /\ call' = [call EXCEPT ![c].pc = "append", ![c].silent = FALSE,
                                   ![c].agent = Asked(c), ![c].result = r.kind]
  <2> DEFINE new == [k EXCEPT !.pc = "append", !.silent = FALSE,
                              !.agent = Asked(c), !.result = r.kind]
  <2>1. new \in Activation
    BY <1>1, <1>3 DEF Activation, Locations, Results
  <2>2. Progress(new, turns)
    BY <1>1, <1>2, <1>3 DEF Progress, Activation
  <2>3. call' = [call EXCEPT ![c] = new]
    BY <1>1, <1>5 DEF AnswersInv, Activation
  <2> HIDE DEF new
  <2>4. QED
    BY <1>4, <2>1, <2>2, <2>3, OneMoves
<1>6. CASE /\ k.routing.consensus /\ r.kind = "dict"
           /\ call' = [call EXCEPT
                ![c].votes = Append(k.votes, [agent |-> Asked(c), decision |-> Voted(r)]),
                ![c].silent = FALSE,
                ![c].pc =
                  IF Len(Append(k.votes, [agent |-> Asked(c), decision |-> Voted(r)]))
                       = Len(k.routing.candidates) THEN "run" ELSE "dispatch"]
  <2> DEFINE vote == [agent |-> Asked(c), decision |-> Voted(r)]
             votes == Append(k.votes, vote)
             new == [k EXCEPT !.votes = votes, !.silent = FALSE, !.pc =
                       IF Len(votes) = Len(k.routing.candidates) THEN "run" ELSE "dispatch"]
  <2>1. vote \in AVote
    BY <1>3, AnswersAssumption DEF AVote, Voted, Results
  <2>2. votes \in Seq(AVote) /\ Len(votes) = Len(k.votes) + 1
    BY <1>2, <2>1, AppendProperties
  <2>3. Len(k.votes) \in Nat /\ Len(k.routing.candidates) \in Nat
    BY <1>2, AnswersAssumption, LenProperties
  <2>4. call' = [call EXCEPT ![c] = new]
    BY <1>1, <1>6 DEF AnswersInv, Activation
  <2> HIDE DEF votes
  <2>5. new \in Activation
    BY <1>1, <2>2 DEF Activation, Locations
  <2>6. Progress(new, turns)
    BY <1>1, <1>2, <2>2, <2>3 DEF Progress, Activation
  <2> HIDE DEF new
  <2>7. QED
    BY <1>4, <2>4, <2>5, <2>6, OneMoves
<1>7. CASE k.routing.consensus /\ r.kind # "dict" /\ Send(c, Failure)
  <2> DEFINE new == [k EXCEPT !.pc = "sent", !.votes = <<>>, !.sent = Failure]
  <2>1. new \in Activation
    BY <1>1, EmptySeq DEF Activation, Locations, AnAnswer, Failure
  <2>2. Progress(new, turns)
    <3>1. Len(turns) \in Nat
      BY LenProperties DEF AnswersInv
    <3>2. QED
      BY <1>1, <1>2, <3>1 DEF Progress, Activation, Failure, AnAnswer
  <2>3. call' = [call EXCEPT ![c] = new]
    BY <1>1, <1>7 DEF AnswersInv, Activation, Send
  <2> HIDE DEF new
  <2>4. QED
    BY <1>4, <2>1, <2>2, <2>3, OneMoves
<1>8. QED
  BY <1>5, <1>6, <1>7 DEF Answer

-----------------------------------------------------------------------------
\* The steps of an activation that leave the session alone.
LEMMA MoveKeepsInv ==
  ASSUME AnswersInv, NEW c \in Calls,
         \/ \E r \in Routings, p \in Platforms : Receive(c, r, p)
         \/ CallHandler(c) \/ Post(c) \/ SilencePasses(c) \/ BytesArrive(c)
         \/ ReachRound(c) \/ FailRound(c) \/ RoundRaises(c)
         \/ Adapt(c) \/ AdaptFails(c) \/ Return(c)
  PROVE  AnswersInv'
<1> DEFINE k == call[c]
<1>1. k \in Activation /\ Progress(k, turns) /\ call \in [Calls -> Activation]
  BY DEF AnswersInv
<1>2. Len(turns) \in Nat
  BY LenProperties DEF AnswersInv
<1>3. handled \in 0..MaxHandled /\ MaxHandled \in Nat
  BY AnswersAssumption DEF AnswersInv
<1>4. Idle \in Activation /\ Progress(Idle, turns) /\ None \notin Nat
  BY EmptySeq, AnswersAssumption DEF Idle, Activation, Locations, Progress
<1>5. ASSUME NEW r \in Routings, NEW p \in Platforms, Receive(c, r, p)
      PROVE  AnswersInv'
  <2> DEFINE new == [Idle EXCEPT !.routing = r, !.platform = p,
                       !.pc = IF r.consensus /\ ~protocol THEN "adapt" ELSE "dispatch"]
  <2>1. Len(r.candidates) \in Nat /\ Len(r.candidates) > 0
    BY AnswersAssumption, EmptySeq, LenProperties
  <2>2. new \in Activation
    BY <1>4 DEF Activation, Locations, Idle
  <2>3. Progress(new, turns)
    BY <1>4, <2>1, EmptySeq DEF Progress, Idle
  <2>4. handled' \in 0..MaxHandled
    <3>1. handled < MaxHandled /\ handled' = handled + 1
      BY <1>5 DEF Receive
    <3>2. QED
      BY <1>3, <3>1
  <2>5. call' = [call EXCEPT ![c] = new] /\ UNCHANGED <<hostVars, sessionVars>>
    BY <1>5 DEF Receive
  <2> HIDE DEF new
  <2>6. QED
    BY <2>2, <2>3, <2>4, <2>5, OneMoves
<1>6. CASE CallHandler(c)
  <2> DEFINE new == [k EXCEPT !.pc = "handler"]
  <2>1. new \in Activation /\ Progress(new, turns)
    BY <1>1, <1>6 DEF Activation, Locations, Progress, CallHandler, At
  <2>2. call' = [call EXCEPT ![c] = new]
    BY <1>1, <1>6 DEF CallHandler, Goto, Activation
  <2> HIDE DEF new
  <2>3. QED
    BY <1>3, <1>6, <2>1, <2>2, OneMoves DEF CallHandler
<1>7. CASE Post(c)
  <2> DEFINE new == [k EXCEPT !.pc = "http", !.silent = FALSE]
  <2>1. new \in Activation /\ Progress(new, turns)
    BY <1>1, <1>7 DEF Activation, Locations, Progress, Post, At
  <2>2. call' = [call EXCEPT ![c] = new]
    BY <1>1, <1>7 DEF Post, Activation
  <2> HIDE DEF new
  <2>3. QED
    BY <1>3, <1>7, <2>1, <2>2, OneMoves DEF Post
<1>8. ASSUME NEW b \in BOOLEAN, call' = [call EXCEPT ![c].silent = b],
             UNCHANGED <<hostVars, sessionVars, handled>>
      PROVE  AnswersInv'
  <2> DEFINE new == [k EXCEPT !.silent = b]
  <2>1. new \in Activation
    BY <1>1 DEF Activation
  <2>2. Progress(new, turns)
    BY <1>1 DEF Activation, Progress, Entered
  <2>3. call' = [call EXCEPT ![c] = new]
    BY <1>1, <1>8 DEF Activation
  <2> HIDE DEF new
  <2>4. QED
    BY <1>3, <1>8, <2>1, <2>2, <2>3, OneMoves
<1>9. CASE ReachRound(c)
  <2>0. PICK n \in DOMAIN k.votes : \E agent \in {k.votes[n].agent, None} :
          call' = [call EXCEPT ![c].pc = "append", ![c].votes = <<>>, ![c].agent = agent,
                               ![c].round = RoundId, ![c].result = "dict"]
    BY <1>9 DEF ReachRound, FirstVotes
  <2>1. PICK agent \in {k.votes[n].agent, None} :
          call' = [call EXCEPT ![c].pc = "append", ![c].votes = <<>>, ![c].agent = agent,
                               ![c].round = RoundId, ![c].result = "dict"]
    BY <2>0
  <2> DEFINE new == [k EXCEPT !.pc = "append", !.votes = <<>>, !.agent = agent,
                              !.round = RoundId, !.result = "dict"]
  <2>2. agent \in Agents \cup {None}
    <3>1. k.votes \in Seq(AVote)
      BY <1>1 DEF Activation
    <3>2. k.votes[n] \in AVote
      BY <3>1, ElementOfSeq, LenProperties
    <3>3. QED
      BY <2>1, <3>2 DEF AVote
  <2>3. new \in Activation
    BY <1>1, <1>2, <2>2, EmptySeq DEF Activation, Locations, RoundId
  <2>4. Progress(new, turns)
    <3>1. k.turn = 0 /\ ~k.ok /\ k.routing \in Routings /\ k.platform \in Platforms
      BY <1>1, <1>9 DEF Progress, ReachRound, At
    <3>2. /\ new.pc = "append" /\ new.turn = 0 /\ ~new.ok
          /\ new.routing \in Routings /\ new.platform \in Platforms
          /\ new.round = Len(turns)
      BY <1>1, <3>1 DEF Activation, RoundId
    <3> HIDE DEF new
    <3>3. QED
      BY <1>2, <1>4, <3>2 DEF Progress
  <2>5. call' = [call EXCEPT ![c] = new]
    BY <1>1, <2>1 DEF Activation
  <2> HIDE DEF new
  <2>6. QED
    BY <1>3, <1>9, <2>3, <2>4, <2>5, OneMoves DEF ReachRound
<1>10. CASE FailRound(c)
  <2> DEFINE new == [k EXCEPT !.pc = "adapt", !.votes = <<>>]
  <2>1. new \in Activation /\ Progress(new, turns)
    BY <1>1, <1>10, EmptySeq DEF Activation, Locations, Progress, FailRound, At
  <2>2. call' = [call EXCEPT ![c] = new]
    BY <1>1, <1>10 DEF FailRound, Activation
  <2> HIDE DEF new
  <2>3. QED
    BY <1>3, <1>10, <2>1, <2>2, OneMoves DEF FailRound
<1>11. CASE Adapt(c)
  <2> DEFINE new == [k EXCEPT !.pc = "sent", !.votes = <<>>, !.sent = Envelope(c)]
  <2>1. Envelope(c) \in AnAnswer /\ Envelope(c).agent = k.agent
        /\ Envelope(c).kind = IF k.ok THEN "success" ELSE "status"
    BY <1>1 DEF Envelope, AnAnswer, Activation
  <2>2. new \in Activation
    BY <1>1, <2>1, EmptySeq DEF Activation, Locations
  <2>3. Progress(new, turns)
    BY <1>1, <1>2, <1>11, <2>1 DEF Progress, Entered, Activation, Adapt, At
  <2>4. call' = [call EXCEPT ![c] = new]
    BY <1>1, <1>11 DEF Adapt, Send, Activation
  <2> HIDE DEF new
  <2>5. QED
    BY <1>3, <1>11, <2>2, <2>3, <2>4, OneMoves DEF Adapt
<1>12. CASE AdaptFails(c)
  <2> DEFINE new == [k EXCEPT !.pc = "sent", !.votes = <<>>, !.sent = Failure]
  <2>1. Failure \in AnAnswer /\ Failure.kind = "error"
    BY DEF Failure, AnAnswer
  <2>2. k.platform \notin {"pact", "custom"}
    BY <1>12, AnswersAssumption
       DEF AdaptFails, MayFail, AdapterFor, AnswersInv, BuiltIn
  <2>3. new \in Activation
    BY <1>1, <2>1, EmptySeq DEF Activation, Locations
  <2>4. Progress(new, turns)
    BY <1>1, <1>2, <1>12, <2>1, <2>2 DEF Progress, Entered, Activation, AdaptFails, At
  <2>5. call' = [call EXCEPT ![c] = new]
    BY <1>1, <1>12 DEF AdaptFails, Send, Activation
  <2> HIDE DEF new
  <2>6. QED
    BY <1>3, <1>12, <2>3, <2>4, <2>5, OneMoves DEF AdaptFails
<1>13. CASE Return(c)
  BY <1>3, <1>4, <1>13, OneMoves DEF Return
<1>14. CASE RoundRaises(c)
  <2> DEFINE new == [k EXCEPT !.pc = "sent", !.votes = <<>>, !.sent = Failure]
  <2>1. Failure \in AnAnswer /\ Failure.kind = "error"
    BY DEF Failure, AnAnswer
  <2>2. new \in Activation
    BY <1>1, <2>1, EmptySeq DEF Activation, Locations
  <2>3. Progress(new, turns)
    BY <1>1, <1>2, <1>14, <2>1 DEF Progress, Activation, RoundRaises, At
  <2>4. call' = [call EXCEPT ![c] = new]
    BY <1>1, <1>14 DEF RoundRaises, Send, Activation
  <2> HIDE DEF new
  <2>5. QED
    BY <1>3, <1>14, <2>2, <2>3, <2>4, OneMoves DEF RoundRaises
<1>15. QED
  BY <1>5, <1>6, <1>7, <1>8, <1>9, <1>10, <1>11, <1>12, <1>13, <1>14
     DEF SilencePasses, BytesArrive

-----------------------------------------------------------------------------
\* record_turn, first step: the turn.
LEMMA AppendKeepsInv ==
  ASSUME AnswersInv, NEW c \in Calls, AppendTurn(c)
  PROVE  AnswersInv'
<1> DEFINE k == call[c]
           turn == [agent |-> Name(k.agent), round |-> k.round]
           new == [k EXCEPT !.pc = "context", !.turn = Len(turns) + 1]
<1>1. k \in Activation /\ Progress(k, turns) /\ call \in [Calls -> Activation]
      /\ k.pc = "append" /\ turns \in Seq(ATurn) /\ Len(turns) \in Nat
  BY LenProperties DEF AnswersInv, AppendTurn, At
<1>2. turn \in ATurn /\ turn.agent = Name(k.agent) /\ turn.round = k.round
  BY <1>1 DEF ATurn, Activation, Name
<1> HIDE DEF turn
<1>3. turns' = Append(turns, turn) /\ call' = [call EXCEPT ![c] = new]
      /\ UNCHANGED <<hostVars, dicts, checkpoints, handled>>
  BY <1>1 DEF AppendTurn, turn, Activation
<1>4. /\ turns' \in Seq(ATurn) /\ Len(turns') = Len(turns) + 1
      /\ \A t \in 1..Len(turns) : turns'[t] = turns[t]
      /\ turns'[Len(turns) + 1] = turn
  BY <1>1, <1>2, <1>3, AppendProperties
<1>5. call' \in [Calls -> Activation] /\ call'[c] = new
  <2>1. Len(turns) + 1 \in Nat
    BY <1>1
  <2>2. new \in Activation
    BY <1>1, <2>1 DEF Activation, Locations
  <2> HIDE DEF new
  <2>3. QED
    BY <1>1, <1>3, <2>2
<1>6. ASSUME NEW d \in Calls
      PROVE  Progress(call'[d], turns')
  <2>1. CASE d # c
    <3>1. call'[d] = call[d] /\ call[d] \in Activation /\ Progress(call[d], turns)
      BY <1>1, <1>3, <2>1 DEF AnswersInv
    <3>2. QED
      BY <1>1, <1>2, <1>3, <3>1, TurnsOnlyGrow
  <2>2. CASE d = c
    <3>1. /\ new.pc = "context" /\ new.turn = Len(turns) + 1 /\ new.agent = k.agent
          /\ new.round = k.round /\ new.routing \in Routings /\ new.platform \in Platforms
      BY <1>1 DEF Activation, Progress
    <3>2. new.round # None => new.round <= Len(turns')
      BY <1>1, <1>4, <3>1 DEF Progress, Activation
    <3>3. Entered(new, turns')
      BY <1>1, <1>2, <1>4, <3>1 DEF Entered
    <3> HIDE DEF new
    <3>4. QED
      BY <1>5, <2>2, <3>1, <3>2, <3>3 DEF Progress
  <2>3. QED
    BY <2>1, <2>2
<1>7. ASSUME NEW t \in 1..Len(turns')
      PROVE  GoodTurn(t)'
  <2>1. CASE t \in 1..Len(turns)
    BY <1>4, <2>1 DEF AnswersInv, GoodTurn
  <2>2. CASE t = Len(turns) + 1
    <3>1. turns'[t].round = None => turns'[t].agent \in Agents
      BY <1>1, <1>2, <1>4, <2>2, AnswersAssumption DEF Progress, Name
    <3>2. turns'[t].round # None => turns'[t].round <= t - 1
      BY <1>1, <1>2, <1>4, <2>2 DEF Progress, Activation
    <3>3. QED
      BY <3>1, <3>2 DEF GoodTurn
  <2>3. QED
    BY <1>1, <1>4, <2>1, <2>2
<1>8. \A d \in 1..Len(dicts) : GoodContext(d)'
  <2>1. dicts \in Seq(AContext) /\ dicts' = dicts
    BY <1>3 DEF AnswersInv
  <2>2. ASSUME NEW d \in 1..Len(dicts)
        PROVE  GoodContext(d)'
    <3>1. dicts[d] \in AContext /\ GoodContext(d)
      BY <2>1, ElementOfSeq DEF AnswersInv
    <3>2. dicts[d].turn_count <= Len(turns')
      BY <1>1, <1>4, <3>1 DEF GoodContext, AContext
    <3>3. ASSUME dicts[d].last_agent # None
          PROVE  \E t \in 1..Len(turns') : turns'[t].agent = dicts[d].last_agent
      <4>1. PICK t \in 1..Len(turns) : turns[t].agent = dicts[d].last_agent
        BY <3>1, <3>3 DEF GoodContext
      <4>2. t \in 1..Len(turns') /\ turns'[t].agent = dicts[d].last_agent
        BY <1>1, <1>4, <4>1
      <4>3. QED
        BY <4>2
    <3>4. QED
      BY <2>1, <3>2, <3>3 DEF GoodContext
  <2>3. QED
    BY <2>2
<1>9. QED
  BY <1>3, <1>4, <1>5, <1>6, <1>7, <1>8 DEF AnswersInv, hostVars

\* record_turn, second and third step: the context is told what turn it is in, and
\* then how many turns there were.
LEMMA TellKeepsInv ==
  ASSUME AnswersInv, NEW c \in Calls, TellAgent(c) \/ TellCount(c)
  PROVE  AnswersInv'
<1> DEFINE k == call[c]
<1>1. /\ k \in Activation /\ Progress(k, turns) /\ call \in [Calls -> Activation]
      /\ turns \in Seq(ATurn) /\ Len(turns) \in Nat
      /\ dicts \in Seq(AContext) /\ 1 \in 1..Len(dicts) /\ dicts[1] \in AContext
      /\ GoodContext(1)
  BY LenProperties, ElementOfSeq DEF AnswersInv
<1>2. k.pc \in {"context", "count"} /\ Entered(k, turns)
  BY <1>1 DEF TellAgent, TellCount, At, Progress
<1>3. ASSUME NEW context \in AContext, NEW new \in Activation,
             dicts' = [dicts EXCEPT ![1] = context], call' = [call EXCEPT ![c] = new],
             UNCHANGED <<hostVars, turns, checkpoints, handled>>,
             context.turn_count <= Len(turns),
             context.last_agent # None =>
               \E t \in 1..Len(turns) : turns[t].agent = context.last_agent,
             Progress(new, turns)
      PROVE  AnswersInv'
  <2>1. /\ dicts' \in Seq(AContext) /\ Len(dicts') = Len(dicts) /\ dicts'[1] = context
        /\ \A d \in 1..Len(dicts) : d # 1 => dicts'[d] = dicts[d]
    BY <1>1, <1>3, ExceptSeq
  <2>2. call' \in [Calls -> Activation] /\ \A d \in Calls : Progress(call'[d], turns)
    BY <1>1, <1>3 DEF AnswersInv
  <2>3. \A d \in 1..Len(dicts) : GoodContext(d)'
    BY <1>3, <2>1 DEF AnswersInv, GoodContext
  <2>4. QED
    BY <1>3, <2>1, <2>2, <2>3 DEF AnswersInv, GoodTurn, hostVars
<1>4. CASE TellAgent(c)
  <2> DEFINE context == [dicts[1] EXCEPT !.last_agent = Name(k.agent)]
             new == [k EXCEPT !.pc = "count", !.length = Len(turns)]
  <2>1. context \in AContext /\ context.turn_count <= Len(turns)
        /\ context.last_agent = Name(k.agent)
    BY <1>1 DEF AContext, Name, Activation, GoodContext
  <2>2. \E t \in 1..Len(turns) : turns[t].agent = Name(k.agent)
    BY <1>2 DEF Entered
  <2>3. new \in Activation
    BY <1>1 DEF Activation, Locations
  <2>4. Progress(new, turns)
    <3>1. /\ new.pc = "count" /\ new.length = Len(turns) /\ new.turn = k.turn
          /\ new.agent = k.agent /\ new.round = k.round
          /\ new.routing \in Routings /\ new.platform \in Platforms
      BY <1>1, <1>2 DEF Activation, Progress
    <3> HIDE DEF new
    <3>2. QED
      BY <1>1, <1>2, <3>1 DEF Progress, Entered
  <2>5. dicts' = [dicts EXCEPT ![1] = context] /\ call' = [call EXCEPT ![c] = new]
        /\ UNCHANGED <<hostVars, turns, checkpoints, handled>>
    BY <1>1, <1>4 DEF TellAgent, Activation, AContext
  <2> HIDE DEF context, new
  <2>6. QED
    BY <1>3, <2>1, <2>2, <2>3, <2>4, <2>5
<1>5. CASE TellCount(c)
  <2> DEFINE context == [dicts[1] EXCEPT !.turn_count = k.length]
             new == [k EXCEPT !.pc = "adapt", !.ok = TRUE]
  <2>1. context \in AContext /\ context.turn_count <= Len(turns)
        /\ context.last_agent = dicts[1].last_agent
    BY <1>1, <1>5 DEF AContext, Activation, Progress, TellCount, At
  <2>2. context.last_agent # None =>
          \E t \in 1..Len(turns) : turns[t].agent = context.last_agent
    BY <1>1, <2>1 DEF GoodContext
  <2>3. new \in Activation
    BY <1>1 DEF Activation, Locations
  <2>4. Progress(new, turns)
    <3>1. /\ new.pc = "adapt" /\ new.ok /\ new.turn = k.turn
          /\ new.agent = k.agent /\ new.round = k.round
          /\ new.routing \in Routings /\ new.platform \in Platforms
      BY <1>1, <1>2 DEF Activation, Progress
    <3> HIDE DEF new
    <3>2. QED
      BY <1>1, <1>2, <3>1 DEF Progress, Entered
  <2>5. dicts' = [dicts EXCEPT ![1] = context] /\ call' = [call EXCEPT ![c] = new]
        /\ UNCHANGED <<hostVars, turns, checkpoints, handled>>
    BY <1>1, <1>5 DEF TellCount, Activation, AContext
  <2> HIDE DEF context, new
  <2>6. QED
    BY <1>3, <2>1, <2>2, <2>3, <2>4, <2>5
<1>6. QED
  BY <1>4, <1>5

\* The host registers a handler or an adapter, or takes a checkpoint: a new dict.
LEMMA HostKeepsInv ==
  ASSUME AnswersInv, Host
  PROVE  AnswersInv'
<1>1. CASE \/ \E agent \in Hosted : RegisterHandler(agent)
           \/ \E p \in OwnPlatforms : RegisterAdapter(p)
  <2>1. /\ handlers' \subseteq Agents
        /\ BuiltIn \subseteq adapters' /\ adapters' \subseteq BuiltIn \cup OwnPlatforms
        /\ UNCHANGED <<turns, dicts, checkpoints, call, handled>>
    BY <1>1, AnswersAssumption
       DEF AnswersInv, RegisterHandler, RegisterAdapter, sessionVars
  <2>2. QED
    BY <2>1 DEF AnswersInv, GoodTurn, GoodContext
<1>2. CASE Checkpoint
  <2>1. /\ dicts \in Seq(AContext) /\ Len(dicts) \in Nat /\ 1 \in 1..Len(dicts)
        /\ checkpoints \in Seq(Nat) /\ Len(checkpoints) \in Nat
    BY LenProperties DEF AnswersInv
  <2>2. dicts[1] \in AContext
    BY <2>1, ElementOfSeq
  <2>3. /\ dicts' = Append(dicts, dicts[1])
        /\ checkpoints' = Append(checkpoints, Len(dicts) + 1)
        /\ UNCHANGED <<hostVars, turns, call, handled>>
    BY <1>2 DEF Checkpoint
  <2>4. /\ dicts' \in Seq(AContext) /\ Len(dicts') = Len(dicts) + 1
        /\ \A d \in 1..Len(dicts) : dicts'[d] = dicts[d]
        /\ dicts'[Len(dicts) + 1] = dicts[1]
    BY <2>1, <2>2, <2>3, AppendProperties
  <2>5. /\ checkpoints' \in Seq(Nat) /\ Len(checkpoints') = Len(checkpoints) + 1
        /\ \A k \in 1..Len(checkpoints) : checkpoints'[k] = checkpoints[k]
        /\ checkpoints'[Len(checkpoints) + 1] = Len(dicts) + 1
    BY <2>1, <2>3, AppendProperties
  <2>6. ASSUME NEW k \in 1..Len(checkpoints')
        PROVE  checkpoints'[k] \in 2..Len(dicts')
    <3>1. CASE k \in 1..Len(checkpoints)
      <4>1. checkpoints[k] \in 2..Len(dicts)
        BY <3>1 DEF AnswersInv
      <4>2. QED
        BY <2>1, <2>4, <2>5, <3>1, <4>1
    <3>2. CASE k = Len(checkpoints) + 1
      BY <2>1, <2>4, <2>5, <3>2
    <3>3. QED
      BY <2>1, <2>5, <3>1, <3>2
  <2>7. \A d \in 1..Len(dicts') : GoodContext(d)'
    BY <2>1, <2>3, <2>4 DEF AnswersInv, GoodContext
  <2>8. Len(dicts') >= 1
    BY <2>1, <2>4
  <2>9. \A t \in 1..Len(turns') : GoodTurn(t)'
    BY <2>3 DEF AnswersInv, GoodTurn
  <2>10. QED
    BY <2>3, <2>4, <2>5, <2>6, <2>7, <2>8, <2>9 DEF AnswersInv, hostVars
<1>3. QED
  BY <1>1, <1>2 DEF Host

LEMMA InvInit == AnswersInit => AnswersInv
<1> SUFFICES ASSUME AnswersInit PROVE AnswersInv
  OBVIOUS
<1>1. Idle \in Activation /\ Progress(Idle, <<>>)
  BY EmptySeq DEF Idle, Activation, Locations, Progress
<1>2. EmptyContext \in AContext
  BY DEF EmptyContext, AContext
<1>3. dicts \in Seq(AContext) /\ Len(dicts) = 1 /\ dicts[1] = EmptyContext
  BY <1>2 DEF AnswersInit
<1>4. turns \in Seq(ATurn) /\ Len(turns) = 0 /\ checkpoints \in Seq(Nat) /\ Len(checkpoints) = 0
  BY EmptySeq DEF AnswersInit
<1>5. \A d \in 1..Len(dicts) : GoodContext(d)
  BY <1>3, <1>4 DEF GoodContext, EmptyContext
<1>6. QED
  BY <1>1, <1>3, <1>4, <1>5, AnswersAssumption DEF AnswersInit, AnswersInv

LEMMA InvStep == AnswersInv /\ [AnswersNext]_vars => AnswersInv'
<1> SUFFICES ASSUME AnswersInv, [AnswersNext]_vars
             PROVE  AnswersInv'
  OBVIOUS
<1>1. ASSUME NEW c \in Calls, Advance(c)
      PROVE  AnswersInv'
  <2>1. CASE Stub(c) \/ Timeout(c)
    <3>1. Silent \in Results
      BY DEF Silent, Results
    <3>2. QED
      BY <2>1, <3>1, AnswerKeepsInv DEF Stub, Timeout, At
  <2>2. CASE \/ CallHandler(c) \/ Post(c) \/ SilencePasses(c)
             \/ ReachRound(c) \/ FailRound(c) \/ RoundRaises(c)
             \/ Adapt(c) \/ AdaptFails(c) \/ Return(c)
    BY <2>2, MoveKeepsInv
  <2>3. CASE AppendTurn(c)
    BY <2>3, AppendKeepsInv
  <2>4. CASE TellAgent(c) \/ TellCount(c)
    BY <2>4, TellKeepsInv
  <2>5. QED
    BY <1>1, <2>1, <2>2, <2>3, <2>4 DEF Advance
<1>2. ASSUME NEW c \in Calls, Agent(c)
      PROVE  AnswersInv'
  <2>1. CASE BytesArrive(c)
    BY <2>1, MoveKeepsInv
  <2>2. ASSUME NEW r \in Results, HandlerReturns(c, r) \/ HttpReturns(c, r)
        PROVE  AnswersInv'
    BY <2>2, AnswerKeepsInv DEF HandlerReturns, HttpReturns, At
  <2>3. QED
    BY <1>2, <2>1, <2>2 DEF Agent
<1>3. ASSUME NEW c \in Calls, NEW r \in Routings, NEW p \in Platforms, Receive(c, r, p)
      PROVE  AnswersInv'
  BY <1>3, MoveKeepsInv
<1>4. CASE Host
  BY <1>4, HostKeepsInv
<1>5. CASE UNCHANGED vars
  BY <1>5 DEF vars, AnswersInv, GoodTurn, GoodContext
<1>6. QED
  BY <1>1, <1>2, <1>3, <1>4, <1>5 DEF AnswersNext

LEMMA AnswersInvHolds == AnswersSpec => []AnswersInv
BY InvInit, InvStep, PTL DEF AnswersSpec

-----------------------------------------------------------------------------
\* Type correctness: a turn without a round is an agent's, and one with a round
\* carries a number of turns the session had before it.
THEOREM AnswersTypeCorrect == AnswersSpec => []AnswersTypeOK
<1>1. ASSUME AnswersInv PROVE AnswersTypeOK
  <2>1. /\ turns \in Seq(ATurn) /\ Len(turns) \in Nat /\ DOMAIN turns = 1..Len(turns)
        /\ dicts \in Seq(AContext) /\ DOMAIN dicts = 1..Len(dicts) /\ Len(dicts) \in Nat
        /\ DOMAIN checkpoints = 1..Len(checkpoints)
    BY <1>1, LenProperties DEF AnswersInv
  <2>2. ASSUME NEW t \in DOMAIN turns
        PROVE  /\ turns[t].agent \in Agents \cup {"consensus"}
               /\ turns[t].round = None => turns[t].agent \in Agents
               /\ turns[t].round # None => turns[t].round \in 0..(t - 1)
    <3>1. turns[t] \in ATurn /\ GoodTurn(t)
      BY <1>1, <2>1, ElementOfSeq DEF AnswersInv
    <3>2. QED
      BY <2>1, <3>1 DEF ATurn, GoodTurn
  <2>3. \A k \in DOMAIN checkpoints : checkpoints[k] \in DOMAIN dicts
    BY <1>1, <2>1 DEF AnswersInv
  <2>4. ASSUME NEW c \in Calls
        PROVE  /\ call[c].turn \in 0..Len(turns)
               /\ \A k \in DOMAIN call[c].votes :
                    call[c].votes[k].agent \in Agents /\ call[c].votes[k].decision \in Decisions
               /\ At(c, "run") => Len(call[c].votes) = Len(call[c].routing.candidates)
               /\ At(c, "adapt") /\ call[c].ok => call[c].turn # 0
    <3>1. call[c] \in Activation /\ Progress(call[c], turns)
      BY <1>1 DEF AnswersInv
    <3>2. call[c].turn \in 0..Len(turns)
      BY <2>1, <3>1 DEF Progress, Entered, Activation, Locations
    <3>3. call[c].votes \in Seq(AVote)
      BY <3>1 DEF Activation
    <3>4. \A k \in DOMAIN call[c].votes : call[c].votes[k] \in AVote
      BY <3>3, ElementOfSeq, LenProperties
    <3>5. QED
      BY <3>1, <3>2, <3>4 DEF AVote, At, Progress, Entered
  <2>5. QED
    BY <1>1, <2>2, <2>3, <2>4 DEF AnswersInv, AnswersTypeOK
<1>2. QED
  BY <1>1, AnswersInvHolds, PTL

\* What the sender is told and what the session remembers agree, for any number of
\* messages under way in the session at once.
THEOREM WireTellsTheTruth == AnswersSpec => []WireTellsOfTurn
<1>1. AnswersInv => WireTellsOfTurn
  BY DEF AnswersInv, Progress, WireTellsOfTurn, At
<1>2. QED
  BY <1>1, AnswersInvHolds, PTL

\* The context is never ahead of the turns.
THEOREM ContextFollows == AnswersSpec => []ContextIsNeverAhead
<1>1. ASSUME AnswersInv PROVE ContextIsNeverAhead
  <2>1. DOMAIN dicts = 1..Len(dicts) /\ DOMAIN turns = 1..Len(turns)
    BY <1>1, LenProperties DEF AnswersInv
  <2>2. QED
    BY <1>1, <2>1 DEF AnswersInv, GoodContext, ContextIsNeverAhead
<1>2. QED
  BY <1>1, AnswersInvHolds, PTL

\* No round carries the id of a round whose decision is a turn.
THEOREM RoundsAreNotRepeated == AnswersSpec => NoRoundAfterItsTurn
<1> DEFINE A == \A c \in Calls : ReachRound(c) =>
                  \A t \in DOMAIN turns : turns[t].round # call'[c].round
<1>1. ASSUME AnswersInv, NEW c \in Calls, ReachRound(c), NEW t \in DOMAIN turns
      PROVE  turns[t].round # call'[c].round
  <2>1. Len(turns) \in Nat /\ t \in 1..Len(turns) /\ turns[t] \in ATurn
    BY <1>1, LenProperties, ElementOfSeq DEF AnswersInv
  <2>2. call'[c].round = Len(turns)
    BY <1>1 DEF ReachRound, RoundId, AnswersInv, Activation
  <2>3. GoodTurn(t)
    BY <1>1, <2>1 DEF AnswersInv
  <2>4. CASE turns[t].round = None
    BY <2>1, <2>2, <2>4, AnswersAssumption
  <2>5. CASE turns[t].round # None
    BY <2>1, <2>2, <2>3, <2>5 DEF GoodTurn, ATurn
  <2>6. QED
    BY <2>4, <2>5
<1>2. AnswersInv => A
  BY <1>1
<1>3. AnswersInv /\ [AnswersNext]_vars => [A]_vars
  BY <1>2
<1> HIDE DEF A
<1>4. AnswersSpec => [][A]_vars
  BY <1>3, AnswersInvHolds, PTL DEF AnswersSpec
<1>5. QED
  BY <1>4 DEF A, NoRoundAfterItsTurn
=============================================================================
