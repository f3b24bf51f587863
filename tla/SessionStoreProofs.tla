--------------------------- MODULE SessionStoreProofs ---------------------------
(***************************************************************************)
(* SessionStore for every TTL, set of ids and number of turns: what holds  *)
(* with any number of threads inside the store, and what one caller is     *)
(* promised, the abstract Conversations included.                          *)
(***************************************************************************)
EXTENDS SessionStore, SequenceTheorems, FiniteSetTheorems, TLAPS

ASession == [sid : Ids, turns : Seq(Agents), idle : 0..(SessionTTL + 1)]

\* The callers that may yet create a session.
Pending == {c \in Callers : pc[c] \in MayCreate}

AGc == [size : Nat, seen : SUBSET Ids, doomed : SUBSET Ids]

HeapOK ==
  /\ sessions \in Seq(ASession)
  /\ \A o \in Object : Len(sessions[o].turns) <= MaxTurns

DictOK ==
  /\ DOMAIN store \subseteq Ids /\ IsFiniteSet(DOMAIN store)
  /\ \A s \in DOMAIN store : store[s] \in Object /\ sessions[store[s]].sid = s

CallersOK ==
  /\ pc \in [Callers -> Labels]
  /\ sid \in [Callers -> Ids \cup {NoSid}]
  /\ held \in [Callers -> Object \cup {None}]
  /\ gc \in [Callers -> AGc]
  /\ \A c \in Callers : pc[c] \in {"test", "touch", "in"} => held[c] # None
  /\ \A c \in Callers : pc[c] \in {"fetch", "test", "evict"} => sid[c] # NoSid

\* Ask keeps room on the heap for the sessions the calls under way may create.
RoomOK == Len(sessions) + Cardinality(Pending) <= MaxSessions

StoreInv == HeapOK /\ DictOK /\ CallersOK /\ RoomOK

-----------------------------------------------------------------------------
\* What the operations on a session object keep.
LEMMA SessionFacts ==
  ASSUME NEW session \in ASession
  PROVE  /\ Touched(session) \in ASession /\ Touched(session).sid = session.sid
         /\ Touched(session).turns = session.turns /\ Touched(session).idle = 0
         /\ Older(session) \in ASession /\ Older(session).sid = session.sid
         /\ Older(session).turns = session.turns
         /\ Expired(session) => Expired(Older(session))
<1>1. SessionTTL \in Nat
  BY SessionTTLAssumption
<1>2. session.idle \in 0..(SessionTTL + 1)
  BY DEF ASession
<1>3. Touched(session) \in ASession /\ Touched(session).sid = session.sid
      /\ Touched(session).turns = session.turns /\ Touched(session).idle = 0
  BY <1>1 DEF Touched, ASession
<1>4. Older(session) \in ASession /\ Older(session).sid = session.sid
      /\ Older(session).turns = session.turns
  BY <1>1, <1>2 DEF Older, ASession
<1>5. Expired(session) => Expired(Older(session))
  BY <1>1, <1>2 DEF Older, ASession, Expired
<1>6. QED
  BY <1>3, <1>4, <1>5

LEMMA RecordedFacts ==
  ASSUME NEW session \in ASession, NEW agent \in Agents
  PROVE  /\ Recorded(session, agent) \in ASession
         /\ Recorded(session, agent).sid = session.sid
         /\ Recorded(session, agent).turns = Append(session.turns, agent)
         /\ Recorded(session, agent).idle = 0
         /\ Len(Recorded(session, agent).turns) = Len(session.turns) + 1
<1>1. SessionTTL \in Nat
  BY SessionTTLAssumption
<1>2. session.turns \in Seq(Agents)
  BY DEF ASession
<1> DEFINE more == Append(session.turns, agent)
<1>3. more \in Seq(Agents) /\ Len(more) = Len(session.turns) + 1
  BY <1>2, AppendProperties
<1>4. Recorded(session, agent) = [session EXCEPT !.turns = more, !.idle = 0]
  BY DEF Recorded
<1> DEFINE recorded == [session EXCEPT !.turns = more, !.idle = 0]
<1>5. 0 \in 0..(SessionTTL + 1)
  BY <1>1
<1> HIDE DEF more
<1>6. recorded \in ASession /\ recorded.sid = session.sid
      /\ recorded.turns = more /\ recorded.idle = 0
  BY <1>3, <1>5, Zenon DEF ASession
<1>7. QED
  BY <1>3, <1>4, <1>6 DEF more

LEMMA NewSessionFacts ==
  ASSUME NEW id \in Ids
  PROVE  /\ NewSession(id) \in ASession /\ NewSession(id).sid = id
         /\ NewSession(id).turns = <<>> /\ NewSession(id).idle = 0
BY SessionTTLAssumption, EmptySeq DEF NewSession, ASession

\* One object of the heap changes and keeps its id.
LEMMA HeapChange ==
  ASSUME HeapOK, DictOK, NEW o \in Object, NEW new \in ASession,
         new.sid = sessions[o].sid, Len(new.turns) <= MaxTurns,
         sessions' = [sessions EXCEPT ![o] = new], store' = store
  PROVE  /\ HeapOK' /\ DictOK' /\ Len(sessions') = Len(sessions)
         /\ sessions'[o] = new /\ \A p \in Object : p # o => sessions'[p] = sessions[p]
<1>1. /\ sessions' \in Seq(ASession) /\ Len(sessions') = Len(sessions)
      /\ sessions'[o] = new /\ \A p \in Object : p # o => sessions'[p] = sessions[p]
  BY ExceptSeq DEF HeapOK, Object
<1>2. QED
  BY <1>1 DEF HeapOK, DictOK, Object

-----------------------------------------------------------------------------
LEMMA PendingIsFinite ==
  /\ IsFiniteSet(Pending) /\ Cardinality(Pending) \in Nat
  /\ \A S \in SUBSET Pending : IsFiniteSet(S) /\ Cardinality(S) \in Nat
                               /\ Cardinality(S) <= Cardinality(Pending)
<1>1. Pending \in SUBSET Callers
  BY DEF Pending
<1>2. IsFiniteSet(Pending)
  BY <1>1, StoreAssumption, FS_Subset
<1>3. QED
  BY <1>2, FS_Subset, FS_CardinalityType

LEMMA RoomRemains ==
  ASSUME HeapOK, RoomOK, Pending' \subseteq Pending, Len(sessions') = Len(sessions)
  PROVE  RoomOK'
<1>1. Len(sessions) \in Nat
  BY LenProperties DEF HeapOK
<1>2. Cardinality(Pending') \in Nat /\ Cardinality(Pending') <= Cardinality(Pending)
  BY PendingIsFinite
<1>3. QED
  BY <1>1, <1>2, PendingIsFinite, StoreAssumption DEF RoomOK

\* get_or_create's first test; the call keeps room for the session it may create.
LEMMA AskKeepsInv ==
  ASSUME StoreInv, NEW c \in Callers, NEW s \in SessionIds \cup {NoSid}, Ask(c, s)
  PROVE  StoreInv'
<1>1. HeapOK' /\ DictOK'
  BY DEF Ask, StoreInv, HeapOK, DictOK, Object
<1>2. pc[c] = "idle" /\ pc' = [pc EXCEPT ![c] = IF s \in DOMAIN store THEN "fetch" ELSE "create"]
      /\ sid' = [sid EXCEPT ![c] = s] /\ UNCHANGED <<sessions, held, gc>>
  BY DEF Ask, Goto
<1>3. s \in Ids \cup {NoSid} /\ (s \in DOMAIN store => s # NoSid)
  BY StoreAssumption DEF StoreInv, DictOK, Ids
<1>4. CallersOK'
  BY <1>2, <1>3 DEF StoreInv, CallersOK, Object, Labels
<1>5. RoomOK'
  <2>1. Pending' = Pending \cup {c} /\ c \notin Pending
    BY <1>2 DEF Pending, MayCreate, StoreInv, CallersOK
  <2>2. Cardinality(Pending') = Cardinality(Pending) + 1
    BY <2>1, PendingIsFinite, FS_AddElement
  <2>3. Len(sessions) + Cardinality(Pending) < MaxSessions
    BY DEF Ask, Pending
  <2>4. Len(sessions) \in Nat
    BY LenProperties DEF StoreInv, HeapOK
  <2>5. QED
    BY <1>2, <2>2, <2>3, <2>4, PendingIsFinite, StoreAssumption DEF RoomOK
<1>6. QED
  BY <1>1, <1>4, <1>5 DEF StoreInv

\* A step of a caller from one label to the next, on its way to no creation.
LEMMA MovesOn ==
  ASSUME StoreInv, NEW c \in Callers, NEW label \in Labels, Goto(c, label), HeapOK', DictOK',
         Len(sessions') = Len(sessions), pc[c] \in MayCreate \/ label \notin MayCreate,
         sid' = sid, held' \in [Callers -> Object \cup {None}], gc' \in [Callers -> AGc],
         \A d \in Callers : d # c => held'[d] = held[d],
         label \in {"test", "touch", "in"} => held'[c] # None,
         label \in {"fetch", "test", "evict"} => sid[c] # NoSid
  PROVE  StoreInv'
<1>1. pc' = [pc EXCEPT ![c] = label]
  BY DEF Goto
<1>2. Object' = Object
  BY DEF Object
<1>3. CallersOK'
  BY <1>1, <1>2 DEF StoreInv, CallersOK
<1>4. Pending' \subseteq Pending
  BY <1>1 DEF Pending, StoreInv, CallersOK
<1>5. QED
  BY <1>3, <1>4, RoomRemains DEF StoreInv

\* The fetch and the age test change nothing but what their caller knows.
LEMMA TestsKeepInv ==
  ASSUME StoreInv, NEW c \in Callers, Fetch(c) \/ FindFresh(c) \/ FindExpired(c)
  PROVE  StoreInv'
<1>1. HeapOK' /\ DictOK' /\ Len(sessions') = Len(sessions)
  BY DEF Fetch, FindFresh, FindExpired, StoreInv, HeapOK, DictOK, Object
<1>2. held \in [Callers -> Object \cup {None}] /\ gc \in [Callers -> AGc]
  BY DEF StoreInv, CallersOK
<1>3. CASE Fetch(c)
  <2>1. /\ pc[c] = "fetch" /\ sid[c] \in DOMAIN store /\ Goto(c, "test")
        /\ held' = [held EXCEPT ![c] = store[sid[c]]] /\ UNCHANGED <<sid, gc>>
    BY <1>3 DEF Fetch
  <2>2. store[sid[c]] \in Object /\ store[sid[c]] # None /\ sid[c] # NoSid
    BY <2>1 DEF StoreInv, DictOK, CallersOK, None, Object
  <2>3. QED
    BY <1>1, <1>2, <2>1, <2>2, MovesOn DEF MayCreate, Labels
<1>4. CASE FindFresh(c)
  <2>1. pc[c] = "test" /\ Goto(c, "touch") /\ UNCHANGED <<sid, held, gc>> /\ held[c] # None
    BY <1>4 DEF FindFresh, StoreInv, CallersOK
  <2>2. QED
    BY <1>1, <1>2, <2>1, MovesOn DEF MayCreate, Labels
<1>5. CASE FindExpired(c)
  <2>1. /\ pc[c] = "test" /\ Goto(c, "evict") /\ sid[c] # NoSid
        /\ held' = [held EXCEPT ![c] = None] /\ UNCHANGED <<sid, gc>>
    BY <1>5 DEF FindExpired, StoreInv, CallersOK
  <2>2. QED
    BY <1>1, <1>2, <2>1, MovesOn DEF MayCreate, Labels
<1>6. QED
  BY <1>3, <1>4, <1>5

\* The session is touched and returned.
LEMMA ResumeFacts ==
  ASSUME StoreInv, NEW c \in Callers, Resume(c)
  PROVE  LET o == held[c] IN
         /\ StoreInv' /\ UNCHANGED <<store, sid, held, gc>> /\ o \in Object
         /\ pc[c] = "touch" /\ pc' = [pc EXCEPT ![c] = "in"]
         /\ sessions'[o] = Touched(sessions[o]) /\ Len(sessions') = Len(sessions)
         /\ \A p \in Object : p # o => sessions'[p] = sessions[p]
<1> DEFINE o == held[c]
<1>1. /\ UNCHANGED <<store, sid, held, gc>>
      /\ pc[c] = "touch" /\ Goto(c, "in") /\ pc' = [pc EXCEPT ![c] = "in"]
      /\ sessions' = [sessions EXCEPT ![o] = Touched(sessions[o])]
  BY DEF Resume, Goto
<1>2. o \in Object /\ o # None
  BY <1>1 DEF StoreInv, CallersOK
<1>3. sessions[o] \in ASession /\ Len(sessions[o].turns) <= MaxTurns
  BY <1>2, ElementOfSeq DEF StoreInv, HeapOK, Object
<1> HIDE DEF o
<1>4. /\ HeapOK' /\ DictOK' /\ Len(sessions') = Len(sessions)
      /\ sessions'[o] = Touched(sessions[o])
      /\ \A p \in Object : p # o => sessions'[p] = sessions[p]
  BY <1>1, <1>2, <1>3, SessionFacts, HeapChange DEF StoreInv
<1>5. held \in [Callers -> Object \cup {None}] /\ gc \in [Callers -> AGc] /\ held[c] # None
  BY <1>2 DEF StoreInv, CallersOK, o
<1>6. StoreInv'
  BY <1>1, <1>4, <1>5, MovesOn DEF MayCreate, Labels
<1>7. QED
  BY <1>1, <1>2, <1>4, <1>6 DEF o

\* A session is created and entered under its own id: a fresh one, or the one asked for.
LEMMA CreateFacts ==
  ASSUME StoreInv, NEW c \in Callers, Create(c)
  PROVE  \E id \in Ids :
         /\ StoreInv' /\ id \in (IF sid[c] = NoSid THEN Unused ELSE {sid[c]})
         /\ Len(sessions') = Len(sessions) + 1
         /\ \A p \in Object : sessions'[p] = sessions[p]
         /\ sessions'[Len(sessions) + 1] = NewSession(id)
         /\ store' = Entry(store, id, Len(sessions) + 1)
         /\ held' = [held EXCEPT ![c] = Len(sessions) + 1]
         /\ pc[c] = "create" /\ pc' = [pc EXCEPT ![c] = "in"] /\ sid' = sid
<1>1. PICK id \in (IF sid[c] = NoSid THEN Unused ELSE {sid[c]}) :
        /\ sessions' = Append(sessions, NewSession(id))
        /\ store' = Entry(store, id, Len(sessions) + 1)
  BY DEF Create
<1>2. /\ held' = [held EXCEPT ![c] = Len(sessions) + 1] /\ pc[c] = "create"
      /\ pc' = [pc EXCEPT ![c] = "in"] /\ UNCHANGED <<sid, gc>>
  BY DEF Create, Goto
<1>3. id \in Ids
  BY <1>1 DEF Unused, Ids, StoreInv, CallersOK
<1>4. Len(sessions) \in Nat /\ sessions \in Seq(ASession)
  BY LenProperties DEF StoreInv, HeapOK
<1>5. /\ sessions' \in Seq(ASession) /\ Len(sessions') = Len(sessions) + 1
      /\ \A p \in Object : sessions'[p] = sessions[p]
      /\ sessions'[Len(sessions) + 1] = NewSession(id)
  BY <1>1, <1>3, <1>4, NewSessionFacts, AppendProperties DEF Object
<1>6. HeapOK'
  <2>1. ASSUME NEW p \in Object'
        PROVE  Len(sessions'[p].turns) <= MaxTurns
    <3>1. CASE p \in Object
      BY <1>5, <3>1 DEF StoreInv, HeapOK
    <3>2. CASE p = Len(sessions) + 1
      <4>1. sessions'[p].turns = <<>>
        BY <1>3, <1>5, <3>2, NewSessionFacts
      <4>2. QED
        BY <4>1, EmptySeq, StoreAssumption
    <3>3. QED
      BY <1>4, <1>5, <3>1, <3>2 DEF Object
  <2>2. QED
    BY <1>5, <2>1 DEF HeapOK
<1>7. DictOK'
  <2>1. DOMAIN store' = DOMAIN store \cup {id} /\ store'[id] = Len(sessions) + 1
        /\ \A s \in DOMAIN store : s # id => store'[s] = store[s]
    BY <1>1 DEF Entry
  <2>2. DOMAIN store' \subseteq Ids /\ IsFiniteSet(DOMAIN store')
    BY <1>3, <2>1, FS_AddElement DEF StoreInv, DictOK
  <2>3. ASSUME NEW s \in DOMAIN store'
        PROVE  store'[s] \in Object' /\ sessions'[store'[s]].sid = s
    <3>1. CASE s = id
      BY <1>3, <1>4, <1>5, <2>1, <3>1, NewSessionFacts DEF Object
    <3>2. CASE s # id
      <4>1. store'[s] = store[s] /\ store[s] \in Object /\ sessions[store[s]].sid = s
        BY <2>1, <3>2 DEF StoreInv, DictOK
      <4>2. store[s] \in Object'
        BY <1>4, <1>5, <4>1 DEF Object
      <4>3. QED
        BY <1>5, <4>1, <4>2
    <3>3. QED
      BY <3>1, <3>2
  <2>4. QED
    BY <2>2, <2>3 DEF DictOK
<1>8. CallersOK'
  <2>1. Object \subseteq Object' /\ Len(sessions) + 1 \in Object' /\ Len(sessions) + 1 # None
    BY <1>4, <1>5 DEF Object, None
  <2>2. QED
    BY <1>2, <2>1 DEF StoreInv, CallersOK, Labels
<1>9. RoomOK'
  <2>1. Pending' = Pending \ {c} /\ c \in Pending
    BY <1>2 DEF Pending, MayCreate, StoreInv, CallersOK
  <2>2. Cardinality(Pending') = Cardinality(Pending) - 1
    BY <2>1, PendingIsFinite, FS_RemoveElement
  <2>3. QED
    BY <1>4, <1>5, <2>2, PendingIsFinite, StoreAssumption DEF RoomOK, StoreInv
<1>10. QED
  BY <1>1, <1>2, <1>3, <1>5, <1>6, <1>7, <1>8, <1>9 DEF StoreInv

\* A call ends: it needs no more room.
LEMMA LeaveKeepsInv ==
  ASSUME StoreInv, NEW c \in Callers, Leave(c), HeapOK', DictOK',
         Len(sessions') = Len(sessions)
  PROVE  StoreInv'
<1>1. pc' = [pc EXCEPT ![c] = "idle"] /\ sid' = [sid EXCEPT ![c] = NoSid]
      /\ held' = [held EXCEPT ![c] = None] /\ gc' = [gc EXCEPT ![c] = NoGc]
  BY DEF Leave
<1>2. CallersOK'
  BY <1>1 DEF StoreInv, CallersOK, Object, Labels, NoGc, AGc
<1>3. Pending' \subseteq Pending
  BY <1>1 DEF Pending, MayCreate, StoreInv, CallersOK
<1>4. QED
  BY <1>2, <1>3, RoomRemains DEF StoreInv

\* Entries leave the dict; the objects stay on the heap.
LEMMA WithoutKeeps ==
  ASSUME HeapOK, DictOK, NEW ids, store' = Without(store, ids), UNCHANGED sessions
  PROVE  HeapOK' /\ DictOK'
<1>1. DOMAIN store' \subseteq DOMAIN store
  BY DEF Without
<1>2. IsFiniteSet(DOMAIN store')
  BY <1>1, FS_Subset DEF DictOK
<1>3. QED
  BY <1>2 DEF Without, HeapOK, DictOK, Object

\* The last step of a call that was given a session: a turn, recorded or not.
LEMMA RecordTurnFacts ==
  ASSUME StoreInv, NEW c \in Callers, NEW agent \in Agents, RecordTurn(c, agent)
  PROVE  LET o == held[c] IN
         /\ StoreInv' /\ store' = store /\ o \in Object /\ pc[c] = "in"
         /\ sessions[o] \in ASession /\ Len(sessions[o].turns) < MaxTurns
         /\ sessions'[o] = Recorded(sessions[o], agent) /\ Len(sessions') = Len(sessions)
         /\ \A p \in Object : p # o => sessions'[p] = sessions[p]
<1> DEFINE o == held[c]
<1>1. /\ pc[c] = "in" /\ Len(sessions[o].turns) < MaxTurns /\ store' = store /\ Leave(c)
      /\ sessions' = [sessions EXCEPT ![o] = Recorded(sessions[o], agent)]
  BY DEF RecordTurn
<1>2. o \in Object
  BY <1>1 DEF StoreInv, CallersOK
<1>3. sessions[o] \in ASession
  BY <1>2, ElementOfSeq DEF StoreInv, HeapOK, Object
<1>4. Len(sessions[o].turns) + 1 <= MaxTurns
  <2>1. Len(sessions[o].turns) \in Nat
    BY <1>3, LenProperties DEF ASession
  <2>2. QED
    BY <1>1, <2>1, StoreAssumption
<1> HIDE DEF o
<1>5. /\ HeapOK' /\ DictOK' /\ Len(sessions') = Len(sessions)
      /\ sessions'[o] = Recorded(sessions[o], agent)
      /\ \A p \in Object : p # o => sessions'[p] = sessions[p]
  BY <1>1, <1>2, <1>3, <1>4, RecordedFacts, HeapChange DEF StoreInv
<1>6. StoreInv'
  BY <1>1, <1>5, LeaveKeepsInv
<1>7. QED
  BY <1>1, <1>2, <1>3, <1>5, <1>6 DEF o

\* The other steps of a call: a test, a deletion, a KeyError, an end without a turn.
LEMMA CallKeepsInv ==
  ASSUME StoreInv, NEW c \in Callers, Call(c)
  PROVE  StoreInv'
<1>1. CASE \E s \in SessionIds \cup {NoSid} : Ask(c, s)
  BY <1>1, AskKeepsInv
<1>2. CASE Fetch(c) \/ FindFresh(c) \/ FindExpired(c)
  BY <1>2, TestsKeepInv
<1>3. CASE Resume(c)
  BY <1>3, ResumeFacts
<1>4. CASE Evict(c)
  <2>1. /\ pc[c] = "evict" /\ Goto(c, "create")
        /\ store' = Without(store, {sid[c]}) /\ UNCHANGED <<sessions, sid, held, gc>>
    BY <1>4 DEF Evict
  <2>2. HeapOK' /\ DictOK'
    BY <2>1, WithoutKeeps DEF StoreInv
  <2>3. held \in [Callers -> Object \cup {None}] /\ gc \in [Callers -> AGc]
    BY DEF StoreInv, CallersOK
  <2>4. QED
    BY <2>1, <2>2, <2>3, MovesOn DEF MayCreate, Labels
<1>5. CASE KeyError(c)
  BY <1>5, LeaveKeepsInv DEF KeyError, StoreInv, HeapOK, DictOK, Object
<1>6. CASE Create(c)
  BY <1>6, CreateFacts
<1>7. CASE \E agent \in Agents : RecordTurn(c, agent)
  BY <1>7, RecordTurnFacts
<1>8. CASE NoTurn(c)
  BY <1>8, LeaveKeepsInv DEF NoTurn, StoreInv, HeapOK, DictOK, Object
<1>9. QED
  BY <1>1, <1>2, <1>3, <1>4, <1>5, <1>6, <1>7, <1>8 DEF Call

\* gc, which lists and then deletes one id at a time.
LEMMA GcKeepsInv ==
  ASSUME StoreInv, NEW c \in Callers, Gc(c)
  PROVE  StoreInv'
<1>1. held \in [Callers -> Object \cup {None}] /\ gc \in [Callers -> AGc]
      /\ gc[c] \in AGc /\ DOMAIN store \subseteq Ids
  BY DEF StoreInv, CallersOK, DictOK
<1>2. ASSUME UNCHANGED <<sessions, store>>
      PROVE  HeapOK' /\ DictOK' /\ Len(sessions') = Len(sessions)
  BY <1>2 DEF StoreInv, HeapOK, DictOK, Object
<1>3. ASSUME UNCHANGED <<pc, sid, held>>, NEW g \in AGc, gc' = [gc EXCEPT ![c] = g],
             HeapOK', DictOK', Len(sessions') = Len(sessions)
      PROVE  StoreInv'
  <2>1. CallersOK' /\ Pending' \subseteq Pending
    BY <1>3 DEF StoreInv, CallersOK, Object, Pending
  <2>2. QED
    BY <1>3, <2>1, RoomRemains DEF StoreInv
<1>4. CASE GcBegin(c)
  <2>1. /\ Goto(c, "scan") /\ UNCHANGED <<sessions, store, sid, held>>
        /\ gc' = [gc EXCEPT ![c] = [gc[c] EXCEPT !.size = Cardinality(DOMAIN store)]]
    BY <1>4 DEF GcBegin
  <2>2. Cardinality(DOMAIN store) \in Nat
    BY FS_CardinalityType DEF StoreInv, DictOK
  <2>3. gc' \in [Callers -> AGc]
    BY <1>1, <2>1, <2>2 DEF AGc
  <2>4. QED
    BY <1>1, <1>2, <2>1, <2>3, MovesOn DEF MayCreate, Labels
<1>5. CASE GcLook(c)
  <2>1. PICK s \in DOMAIN store :
          gc' = [gc EXCEPT ![c].seen = @ \cup {s},
                           ![c].doomed = IF Collectable(s) THEN @ \cup {s} ELSE @]
    BY <1>5 DEF GcLook
  <2> DEFINE g == [gc[c] EXCEPT !.seen = @ \cup {s},
                                !.doomed = IF Collectable(s) THEN @ \cup {s} ELSE @]
  <2>2. gc' = [gc EXCEPT ![c] = g] /\ g \in AGc
    BY <1>1, <2>1 DEF AGc
  <2>3. UNCHANGED <<sessions, store, pc, sid, held>>
    BY <1>5 DEF GcLook
  <2>4. QED
    BY <1>2, <1>3, <2>2, <2>3
<1>6. CASE GcListed(c)
  <2>1. CASE Leave(c)
    BY <1>2, <1>6, <2>1, LeaveKeepsInv DEF GcListed
  <2>2. CASE Goto(c, "collect") /\ UNCHANGED <<sid, held, gc>>
    BY <1>1, <1>2, <1>6, <2>2, MovesOn DEF GcListed, MayCreate, Labels
  <2>3. QED
    BY <1>6, <2>1, <2>2 DEF GcListed
<1>7. CASE GcRuntimeError(c)
  BY <1>2, <1>7, LeaveKeepsInv DEF GcRuntimeError
<1>8. ASSUME NEW s \in Ids, GcDelete(c, s)
      PROVE  StoreInv'
  <2>1. store' = Without(store, {s}) /\ UNCHANGED sessions
    BY <1>8 DEF GcDelete
  <2>2. HeapOK' /\ DictOK' /\ Len(sessions') = Len(sessions)
    BY <2>1, WithoutKeeps DEF StoreInv
  <2>3. CASE Leave(c)
    BY <2>2, <2>3, LeaveKeepsInv
  <2>4. CASE /\ gc' = [gc EXCEPT ![c].doomed = @ \ {s}] /\ UNCHANGED <<pc, sid, held>>
    <3> DEFINE g == [gc[c] EXCEPT !.doomed = @ \ {s}]
    <3>1. gc' = [gc EXCEPT ![c] = g] /\ g \in AGc
      BY <1>1, <2>4 DEF AGc
    <3>2. QED
      BY <1>3, <2>2, <2>4, <3>1
  <2>5. QED
    BY <1>8, <2>3, <2>4 DEF GcDelete
<1>9. QED
  BY <1>4, <1>5, <1>6, <1>7, <1>8 DEF Gc

\* A tick makes every object older, and changes nothing else about it.
LEMMA TickFacts ==
  ASSUME StoreInv, Tick
  PROVE  /\ StoreInv' /\ store' = store /\ Len(sessions') = Len(sessions)
         /\ \A o \in Object : /\ sessions[o] \in ASession /\ sessions'[o] = Older(sessions[o])
                              /\ sessions'[o].sid = sessions[o].sid
                              /\ sessions'[o].turns = sessions[o].turns
<1>1. /\ sessions' = [o \in 1..Len(sessions) |-> Older(sessions[o])]
      /\ UNCHANGED <<store, pc, sid, held, gc>>
  BY DEF Tick, Object
<1>2. Len(sessions) \in Nat
  BY LenProperties DEF StoreInv, HeapOK
<1>3. \A o \in 1..Len(sessions) : sessions[o] \in ASession /\ Older(sessions[o]) \in ASession
  BY ElementOfSeq, SessionFacts DEF StoreInv, HeapOK
<1>4. sessions' \in Seq(ASession)
  BY <1>1, <1>2, <1>3, SeqDef
<1>5. Len(sessions') = Len(sessions)
  BY <1>1, <1>2, <1>4, LenProperties
<1>6. \A o \in Object : /\ sessions[o] \in ASession /\ sessions'[o] = Older(sessions[o])
                        /\ sessions'[o].sid = sessions[o].sid
                        /\ sessions'[o].turns = sessions[o].turns
  BY <1>1, <1>3, SessionFacts DEF Object
<1>7. HeapOK' /\ DictOK'
  BY <1>1, <1>4, <1>5, <1>6 DEF StoreInv, HeapOK, DictOK, Object
<1>8. CallersOK' /\ Pending' \subseteq Pending
  BY <1>1, <1>5 DEF StoreInv, CallersOK, Pending, Object
<1>9. QED
  BY <1>1, <1>5, <1>6, <1>7, <1>8, RoomRemains DEF StoreInv

LEMMA StoreInvInit == StoreInit => StoreInv
<1> SUFFICES ASSUME StoreInit PROVE StoreInv
  OBVIOUS
<1>1. HeapOK
  BY EmptySeq DEF StoreInit, HeapOK, Object
<1>2. DictOK /\ CallersOK
  BY FS_EmptySet DEF StoreInit, DictOK, CallersOK, Object, Labels, NoGc, AGc
<1>3. RoomOK
  <2>1. Pending = {}
    BY DEF StoreInit, Pending, MayCreate
  <2>2. QED
    BY <2>1, FS_EmptySet, EmptySeq, StoreAssumption DEF StoreInit, RoomOK
<1>4. QED
  BY <1>1, <1>2, <1>3 DEF StoreInv

LEMMA StoreInvStep == StoreInv /\ [StoreNext]_storeVars => StoreInv'
<1> SUFFICES ASSUME StoreInv, [StoreNext]_storeVars PROVE StoreInv'
  OBVIOUS
<1>1. CASE \E c \in Callers : Call(c)
  BY <1>1, CallKeepsInv
<1>2. CASE \E c \in Callers : Gc(c)
  BY <1>2, GcKeepsInv
<1>3. ASSUME NEW c \in Callers, NEW s \in SessionIds, Close(c, s)
      PROVE  StoreInv'
  <2>1. store' = Without(store, {s}) /\ UNCHANGED <<sessions, pc, sid, held, gc>>
    BY <1>3 DEF Close
  <2>2. HeapOK' /\ DictOK'
    BY <2>1, WithoutKeeps DEF StoreInv
  <2>3. CallersOK' /\ Pending' \subseteq Pending
    BY <2>1 DEF StoreInv, CallersOK, Pending, Object
  <2>4. QED
    BY <2>1, <2>2, <2>3, RoomRemains DEF StoreInv
<1>4. CASE Tick
  BY <1>4, TickFacts
<1>5. CASE UNCHANGED storeVars
  <2>1. Pending' \subseteq Pending
    BY <1>5 DEF storeVars, Pending
  <2>2. CallersOK' /\ HeapOK' /\ DictOK'
    BY <1>5 DEF storeVars, StoreInv, CallersOK, HeapOK, DictOK, Object
  <2>3. QED
    BY <1>5, <2>1, <2>2, RoomRemains DEF StoreInv, storeVars
<1>6. QED
  BY <1>1, <1>2, <1>3, <1>4, <1>5 DEF StoreNext

LEMMA StoreInvHolds == StoreSpec => []StoreInv
BY StoreInvInit, StoreInvStep, PTL DEF StoreSpec

\* Type correctness, with what a name means to it: an id's entry is a Session of that
\* id, whatever the order in which threads create, evict, close and collect.
THEOREM StoreTypeCorrect == StoreSpec => []StoreTypeOK
<1>1. StoreInv => StoreTypeOK
  <2> SUFFICES ASSUME StoreInv PROVE StoreTypeOK
    OBVIOUS
  <2>1. Len(sessions) \in Nat /\ Len(sessions) <= MaxSessions
    BY LenProperties, PendingIsFinite, StoreAssumption DEF StoreInv, HeapOK, RoomOK
  <2>2. \A o \in Object : sessions[o] \in ASession /\ Len(sessions[o].turns) <= MaxTurns
    BY ElementOfSeq DEF StoreInv, HeapOK, Object
  <2>3. QED
    BY <2>1, <2>2 DEF StoreInv, DictOK, CallersOK, StoreTypeOK, ASession, AGc
<1>2. QED
  BY <1>1, StoreInvHolds, PTL

\* What a step may do to the dict, and whose step it is.
LEMMA DictSteps ==
  ASSUME StoreInv, [StoreNext]_storeVars
  PROVE  \/ store' = store
         \/ \E c \in Callers : Evict(c) /\ store' = Without(store, {sid[c]})
         \/ \E c \in Callers, s \in SessionIds : Close(c, s) /\ store' = Without(store, {s})
         \/ \E c \in Callers, s \in Ids : GcDelete(c, s) /\ store' = Without(store, {s})
         \/ \E c \in Callers, id \in Ids :
              Create(c) /\ store' = Entry(store, id, Len(sessions) + 1)
<1>1. ASSUME NEW c \in Callers, Create(c)
      PROVE  \E id \in Ids : store' = Entry(store, id, Len(sessions) + 1)
  BY <1>1, CreateFacts
<1>2. QED
  BY <1>1 DEF StoreNext, Call, Gc, Ask, Fetch, FindFresh, FindExpired, Resume, Evict, KeyError,
    RecordTurn, NoTurn, Close, GcBegin, GcLook, GcListed, GcRuntimeError, GcDelete, Tick,
    storeVars

\* A closed, collected or replaced session is not found again, with any number of
\* threads in get_or_create, close and gc.
THEOREM ClosedSessionsStayClosed == StoreSpec => ClosedStaysClosed
<1> DEFINE A == \A s \in DOMAIN store' :
      store'[s] \in Object => s \in DOMAIN store /\ store[s] = store'[s]
<1>1. StoreInv /\ [StoreNext]_storeVars => [A]_storeVars
  <2> SUFFICES ASSUME StoreInv, [StoreNext]_storeVars, NEW s \in DOMAIN store',
                      store'[s] \in Object
               PROVE  s \in DOMAIN store /\ store[s] = store'[s]
    OBVIOUS
  <2>1. ASSUME NEW id, store' = Without(store, {id})
        PROVE  s \in DOMAIN store /\ store[s] = store'[s]
    BY <2>1 DEF Without
  <2>2. ASSUME NEW id \in Ids, store' = Entry(store, id, Len(sessions) + 1)
        PROVE  s \in DOMAIN store /\ store[s] = store'[s]
    <3>1. Len(sessions) + 1 \notin Object
      BY LenProperties DEF StoreInv, HeapOK, Object
    <3>2. QED
      BY <2>2, <3>1 DEF Entry
  <2>3. QED
    BY <2>1, <2>2, DictSteps
<1>2. ClosedStaysClosed <=> [][A]_storeVars
  BY DEF ClosedStaysClosed
<1> HIDE DEF A
<1>3. QED
  BY <1>1, <1>2, StoreInvHolds, PTL DEF StoreSpec

-----------------------------------------------------------------------------
ExpiredIds == {s \in DOMAIN store : Expired(sessions[store[s]])}

\* With one caller what a call has seen of the dict is still true at its next step;
\* time may have passed, but an expired session stays expired.
Sole(main) ==
  /\ pc[main] = "fetch" => sid[main] \in DOMAIN store
  /\ pc[main] = "test" => sid[main] \in DOMAIN store /\ store[sid[main]] = held[main]
  /\ pc[main] = "evict" => sid[main] \in ExpiredIds
  /\ pc[main] = "create" => sid[main] \notin DOMAIN store
  /\ pc[main] \in {"touch", "in"} =>
       /\ held[main] \in Object /\ sessions[held[main]].sid \in DOMAIN store
       /\ store[sessions[held[main]].sid] = held[main]
  /\ pc[main] \notin {"scan", "collect"} => gc[main].doomed = {}
  /\ gc[main].doomed \subseteq ExpiredIds

\* A new session's id names no session yet.
LEMMA CreatedIsNew ==
  ASSUME StoreInv, NEW main \in Callers, Sole(main), pc[main] = "create",
         NEW id \in (IF sid[main] = NoSid THEN Unused ELSE {sid[main]})
  PROVE  id \notin DOMAIN store
<1>1. CASE sid[main] = NoSid
  BY <1>1 DEF Unused, StoreInv, DictOK
<1>2. CASE sid[main] # NoSid
  BY <1>2 DEF Sole
<1>3. QED
  BY <1>1, <1>2

LEMMA SoleInit == ASSUME NEW main \in Callers PROVE StoreInit => Sole(main)
BY DEF StoreInit, Sole, NoGc

\* Ids stay expired through a tick.
LEMMA TickKeepsExpired ==
  ASSUME StoreInv, Tick
  PROVE  ExpiredIds \subseteq ExpiredIds' /\ DOMAIN store' = DOMAIN store
BY TickFacts, SessionFacts DEF ExpiredIds, StoreInv, DictOK

LEMMA SoleStep ==
  ASSUME NEW main, Callers = {main}, StoreInv, Sole(main), [StoreNext]_storeVars
  PROVE  Sole(main)'
<1>1. ASSUME NEW s \in SessionIds \cup {NoSid}, Ask(main, s)
      PROVE  Sole(main)'
  BY <1>1 DEF Ask, Goto, Sole, StoreInv, CallersOK, ExpiredIds
<1>2. CASE Fetch(main) \/ FindFresh(main) \/ FindExpired(main)
  <2>1. UNCHANGED <<sessions, store, sid, gc>>
    BY <1>2 DEF Fetch, FindFresh, FindExpired
  <2>2. ExpiredIds' = ExpiredIds /\ Object' = Object
    BY <2>1 DEF ExpiredIds, Object
  <2>3. CASE Fetch(main)
    <3>1. sid[main] \in DOMAIN store /\ pc'[main] = "test" /\ held'[main] = store[sid[main]]
          /\ pc[main] = "fetch"
      BY <2>3 DEF Fetch, Goto, StoreInv, CallersOK
    <3>2. QED
      BY <2>1, <2>2, <3>1 DEF Sole
  <2>4. CASE FindFresh(main)
    <3>1. pc[main] = "test" /\ pc'[main] = "touch" /\ held'[main] = held[main]
      BY <2>4 DEF FindFresh, Goto, StoreInv, CallersOK
    <3>2. /\ held[main] \in Object /\ sessions[held[main]].sid = sid[main]
          /\ sid[main] \in DOMAIN store /\ store[sid[main]] = held[main]
      BY <3>1 DEF Sole, StoreInv, DictOK
    <3>3. QED
      BY <2>1, <2>2, <3>1, <3>2 DEF Sole
  <2>5. CASE FindExpired(main)
    <3>1. pc[main] = "test" /\ pc'[main] = "evict" /\ sid[main] \in ExpiredIds
      BY <2>5 DEF FindExpired, Goto, StoreInv, CallersOK, Sole, ExpiredIds
    <3>2. QED
      BY <2>1, <2>2, <3>1 DEF Sole
  <2>6. QED
    BY <1>2, <2>3, <2>4, <2>5
<1>3. CASE Resume(main)
  <2>1. /\ pc[main] = "touch" /\ pc'[main] = "in" /\ held'[main] = held[main]
        /\ UNCHANGED <<store, gc>>
    BY <1>3, ResumeFacts DEF StoreInv, CallersOK
  <2>2. /\ held[main] \in Object' /\ sessions'[held[main]].sid = sessions[held[main]].sid
    BY <1>3, ResumeFacts, SessionFacts, ElementOfSeq DEF Object, StoreInv, HeapOK
  <2>3. gc[main].doomed = {}
    BY <2>1 DEF Sole
  <2>4. QED
    BY <2>1, <2>2, <2>3 DEF Sole
<1>4. CASE Evict(main)
  BY <1>4 DEF Evict, Without, Goto, Sole, StoreInv, CallersOK
<1>5. CASE KeyError(main) \/ NoTurn(main) \/ \E agent \in Agents : RecordTurn(main, agent)
  BY <1>5 DEF KeyError, NoTurn, RecordTurn, Leave, Sole, StoreInv, CallersOK, NoGc
<1>6. CASE Create(main)
  <2>1. PICK id \in Ids :
          /\ Len(sessions') = Len(sessions) + 1
          /\ sessions'[Len(sessions) + 1] = NewSession(id)
          /\ store' = Entry(store, id, Len(sessions) + 1)
          /\ held' = [held EXCEPT ![main] = Len(sessions) + 1]
          /\ pc[main] = "create" /\ pc' = [pc EXCEPT ![main] = "in"]
    BY <1>6, CreateFacts
  <2>2. pc'[main] = "in" /\ held'[main] = Len(sessions) + 1 /\ sessions'[held'[main]].sid = id
    BY <2>1, NewSessionFacts DEF StoreInv, CallersOK
  <2>3. id \in DOMAIN store' /\ store'[id] = Len(sessions) + 1
    BY <2>1 DEF Entry
  <2>4. Len(sessions) + 1 \in Object'
    BY <2>1, LenProperties DEF Object, StoreInv, HeapOK
  <2>5. gc'[main].doomed = {}
    BY <1>6, <2>1 DEF Create, Sole
  <2>6. QED
    BY <2>2, <2>3, <2>4, <2>5 DEF Sole
<1>7. ASSUME NEW s \in SessionIds, Close(main, s)
      PROVE  Sole(main)'
  BY <1>7 DEF Close, Sole
<1>8. CASE Gc(main)
  <2>1. ASSUME UNCHANGED <<sessions, store>>, pc'[main] \in {"idle", "scan", "collect"},
               gc'[main].doomed \subseteq ExpiredIds,
               pc'[main] = "idle" => gc'[main].doomed = {}
        PROVE  Sole(main)'
    BY <2>1 DEF Sole, ExpiredIds
  <2>2. CASE GcBegin(main)
    BY <2>1, <2>2 DEF GcBegin, Goto, Sole, StoreInv, CallersOK, AGc
  <2>3. CASE GcLook(main)
    <3>1. PICK s \in DOMAIN store :
            gc' = [gc EXCEPT ![main].seen = @ \cup {s},
                             ![main].doomed = IF Collectable(s) THEN @ \cup {s} ELSE @]
      BY <2>3 DEF GcLook
    <3>2. gc'[main].doomed = IF Collectable(s) THEN gc[main].doomed \cup {s} ELSE gc[main].doomed
      BY <3>1 DEF StoreInv, CallersOK, AGc
    <3>3. gc'[main].doomed \subseteq ExpiredIds
      BY <3>2 DEF Collectable, ExpiredIds, Sole
    <3>4. QED
      BY <2>1, <2>3, <3>3 DEF GcLook
  <2>4. CASE GcListed(main) \/ GcRuntimeError(main)
    BY <2>1, <2>4 DEF GcListed, GcRuntimeError, Goto, Leave, Sole, NoGc, StoreInv, CallersOK
  <2>5. ASSUME NEW s \in Ids, GcDelete(main, s)
        PROVE  Sole(main)'
    <3>1. UNCHANGED sessions /\ store' = Without(store, {s}) /\ pc[main] = "collect"
      BY <2>5 DEF GcDelete
    <3>2. ExpiredIds \ {s} \subseteq ExpiredIds'
      BY <3>1 DEF ExpiredIds, Without
    <3>3. CASE Leave(main)
      BY <3>3 DEF Leave, Sole, NoGc, StoreInv, CallersOK
    <3>4. CASE gc' = [gc EXCEPT ![main].doomed = @ \ {s}] /\ UNCHANGED <<pc, sid, held>>
      <4>1. gc'[main].doomed = gc[main].doomed \ {s}
        BY <3>4 DEF StoreInv, CallersOK, AGc
      <4>2. QED
        BY <3>1, <3>2, <3>4, <4>1 DEF Sole
    <3>5. QED
      BY <2>5, <3>3, <3>4 DEF GcDelete
  <2>6. QED
    BY <1>8, <2>2, <2>3, <2>4, <2>5 DEF Gc
<1>9. CASE Tick
  <2>1. UNCHANGED <<store, pc, sid, held, gc>>
    BY <1>9 DEF Tick
  <2>2. QED
    BY <1>9, <2>1, TickFacts, TickKeepsExpired DEF Sole, Object
<1>10. CASE UNCHANGED storeVars
  BY <1>10 DEF storeVars, Sole, Object, ExpiredIds
<1>11. QED
  BY <1>1, <1>2, <1>3, <1>4, <1>5, <1>6, <1>7, <1>8, <1>9, <1>10 DEF StoreNext, Call

LEMMA SoleHolds ==
  ASSUME NEW main, Callers = {main}
  PROVE  StoreSpec => [](StoreInv /\ Sole(main))
<1>1. StoreInit => StoreInv /\ Sole(main)
  BY StoreInvInit, SoleInit
<1>2. StoreInv /\ Sole(main) /\ [StoreNext]_storeVars => (StoreInv /\ Sole(main))'
  BY StoreInvStep, SoleStep
<1>3. QED
  BY <1>1, <1>2, PTL DEF StoreSpec

\* With one caller an id keeps its session from its first message to its close or
\* its expiry: no eviction, collection or creation takes a live session's entry.
THEOREM LiveSessionsStay ==
  ASSUME NEW main, Callers = {main}
  PROVE  StoreSpec => LiveSessionsAreKept
<1> DEFINE A == \A s \in DOMAIN store :
       ~Expired(sessions[store[s]]) /\ ~(\E c \in Callers : Close(c, s)) =>
         s \in DOMAIN store' /\ store'[s] = store[s]
<1>1. StoreInv /\ Sole(main) /\ [StoreNext]_storeVars => [A]_storeVars
  <2> SUFFICES ASSUME StoreInv, Sole(main), [StoreNext]_storeVars, NEW s \in DOMAIN store,
                      s \notin ExpiredIds, ~(\E c \in Callers : Close(c, s))
               PROVE  s \in DOMAIN store' /\ store'[s] = store[s]
    BY DEF ExpiredIds
  <2>1. CASE Evict(main)
    BY <2>1 DEF Evict, Without, Sole
  <2>2. CASE Create(main)
    <3>1. PICK id \in (IF sid[main] = NoSid THEN Unused ELSE {sid[main]}) :
            store' = Entry(store, id, Len(sessions) + 1)
      BY <2>2 DEF Create
    <3>2. id # s
      BY <2>2, <3>1, CreatedIsNew DEF Create
    <3>3. QED
      BY <3>1, <3>2 DEF Entry
  <2>3. ASSUME NEW t \in SessionIds, Close(main, t)
        PROVE  s \in DOMAIN store' /\ store'[s] = store[s]
    BY <2>3 DEF Close, Without
  <2>4. ASSUME NEW t \in Ids, GcDelete(main, t)
        PROVE  s \in DOMAIN store' /\ store'[s] = store[s]
    BY <2>4 DEF GcDelete, Sole, Without
  <2>5. QED
    BY <2>1, <2>2, <2>3, <2>4, DictSteps
<1>2. LiveSessionsAreKept <=> [][A]_storeVars
  BY DEF LiveSessionsAreKept
<1> HIDE DEF A
<1>3. QED
  BY <1>1, <1>2, SoleHolds, PTL DEF StoreSpec

-----------------------------------------------------------------------------
\* What the sender of one caller sees: Seen's substitutions, by name.
Conv == [s \in DOMAIN store |-> sessions[store[s]].turns]
In == IF pc[OneCaller] \in {"touch", "in"} THEN sessions[held[OneCaller]].sid ELSE NoSid
Spoken == {t \in Object \X (1..MaxTurns) : t[2] <= Len(sessions[t[1]].turns)}

SeenVars == <<Conv, ExpiredIds, In, Spoken>>

\* Each kind of step of the abstract Conversations, in these names.
EnterSeen(s) ==
  /\ In = NoSid /\ In' = s /\ s \notin ExpiredIds
  /\ Conv' = [i \in DOMAIN Conv \cup {s} |-> IF i \in DOMAIN Conv THEN Conv[i] ELSE <<>>]
  /\ UNCHANGED <<ExpiredIds, Spoken>>

EndSeen(s) ==
  /\ In = NoSid /\ s \in DOMAIN Conv
  /\ Conv' = [i \in DOMAIN Conv \ {s} |-> Conv[i]]
  /\ ExpiredIds' = ExpiredIds \ {s}
  /\ UNCHANGED <<In, Spoken>>

SpeakSeen(agent) ==
  /\ In \in DOMAIN Conv /\ In' = NoSid
  /\ Conv' = [Conv EXCEPT ![In] = Append(@, agent)]
  /\ \E turn \in Spoken' : turn \notin Spoken /\ Spoken' = Spoken \cup {turn}
  /\ ExpiredIds' = ExpiredIds \ {In}

StaySeen ==
  /\ In \in DOMAIN Conv
  /\ ExpiredIds' = ExpiredIds \ {In}
  /\ UNCHANGED <<Conv, In, Spoken>>

\* A step that changes no object and no entry shows only in where the caller is.
LEMMA SameHeap ==
  ASSUME UNCHANGED <<sessions, store>>
  PROVE  Conv' = Conv /\ ExpiredIds' = ExpiredIds /\ Spoken' = Spoken
BY DEF Conv, ExpiredIds, Spoken, Object

\* An entry leaves the dict while no call is in a session.
LEMMA WithoutEnds ==
  ASSUME NEW s \in DOMAIN store, store' = Without(store, {s}), UNCHANGED sessions,
         pc[OneCaller] \notin {"touch", "in"}, pc'[OneCaller] \notin {"touch", "in"}
  PROVE  EndSeen(s)
BY DEF EndSeen, Conv, ExpiredIds, In, Spoken, Object, Without

\* A session found within its TTL is the conversation of the id that was asked for.
LEMMA FindFreshEnters ==
  ASSUME StoreInv, OneCaller \in Callers, Sole(OneCaller), FindFresh(OneCaller)
  PROVE  EnterSeen(sid[OneCaller]) /\ sid[OneCaller] \in Ids
<1> DEFINE s == sid[OneCaller]
           o == held[OneCaller]
<1>1. /\ pc[OneCaller] = "test" /\ pc'[OneCaller] = "touch" /\ held' = held
      /\ ~Expired(sessions[o]) /\ UNCHANGED <<sessions, store>>
  BY DEF FindFresh, Goto, StoreInv, CallersOK
<1>2. s \in DOMAIN store /\ store[s] = o /\ sessions[o].sid = s /\ s \in Ids
  BY <1>1 DEF Sole, StoreInv, DictOK
<1>3. In = NoSid /\ In' = s
  BY <1>1, <1>2 DEF In
<1>4. s \in DOMAIN Conv /\ s \notin ExpiredIds
  BY <1>1, <1>2 DEF Conv, ExpiredIds
<1>5. Conv = [i \in DOMAIN Conv \cup {s} |-> IF i \in DOMAIN Conv THEN Conv[i] ELSE <<>>]
  BY <1>4 DEF Conv
<1>6. QED
  BY <1>1, <1>2, <1>3, <1>4, <1>5, SameHeap DEF EnterSeen

\* A touch leaves its turns, and everybody else's, alone; it may come after a tick that
\* lapsed the conversation.
LEMMA ResumeStays ==
  ASSUME StoreInv, OneCaller \in Callers, Sole(OneCaller), Resume(OneCaller), SessionTTL > 0
  PROVE  StaySeen
<1> DEFINE o == held[OneCaller]
           s == sessions[o].sid
<1>1. /\ UNCHANGED <<store, held>> /\ o \in Object
      /\ pc[OneCaller] = "touch" /\ pc'[OneCaller] = "in"
      /\ sessions'[o] = Touched(sessions[o]) /\ Len(sessions') = Len(sessions)
      /\ \A p \in Object : p # o => sessions'[p] = sessions[p]
  BY ResumeFacts DEF StoreInv, CallersOK
<1>2. s \in DOMAIN store /\ store[s] = o /\ \A t \in DOMAIN store : store[t] \in Object
  BY <1>1 DEF Sole, StoreInv, DictOK
<1>3. \A t \in DOMAIN store : t # s => store[t] # o
  BY <1>2 DEF StoreInv, DictOK
<1>4. sessions[o] \in ASession
  BY <1>1, ElementOfSeq DEF StoreInv, HeapOK, Object
<1>5. /\ sessions'[o].sid = s /\ sessions'[o].turns = sessions[o].turns
      /\ ~Expired(sessions'[o])
  BY <1>1, <1>4, SessionFacts, SessionTTLAssumption DEF Expired
<1>6. In = s /\ In' = s
  BY <1>1, <1>5 DEF In
<1> HIDE DEF o, s
<1>7. \A p \in Object : sessions'[p].turns = sessions[p].turns
  BY <1>1, <1>5
<1>8. ExpiredIds' = ExpiredIds \ {s}
  BY <1>1, <1>2, <1>3, <1>5 DEF ExpiredIds
<1>9. Conv' = Conv /\ s \in DOMAIN Conv
  BY <1>1, <1>2, <1>7 DEF Conv
<1>10. Spoken' = Spoken
  BY <1>1, <1>7 DEF Spoken, Object
<1>11. QED
  BY <1>6, <1>8, <1>9, <1>10 DEF StaySeen

\* A new session begins its conversation without turns, and has not lapsed.
LEMMA CreateEnters ==
  ASSUME StoreInv, OneCaller \in Callers, Sole(OneCaller), Create(OneCaller), SessionTTL > 0
  PROVE  \E id \in Ids : EnterSeen(id)
<1> DEFINE new == Len(sessions) + 1
<1>1. PICK id \in Ids :
        /\ id \in (IF sid[OneCaller] = NoSid THEN Unused ELSE {sid[OneCaller]})
        /\ Len(sessions') = new
        /\ \A p \in Object : sessions'[p] = sessions[p]
        /\ sessions'[new] = NewSession(id)
        /\ store' = Entry(store, id, new)
        /\ held' = [held EXCEPT ![OneCaller] = new]
        /\ pc[OneCaller] = "create" /\ pc' = [pc EXCEPT ![OneCaller] = "in"]
  BY CreateFacts
<1>2. id \notin DOMAIN store
  BY <1>1, CreatedIsNew
<1>3. Len(sessions) \in Nat
  BY LenProperties DEF StoreInv, HeapOK
<1> HIDE DEF new
<1>4. /\ sessions'[new].sid = id /\ sessions'[new].turns = <<>> /\ ~Expired(sessions'[new])
  BY <1>1, NewSessionFacts, SessionTTLAssumption DEF Expired
<1>5. In = NoSid /\ In' = id
  BY <1>1, <1>4 DEF In, StoreInv, CallersOK
<1>6. DOMAIN store' = DOMAIN store \cup {id} /\ store'[id] = new
      /\ \A s \in DOMAIN store : store'[s] = store[s] /\ store[s] \in Object
  BY <1>1, <1>2 DEF Entry, StoreInv, DictOK
<1>7. ExpiredIds' = ExpiredIds
  BY <1>1, <1>2, <1>4, <1>6 DEF ExpiredIds
<1>8. Conv' = [i \in DOMAIN Conv \cup {id} |-> IF i \in DOMAIN Conv THEN Conv[i] ELSE <<>>]
  BY <1>1, <1>2, <1>4, <1>6 DEF Conv
<1>9. Spoken' = Spoken
  <2>1. Object' = Object \cup {new} /\ new \notin Object
    BY <1>1, <1>3 DEF Object, new
  <2>2. \A n \in 1..MaxTurns : ~(n <= Len(sessions'[new].turns))
    BY <1>4, EmptySeq, StoreAssumption
  <2>3. \A p \in Object : sessions'[p].turns = sessions[p].turns
    BY <1>1
  <2>4. QED
    BY <2>1, <2>2, <2>3 DEF Spoken
<1>10. id \notin ExpiredIds
  BY <1>2 DEF ExpiredIds
<1>11. QED
  BY <1>5, <1>7, <1>8, <1>9, <1>10 DEF EnterSeen

\* A turn is appended to the conversation the call is in, and is one more turn spoken.
LEMMA RecordTurnSpeaks ==
  ASSUME StoreInv, OneCaller \in Callers, Sole(OneCaller), SessionTTL > 0,
         NEW agent \in Agents, RecordTurn(OneCaller, agent)
  PROVE  SpeakSeen(agent)
<1> DEFINE o == held[OneCaller]
           s == sessions[o].sid
           n == Len(sessions[o].turns) + 1
<1>1. /\ store' = store /\ o \in Object /\ pc[OneCaller] = "in"
      /\ sessions[o] \in ASession /\ Len(sessions[o].turns) < MaxTurns
      /\ sessions'[o] = Recorded(sessions[o], agent) /\ Len(sessions') = Len(sessions)
      /\ \A p \in Object : p # o => sessions'[p] = sessions[p]
  BY RecordTurnFacts
<1>2. pc'[OneCaller] = "idle"
  BY DEF RecordTurn, Leave, StoreInv, CallersOK
<1>3. s \in DOMAIN store /\ store[s] = o
  BY <1>1 DEF Sole
<1>4. /\ sessions'[o].turns = Append(sessions[o].turns, agent)
      /\ Len(sessions'[o].turns) = n /\ ~Expired(sessions'[o])
  BY <1>1, RecordedFacts, SessionTTLAssumption DEF Expired
<1>5. Len(sessions[o].turns) \in Nat
  BY <1>1, LenProperties DEF ASession
<1>6. In = s /\ In' = NoSid
  BY <1>1, <1>2 DEF In
<1>7. \A t \in DOMAIN store : t # s => store[t] # o /\ store[t] \in Object
  BY DEF StoreInv, DictOK
<1> HIDE DEF o, s
<1>8. ExpiredIds' = ExpiredIds \ {s}
  BY <1>1, <1>3, <1>4, <1>7 DEF ExpiredIds
<1>9. Conv' = [Conv EXCEPT ![s] = Append(@, agent)] /\ s \in DOMAIN Conv
  BY <1>1, <1>3, <1>4, <1>7 DEF Conv
<1>10. \E turn \in Spoken' : turn \notin Spoken /\ Spoken' = Spoken \cup {turn}
  <2>1. Object' = Object /\ n \in 1..MaxTurns
    BY <1>1, <1>5, StoreAssumption DEF Object
  <2>2. \A m \in 1..MaxTurns :
          m <= Len(sessions'[o].turns) <=> m <= Len(sessions[o].turns) \/ m = n
    BY <1>4, <1>5
  <2>3. <<o, n>> \in Spoken'
    BY <1>1, <1>4, <1>5, <2>1 DEF Spoken
  <2>4. <<o, n>> \notin Spoken
    BY <1>5 DEF Spoken
  <2>5. Spoken' = Spoken \cup {<<o, n>>}
    <3>1. ASSUME NEW p \in Object, NEW m \in 1..MaxTurns
          PROVE  <<p, m>> \in Spoken' <=> <<p, m>> \in Spoken \cup {<<o, n>>}
      <4>1. CASE p = o
        BY <1>1, <2>1, <2>2, <4>1 DEF Spoken
      <4>2. CASE p # o
        BY <1>1, <2>1, <4>2 DEF Spoken
      <4>3. QED
        BY <4>1, <4>2
    <3>2. Spoken' \subseteq Object \X (1..MaxTurns)
          /\ Spoken \cup {<<o, n>>} \subseteq Object \X (1..MaxTurns)
      BY <1>1, <2>1 DEF Spoken
    <3>3. QED
      BY <3>1, <3>2
  <2>6. QED
    BY <2>3, <2>4, <2>5
<1>11. QED
  BY <1>6, <1>8, <1>9, <1>10 DEF SpeakSeen

\* Every step of the store's one caller is a step of the sender's view, or none.
LEMMA StepIsSeen ==
  ASSUME NEW main, Callers = {main}, SessionTTL > 0,
         StoreInv, Sole(main), [StoreNext]_storeVars
  PROVE  \/ \E s \in Ids : EnterSeen(s) \/ EndSeen(s)
         \/ \E agent \in Agents : SpeakSeen(agent)
         \/ StaySeen
         \/ In # NoSid /\ In' = NoSid /\ UNCHANGED <<Conv, ExpiredIds, Spoken>>
         \/ /\ ExpiredIds \subseteq ExpiredIds' /\ ExpiredIds' \subseteq DOMAIN Conv
            /\ UNCHANGED <<Conv, In, Spoken>>
         \/ UNCHANGED SeenVars
<1> DEFINE Goal ==
         \/ \E s \in Ids : EnterSeen(s) \/ EndSeen(s)
         \/ \E agent \in Agents : SpeakSeen(agent)
         \/ StaySeen
         \/ In # NoSid /\ In' = NoSid /\ UNCHANGED <<Conv, ExpiredIds, Spoken>>
         \/ /\ ExpiredIds \subseteq ExpiredIds' /\ ExpiredIds' \subseteq DOMAIN Conv
            /\ UNCHANGED <<Conv, In, Spoken>>
         \/ UNCHANGED SeenVars
<1>1. OneCaller = main /\ OneCaller \in Callers
  BY DEF OneCaller
<1>2. ASSUME UNCHANGED <<sessions, store>>,
             pc[main] \notin {"touch", "in"}, pc'[main] \notin {"touch", "in"}
      PROVE  Goal
  BY <1>1, <1>2, SameHeap DEF SeenVars, In
<1>3. ASSUME NEW s \in SessionIds \cup {NoSid}, Ask(main, s)
      PROVE  Goal
  BY <1>2, <1>3 DEF Ask, Goto, StoreInv, CallersOK
<1>4. CASE Fetch(main) \/ FindExpired(main) \/ KeyError(main) \/ GcBegin(main)
           \/ GcLook(main) \/ GcListed(main) \/ GcRuntimeError(main)
  BY <1>2, <1>4 DEF Fetch, FindExpired, KeyError, GcBegin, GcLook, GcListed, GcRuntimeError,
    Leave, Goto, StoreInv, CallersOK
<1>5. CASE FindFresh(main) \/ Resume(main)
  BY <1>1, <1>5, FindFreshEnters, ResumeStays
<1>6. CASE Create(main)
  BY <1>1, <1>6, CreateEnters
<1>7. CASE \E agent \in Agents : RecordTurn(main, agent)
  BY <1>1, <1>7, RecordTurnSpeaks
<1>8. CASE NoTurn(main)
  <2>1. pc[main] = "in" /\ pc'[main] = "idle" /\ UNCHANGED <<sessions, store>>
    BY <1>8 DEF NoTurn, Leave, StoreInv, CallersOK
  <2>2. sessions[held[main]].sid \in Ids /\ NoSid \notin Ids
    BY <2>1, StoreAssumption DEF Sole, StoreInv, DictOK, Ids
  <2>3. In # NoSid /\ In' = NoSid
    BY <1>1, <2>1, <2>2 DEF In
  <2>4. QED
    BY <2>1, <2>3, SameHeap
<1>9. ASSUME NEW s \in DOMAIN store, store' = Without(store, {s}), UNCHANGED sessions,
             pc[main] \notin {"touch", "in"}, pc'[main] \notin {"touch", "in"}
      PROVE  Goal
  <2>1. EndSeen(s)
    BY <1>1, <1>9, WithoutEnds
  <2>2. s \in Ids
    BY DEF StoreInv, DictOK
  <2>3. QED
    BY <2>1, <2>2
<1>10. CASE Evict(main)
  BY <1>9, <1>10 DEF Evict, Goto, StoreInv, CallersOK
<1>11. ASSUME NEW s \in SessionIds, Close(main, s)
       PROVE  Goal
  BY <1>9, <1>11 DEF Close
<1>12. ASSUME NEW s \in Ids, GcDelete(main, s)
       PROVE  Goal
  BY <1>9, <1>12 DEF GcDelete, Leave, StoreInv, CallersOK
<1>13. CASE Tick
  <2>1. UNCHANGED <<store, pc, sid, held, gc>>
    BY <1>13 DEF Tick
  <2>2. Conv' = Conv
    BY <1>13, <2>1, TickFacts DEF Conv, StoreInv, DictOK
  <2>3. Spoken' = Spoken
    BY <1>13, TickFacts DEF Spoken, Object
  <2>4. In' = In
    BY <1>1, <1>13, <2>1, TickFacts DEF In, Sole
  <2>5. ExpiredIds \subseteq ExpiredIds' /\ ExpiredIds' \subseteq DOMAIN Conv
    BY <1>13, <2>1, TickKeepsExpired DEF ExpiredIds, Conv
  <2>6. QED
    BY <2>2, <2>3, <2>4, <2>5
<1>14. CASE UNCHANGED storeVars
  BY <1>1, <1>14, SameHeap DEF storeVars, SeenVars, In
<1>15. QED
  BY <1>3, <1>4, <1>5, <1>6, <1>7, <1>8, <1>10, <1>11, <1>12, <1>13, <1>14
     DEF StoreNext, Call, Gc

\* The store, for one caller and a TTL of at least a tick, implements Conversations:
\* a conversation grows by every turn spoken in it, is found again as it was left,
\* and ends by a close or once it has lapsed, never while a call is in it.
THEOREM ConversationsAreImplemented ==
  ASSUME NEW main, Callers = {main}, SessionTTL > 0
  PROVE  StoreSpec => ImplementsConversations
<1>1. StoreInit => Seen!ConvInit
  <2> SUFFICES ASSUME StoreInit PROVE Seen!ConvInit
    OBVIOUS
  <2>1. OneCaller \in Callers
    BY DEF OneCaller
  <2>2. Conv = <<>> /\ ExpiredIds = {} /\ In = NoSid
    BY <2>1 DEF StoreInit, Conv, ExpiredIds, In
  <2>3. Spoken = {}
    BY EmptySeq DEF StoreInit, Spoken, Object
  <2>4. QED
    BY <2>2, <2>3 DEF Seen!ConvInit, Conv, ExpiredIds, In, Spoken
<1>2. StoreInv /\ Sole(main) /\ [StoreNext]_storeVars => [Seen!ConvNext]_(Seen!convVars)
  <2> SUFFICES ASSUME StoreInv, Sole(main), [StoreNext]_storeVars
               PROVE  [Seen!ConvNext]_(Seen!convVars)
    OBVIOUS
  <2>1. ASSUME NEW s \in Ids, EnterSeen(s)
        PROVE  Seen!Enter(s)
    BY <2>1 DEF EnterSeen, Conv, ExpiredIds, In, Spoken, Seen!Enter
  <2>2. ASSUME NEW s \in Ids, EndSeen(s)
        PROVE  Seen!End(s)
    BY <2>2 DEF EndSeen, Conv, ExpiredIds, In, Spoken, Seen!End
  <2>3. ASSUME NEW agent \in Agents, SpeakSeen(agent)
        PROVE  Seen!Speak(agent)
    BY <2>3 DEF SpeakSeen, Conv, ExpiredIds, In, Spoken, Seen!Speak
  <2>4. CASE StaySeen
    BY <2>4 DEF StaySeen, Conv, ExpiredIds, In, Spoken, Seen!Stay, Seen!ConvNext
  <2>5. CASE In # NoSid /\ In' = NoSid /\ UNCHANGED <<Conv, ExpiredIds, Spoken>>
    BY <2>5 DEF Conv, ExpiredIds, In, Spoken, Seen!Leave, Seen!ConvNext
  <2>6. CASE /\ ExpiredIds \subseteq ExpiredIds' /\ ExpiredIds' \subseteq DOMAIN Conv
             /\ UNCHANGED <<Conv, In, Spoken>>
    BY <2>6 DEF Conv, ExpiredIds, In, Spoken, Seen!TimePasses, Seen!ConvNext
  <2>7. CASE UNCHANGED SeenVars
    BY <2>7 DEF SeenVars, Conv, ExpiredIds, In, Spoken, Seen!convVars
  <2>8. QED
    BY <2>1, <2>2, <2>3, <2>4, <2>5, <2>6, <2>7, StepIsSeen DEF Seen!ConvNext
<1>3. QED
  BY <1>1, <1>2, SoleHolds, PTL DEF StoreSpec, ImplementsConversations, Seen!ConvSpec
=============================================================================
