------------------------------ MODULE SessionStore ------------------------------
(***************************************************************************)
(* SessionStore (pact_bridge/session_store.py) and the threads inside it.  *)
(* The class takes no lock: get_or_create tests, fetches, asks the age,    *)
(* touches, deletes and inserts in steps of their own, and so does gc,     *)
(* which looks at one entry after the other and then deletes one after the *)
(* other.  With one caller the operations run one after the other.         *)
(***************************************************************************)
EXTENDS SessionEntries, FiniteSets

CONSTANTS
  Callers,     \* the threads that use the store
  SessionIds,  \* the ids senders and maintenance name
  UuidIds,     \* the ids uuid4 may generate
  NoSid,       \* session_id = None
  Agents,      \* the agents a turn may be recorded for
  MaxSessions, \* bound on the Session objects ever created
  MaxTurns     \* bound on the turns of one session

ASSUME StoreAssumption ==
  /\ NoSid \notin SessionIds \cup UuidIds
  /\ SessionIds \cap UuidIds = {}
  /\ IsFiniteSet(Callers)
  /\ MaxSessions \in Nat /\ MaxTurns \in Nat

VARIABLES
  sessions, \* heap: every Session object created so far
  store,    \* self._sessions: id -> object
  pc,       \* where each caller is
  sid,      \* the session_id each caller asked for
  held,     \* the Session object each caller has fetched or was given
  gc        \* the gc each caller is in: the dict's size when it began, the ids it has
            \* looked at, and the expired ones it has yet to delete

storeVars == <<sessions, store, pc, sid, held, gc>>

Object == 1..Len(sessions)
Ids == SessionIds \cup UuidIds
None == 0
NoGc == [size |-> 0, seen |-> {}, doomed |-> {}]

Labels == {"idle", "fetch", "test", "touch", "evict", "create", "in", "scan", "collect"}

\* Where a call may still come to create a session.
MayCreate == {"fetch", "test", "evict", "create"}

StoreTypeOK ==
  /\ Len(sessions) <= MaxSessions
  /\ \A o \in Object :
       /\ sessions[o].sid \in Ids
       /\ sessions[o].turns \in Seq(Agents) /\ Len(sessions[o].turns) <= MaxTurns
       /\ sessions[o].idle \in 0..(SessionTTL + 1)
  /\ DOMAIN store \subseteq Ids
  /\ \A s \in DOMAIN store : store[s] \in Object /\ sessions[store[s]].sid = s
  /\ pc \in [Callers -> Labels]
  /\ sid \in [Callers -> Ids \cup {NoSid}]
  /\ held \in [Callers -> Object \cup {None}]
  /\ gc \in [Callers -> [size : Nat, seen : SUBSET Ids, doomed : SUBSET Ids]]

StoreInit ==
  /\ sessions = <<>>
  /\ store = <<>>
  /\ pc = [c \in Callers |-> "idle"]
  /\ sid = [c \in Callers |-> NoSid]
  /\ held = [c \in Callers |-> None]
  /\ gc = [c \in Callers |-> NoGc]

-----------------------------------------------------------------------------
\* The end of a call, by return or by an exception.
Leave(c) ==
  /\ pc' = [pc EXCEPT ![c] = "idle"]
  /\ sid' = [sid EXCEPT ![c] = NoSid]
  /\ held' = [held EXCEPT ![c] = None]
  /\ gc' = [gc EXCEPT ![c] = NoGc]

Goto(c, label) == pc' = [pc EXCEPT ![c] = label]

\* The uuids no session has had.
Unused == UuidIds \ {sessions[o].sid : o \in Object}

\* get_or_create: session_id and session_id in self._sessions?
Ask(c, s) ==
  /\ pc[c] = "idle"
  /\ Len(sessions) + Cardinality({d \in Callers : pc[d] \in MayCreate}) < MaxSessions
  /\ s = NoSid => Cardinality(Unused) > Cardinality({d \in Callers : pc[d] = "create"})
  /\ sid' = [sid EXCEPT ![c] = s]
  /\ Goto(c, IF s \in DOMAIN store THEN "fetch" ELSE "create")
  /\ UNCHANGED <<sessions, store, held, gc>>

\* self._sessions[session_id], if no other thread has deleted it meanwhile.
Fetch(c) ==
  /\ pc[c] = "fetch" /\ sid[c] \in DOMAIN store
  /\ held' = [held EXCEPT ![c] = store[sid[c]]]
  /\ Goto(c, "test")
  /\ UNCHANGED <<sessions, store, sid, gc>>

\* The age test, of the object, whether or not it is still in the store.
FindFresh(c) ==
  /\ pc[c] = "test" /\ ~Expired(sessions[held[c]])
  /\ Goto(c, "touch")
  /\ UNCHANGED <<sessions, store, sid, held, gc>>

FindExpired(c) ==
  /\ pc[c] = "test" /\ Expired(sessions[held[c]])
  /\ held' = [held EXCEPT ![c] = None]
  /\ Goto(c, "evict")
  /\ UNCHANGED <<sessions, store, sid, gc>>

\* Mutant of Resume: the session is entered again with its new time.
ResumeRestores(c) ==
  /\ pc[c] = "touch"
  /\ sessions' = [sessions EXCEPT ![held[c]] = Touched(@)]
  /\ store' = Entry(store, sid[c], held[c])
  /\ Goto(c, "in")
  /\ UNCHANGED <<sid, held, gc>>

\* The session is touched and returned.
Resume(c) ==
  /\ pc[c] = "touch"
  /\ sessions' = [sessions EXCEPT ![held[c]] = Touched(@)]
  /\ Goto(c, "in")
  /\ UNCHANGED <<store, sid, held, gc>>

\* del self._sessions[session_id], whichever session that names by now.
Evict(c) ==
  /\ pc[c] = "evict" /\ sid[c] \in DOMAIN store
  /\ store' = Without(store, {sid[c]})
  /\ Goto(c, "create")
  /\ UNCHANGED <<sessions, sid, held, gc>>

\* The fetch or a del finds the key gone.
KeyError(c) ==
  /\ \/ pc[c] \in {"fetch", "evict"} /\ sid[c] \notin DOMAIN store
     \/ pc[c] = "collect" /\ ~(gc[c].doomed \subseteq DOMAIN store)
  /\ Leave(c)
  /\ UNCHANGED <<sessions, store>>

\* Mutant of Create: the session is entered under the id asked for, not the new one.
CreateUnderAskedId(c) ==
  /\ pc[c] = "create"
  /\ \E id \in (IF sid[c] = NoSid THEN Unused ELSE {sid[c]}) :
       /\ sessions' = Append(sessions, NewSession(id))
       /\ store' = Entry(store, sid[c], Len(sessions) + 1)
  /\ held' = [held EXCEPT ![c] = Len(sessions) + 1]
  /\ Goto(c, "in")
  /\ UNCHANGED <<sid, gc>>

\* Mutant of Create: the session is handed out but not entered in the store.
CreateUnstored(c) ==
  /\ pc[c] = "create"
  /\ \E id \in (IF sid[c] = NoSid THEN Unused ELSE {sid[c]}) :
       sessions' = Append(sessions, NewSession(id))
  /\ held' = [held EXCEPT ![c] = Len(sessions) + 1]
  /\ Goto(c, "in")
  /\ UNCHANGED <<store, sid, gc>>

Create(c) ==
  /\ pc[c] = "create"
  /\ \E id \in (IF sid[c] = NoSid THEN Unused ELSE {sid[c]}) :
       /\ sessions' = Append(sessions, NewSession(id))
       /\ store' = Entry(store, id, Len(sessions) + 1)
  /\ held' = [held EXCEPT ![c] = Len(sessions) + 1]
  /\ Goto(c, "in")
  /\ UNCHANGED <<sid, gc>>

\* What the pipeline does with the session it was given: one turn, or none.
RecordTurn(c, agent) ==
  /\ pc[c] = "in" /\ Len(sessions[held[c]].turns) < MaxTurns
  /\ sessions' = [sessions EXCEPT ![held[c]] = Recorded(@, agent)]
  /\ Leave(c)
  /\ UNCHANGED store

NoTurn(c) ==
  /\ pc[c] = "in"
  /\ Leave(c)
  /\ UNCHANGED <<sessions, store>>

\* close(session_id) of a known session, in the step of its del.
Close(c, s) ==
  /\ pc[c] = "idle" /\ s \in DOMAIN store
  /\ store' = Without(store, {s})
  /\ UNCHANGED <<sessions, pc, sid, held, gc>>

\* Mutant of Collectable: gc collects a tick early.
AlmostCollectable(s) == sessions[store[s]].idle + 1 >= SessionTTL

Collectable(s) == Expired(sessions[store[s]])

\* gc() begins to list the expired ids (of an empty store there are none).
GcBegin(c) ==
  /\ pc[c] = "idle" /\ DOMAIN store # {}
  /\ gc' = [gc EXCEPT ![c].size = Cardinality(DOMAIN store)]
  /\ Goto(c, "scan")
  /\ UNCHANGED <<sessions, store, sid, held>>

\* The comprehension goes on as long as the dict has the size it began with.
SameSize(c) == Cardinality(DOMAIN store) = gc[c].size

GcLook(c) ==
  /\ pc[c] = "scan" /\ SameSize(c)
  /\ \E s \in DOMAIN store \ gc[c].seen :
       gc' = [gc EXCEPT ![c].seen = @ \cup {s},
                        ![c].doomed = IF Collectable(s) THEN @ \cup {s} ELSE @]
  /\ UNCHANGED <<sessions, store, pc, sid, held>>

GcListed(c) ==
  /\ pc[c] = "scan" /\ SameSize(c) /\ DOMAIN store \subseteq gc[c].seen
  /\ IF gc[c].doomed = {} THEN Leave(c) ELSE Goto(c, "collect") /\ UNCHANGED <<sid, held, gc>>
  /\ UNCHANGED <<sessions, store>>

\* "dictionary changed size during iteration"
GcRuntimeError(c) ==
  /\ pc[c] = "scan" /\ ~SameSize(c)
  /\ Leave(c)
  /\ UNCHANGED <<sessions, store>>

\* The listed ids are deleted one by one, whichever session they name by now.
GcDelete(c, s) ==
  /\ pc[c] = "collect" /\ s \in gc[c].doomed /\ s \in DOMAIN store
  /\ store' = Without(store, {s})
  /\ IF gc[c].doomed = {s} THEN Leave(c)
     ELSE gc' = [gc EXCEPT ![c].doomed = @ \ {s}] /\ UNCHANGED <<pc, sid, held>>
  /\ UNCHANGED sessions

Tick ==
  /\ sessions' = [o \in Object |-> Older(sessions[o])]
  /\ UNCHANGED <<store, pc, sid, held, gc>>

Call(c) ==
  \/ \E s \in SessionIds \cup {NoSid} : Ask(c, s)
  \/ Fetch(c) \/ FindFresh(c) \/ FindExpired(c) \/ Resume(c) \/ Evict(c) \/ Create(c)
  \/ KeyError(c)
  \/ (\E agent \in Agents : RecordTurn(c, agent)) \/ NoTurn(c)

Gc(c) ==
  GcBegin(c) \/ GcLook(c) \/ GcListed(c) \/ GcRuntimeError(c) \/ \E s \in Ids : GcDelete(c, s)

StoreNext ==
  \/ \E c \in Callers : Call(c) \/ Gc(c) \/ \E s \in SessionIds : Close(c, s)
  \/ Tick

StoreSpec == StoreInit /\ [][StoreNext]_storeVars

-----------------------------------------------------------------------------
\* get_or_create "Return an existing session by session_id": a session within its
\* TTL stays the one its id names until it is closed; its turns are never cut off
\* by a second session of the same id or by a collection.
LiveSessionsAreKept ==
  [][\A s \in DOMAIN store :
       ~Expired(sessions[store[s]]) /\ ~(\E c \in Callers : Close(c, s)) =>
         s \in DOMAIN store' /\ store'[s] = store[s]]_storeVars

\* A session that has left the store never comes back: a message that names its id
\* later is given a new one, even when another had fetched it before it was closed,
\* collected or replaced (get_or_create returns it to that one, and does not enter it).
ClosedStaysClosed ==
  [][\A s \in DOMAIN store' :
       store'[s] \in Object => s \in DOMAIN store /\ store[s] = store'[s]]_storeVars

OneCaller == CHOOSE c \in Callers : TRUE

Seen == INSTANCE Conversations WITH
  Nobody <- NoSid,
  conv   <- [s \in DOMAIN store |-> sessions[store[s]].turns],
  lapsed <- {s \in DOMAIN store : Expired(sessions[store[s]])},
  in     <- IF pc[OneCaller] \in {"touch", "in"} THEN sessions[held[OneCaller]].sid ELSE NoSid,
  spoken <- {t \in Object \X (1..MaxTurns) : t[2] <= Len(sessions[t[1]].turns)}

\* What a sender sees of a store with one caller is a set of Conversations: every
\* turn lands in the conversation its message named, which ends only between calls.
ImplementsConversations == Seen!ConvSpec
=============================================================================
