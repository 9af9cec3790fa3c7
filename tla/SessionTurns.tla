----------------------------- MODULE SessionTurns -----------------------------
(***************************************************************************)
(* The turns of several chat sessions of api-service running at once:      *)
(* LLMAgent.stream_events takes the lock of its session from the           *)
(* ConversationManager's LRU cache, loads the history, runs the pipeline   *)
(* (module AgentTurn, here one step) and stores the turn in SQLite         *)
(* (agent/conversation.py, agent/orchestrator.py, sessions.py).            *)
(*                                                                         *)
(* The coroutines interleave at their awaits.  The history is read and     *)
(* written by worker threads (asyncio.to_thread), which a cancelled        *)
(* coroutine does not take with it.  An asyncio.Lock is named by the turn  *)
(* that created it, and is the queue of the turns that want it, its holder *)
(* first: asyncio hands it over in order of arrival.                       *)
(***************************************************************************)
EXTENDS Naturals, Sequences, FiniteSets, SequencesExt

CONSTANTS
    Session,            \* session ids
    Turn,               \* the chat requests of a run
    SessionOf,          \* the session of each turn
    MaxSessionLocks,    \* ConversationManager(max_session_locks)
    HistoryTurns,       \* SessionStore.max_turns
    MayLeaveSaving,     \* may a client leave while its turn is being stored?
    NoTurn              \* no turn, no lock

ASSUME SessionsAssumption ==
    /\ SessionOf \in [Turn -> Session]
    /\ MaxSessionLocks \in Nat \ {0}
    /\ HistoryTurns \in Nat \ {0}
    /\ MayLeaveSaving \in BOOLEAN
    /\ NoTurn \notin Turn

VARIABLES
    locks,      \* _LRULockCache._locks
    order,      \* _LRULockCache._access_order
    queue,      \* of each asyncio.Lock: its holder, then its waiters
    lockOf,     \* the lock a turn has fetched
    pc,         \* where a turn is suspended
    context,    \* the history a turn has loaded
    writes,     \* turns whose writing thread has yet to commit
    turns,      \* table session_turns: the stored turns of each session
    lapsed      \* sessions that lost a lock in use, or a client while saving

cacheVars == <<locks, order>>
vars == <<cacheVars, queue, lockOf, pc, context, writes, turns, lapsed>>

Lock == Turn
Places == {"new", "locking", "running", "saving", "ended"}

TypeOK ==
    /\ locks \in [Session -> Lock \cup {NoTurn}]
    /\ order \in Seq(Session)
    /\ queue \in [Lock -> Seq(Turn)]
    /\ lockOf \in [Turn -> Lock \cup {NoTurn}]
    /\ pc \in [Turn -> Places]
    /\ context \in [Turn -> Seq(Turn)]
    /\ writes \subseteq Turn
    /\ turns \in [Session -> Seq(Turn)]
    /\ lapsed \subseteq Session

Init ==
    /\ locks = [s \in Session |-> NoTurn]
    /\ order = << >>
    /\ queue = [l \in Lock |-> << >>]
    /\ lockOf = [t \in Turn |-> NoTurn]
    /\ pc = [t \in Turn |-> "new"]
    /\ context = [t \in Turn |-> << >>]
    /\ writes = {}
    /\ turns = [s \in Session |-> << >>]
    /\ lapsed = {}

-----------------------------------------------------------------------------
(* The lock cache.                                                         *)

(* list.remove(e), and a waiter leaving: e occurs once.                    *)
Without(s, e) == RemoveAt(s, CHOOSE i \in 1..Len(s) : s[i] = e)

(* A lock some turn holds or waits for.                                    *)
InUse(l) == l # NoTurn /\ queue[l] # << >>

(* get_or_create when the session has a lock: it becomes the most recently *)
(* used one.                                                               *)
ReuseLock(s) ==
    /\ order' = Append(Without(order, s), s)
    /\ UNCHANGED <<locks, lapsed>>

(* get_or_create when it has none: turn t's lock enters the cache, and the *)
(* least recently used one leaves it when there are too many.              *)
CreateLockNoEviction(s, t) ==      \* mutant: _evict_one is never called
    /\ locks' = [locks EXCEPT ![s] = t]
    /\ order' = Append(order, s)
    /\ UNCHANGED lapsed
CreateLock(s, t) ==
    LET grown  == Append(order, s)
        oldest == Head(grown)
    IN
    IF Len(grown) > MaxSessionLocks
      THEN /\ order' = Tail(grown)
           /\ locks' = [locks EXCEPT ![s] = t, ![oldest] = NoTurn]
           /\ lapsed' = lapsed \cup
                  {x \in {oldest} : x # s /\ InUse(locks[x])}
      ELSE /\ order' = grown
           /\ locks' = [locks EXCEPT ![s] = t]
           /\ UNCHANGED lapsed

(* The lock a turn of session s gets: the cached one, or one of its own.   *)
LockForFresh(s, t) == t            \* mutant: the cached lock is not looked up
LockFor(s, t) == IF locks[s] # NoTurn THEN locks[s] ELSE t

(* get_session_lock, then the lock is queued for: there is no await        *)
(* between the two.                                                        *)
Arrive(t) ==
    LET s == SessionOf[t]
        l == LockFor(s, t)
    IN
    /\ pc[t] = "new"
    /\ pc' = [pc EXCEPT ![t] = "locking"]
    /\ IF locks[s] # NoTurn THEN ReuseLock(s) ELSE CreateLock(s, t)
    /\ lockOf' = [lockOf EXCEPT ![t] = l]
    /\ queue' = [queue EXCEPT ![l] = Append(@, t)]
    /\ UNCHANGED <<context, writes, turns>>

-----------------------------------------------------------------------------
(* One turn.                                                               *)

Holds(t) == lockOf[t] # NoTurn /\ queue[lockOf[t]] # << >>
                               /\ Head(queue[lockOf[t]]) = t

(* The turn leaves the queue of its lock, from wherever it is in it.       *)
ReleaseHeld(t) ==           \* mutant: a cancelled waiter stays in the queue
    queue' = IF Holds(t) THEN [queue EXCEPT ![lockOf[t]] = Tail(@)] ELSE queue
Release(t) == queue' = [queue EXCEPT ![lockOf[t]] = Without(@, t)]

(* TurnContext.build loads the history once the lock is held.              *)
ReadHistory(t) ==
    /\ pc[t] = "locking"
    /\ Holds(t)
    /\ context' = [context EXCEPT ![t] = turns[SessionOf[t]]]
    /\ pc' = [pc EXCEPT ![t] = "running"]
    /\ UNCHANGED <<cacheVars, queue, lockOf, writes, turns, lapsed>>

(* SaveHistoryStage hands the turn to a writing thread and awaits it.      *)
SubmitSave(t) ==
    /\ pc[t] = "running"
    /\ pc' = [pc EXCEPT ![t] = "saving"]
    /\ writes' = writes \cup {t}
    /\ UNCHANGED <<cacheVars, queue, lockOf, context, turns, lapsed>>

(* append_turn in its thread: insert and trim in one transaction, which    *)
(* may fail as a whole.                                                    *)
LastOf(s, n) ==
    IF Len(s) <= n THEN s ELSE SubSeq(s, Len(s) - n + 1, Len(s))

NotTrimmed(s, n) == s       \* mutant: _trim_session is never called
Trimmed(s, n) == LastOf(s, n)

CommitSave(t) ==
    /\ t \in writes
    /\ writes' = writes \ {t}
    /\ turns' = [turns EXCEPT ![SessionOf[t]] =
                     Trimmed(Append(@, t), HistoryTurns)]
    /\ UNCHANGED <<cacheVars, queue, lockOf, pc, context, lapsed>>
SaveFails(t) ==
    /\ t \in writes
    /\ writes' = writes \ {t}
    /\ UNCHANGED <<cacheVars, queue, lockOf, pc, context, turns, lapsed>>

(* The generator ends: its write is done, or the pipeline or the read of   *)
(* the history raised.                                                     *)
FinishEarly(t) ==           \* mutant: the write is not awaited
    /\ pc[t] \in {"running", "saving"}
    /\ pc' = [pc EXCEPT ![t] = "ended"]
    /\ Release(t)
    /\ UNCHANGED <<cacheVars, lockOf, context, writes, turns, lapsed>>
Finish(t) ==
    /\ \/ pc[t] = "locking" /\ Holds(t)
       \/ pc[t] = "running"
       \/ pc[t] = "saving" /\ t \notin writes
    /\ pc' = [pc EXCEPT ![t] = "ended"]
    /\ Release(t)
    /\ UNCHANGED <<cacheVars, lockOf, context, writes, turns, lapsed>>

(* The client disconnects and the generator is cancelled where it waits;   *)
(* a writing thread carries on without it.                                 *)
Disconnect(t) ==
    /\ \/ pc[t] \in {"locking", "running"}
       \/ pc[t] = "saving" /\ t \in writes /\ MayLeaveSaving
    /\ pc' = [pc EXCEPT ![t] = "ended"]
    /\ Release(t)
    /\ lapsed' = lapsed \cup {s \in {SessionOf[t]} : t \in writes}
    /\ UNCHANGED <<cacheVars, lockOf, context, writes, turns>>

(* The process dies and starts again: what SQLite committed remains.       *)
Restart ==
    /\ writes # {} \/ \E t \in Turn : pc[t] \notin {"new", "ended"}
    /\ locks' = [s \in Session |-> NoTurn]
    /\ order' = << >>
    /\ queue' = [l \in Lock |-> << >>]
    /\ lockOf' = [t \in Turn |-> NoTurn]
    /\ pc' = [t \in Turn |-> IF pc[t] = "new" THEN "new" ELSE "ended"]
    /\ context' = [t \in Turn |-> << >>]
    /\ writes' = {}
    /\ lapsed' = {}
    /\ UNCHANGED turns

Proceed(t) ==
    \/ ReadHistory(t)
    \/ SubmitSave(t)
    \/ CommitSave(t)
    \/ SaveFails(t)
    \/ Finish(t)

Next ==
    \/ \E t \in Turn : Arrive(t) \/ Proceed(t) \/ Disconnect(t)
    \/ Restart

Spec == Init /\ [][Next]_vars

(* The event loop and the worker threads keep running what is ready to     *)
(* run, and a turn under way ends (TurnEnds of AgentTurn).                 *)
FairSpec == Spec /\ \A t \in Turn : WF_vars(Proceed(t))

-----------------------------------------------------------------------------
(* Properties.                                                             *)

(* The cached locks and the order of their use name the same sessions, and *)
(* never more than the cache may hold.                                     *)
CacheConsistent ==
    /\ Len(order) <= MaxSessionLocks
    /\ IsInjective(order)
    /\ ToSet(order) = {s \in Session : locks[s] # NoTurn}

(* A turn works on its session from the reading of the history to the      *)
(* commit of the turn.                                                     *)
Working(t) == pc[t] = "running" \/ t \in writes

(* Two turns of a session work at once only after the cache dropped the    *)
(* session's lock while it was in use, or a client left during the save.   *)
OverlapOnlyAfterLapse ==
    \A t, u \in Turn :
        t # u /\ SessionOf[t] = SessionOf[u] /\ Working(t) /\ Working(u) =>
            SessionOf[t] \in lapsed

(* Otherwise what is stored after a history is a turn that saw all of it.  *)
StoredOnItsContext ==
    [][ \A t \in Turn :
          t \in writes /\ turns[SessionOf[t]] # turns'[SessionOf[t]] =>
              context[t] = turns[SessionOf[t]] \/ SessionOf[t] \in lapsed ]_vars

(* The store keeps the last HistoryTurns turns of a session, each once.    *)
StoredTurns ==
    \A s \in Session :
        /\ Len(turns[s]) <= HistoryTurns
        /\ IsInjective(turns[s])
        /\ \A t \in ToSet(turns[s]) : SessionOf[t] = s

(* The turns of a session are one after the other, each answered from what *)
(* is stored before it, unless the session has lapsed; what is stored is   *)
(* whole turns of the session in either case.                              *)
SerialUnlessLapsed ==
    [](OverlapOnlyAfterLapse /\ StoredTurns) /\ StoredOnItsContext

(* A turn that arrived ends, whoever leaves the queue before it.           *)
EveryTurnEnds == \A t \in Turn : pc[t] = "locking" ~> pc[t] = "ended"

-----------------------------------------------------------------------------
(* The inductive invariant: why a session that has not lapsed is serial.   *)

(* A turn is queued on its own lock, once, from its arrival to its end.    *)
Queued(t) == pc[t] \in {"locking", "running", "saving"}
QueueDiscipline ==
    /\ \A l \in Lock : IsInjective(queue[l])
    /\ \A t \in Turn : \A l \in Lock :
         t \in ToSet(queue[l]) <=> Queued(t) /\ lockOf[t] = l

(* Every queued turn of such a session is on the cached lock, and a lock   *)
(* is cached for the session of the turn that created it.                  *)
OnCachedLock ==
    /\ \A s \in Session : locks[s] # NoTurn =>
         SessionOf[locks[s]] = s /\ pc[locks[s]] # "new"
    /\ \A t \in Turn :
         /\ Queued(t) => lockOf[t] # NoTurn /\ pc[lockOf[t]] # "new"
         /\ Queued(t) /\ SessionOf[t] \notin lapsed =>
              lockOf[t] = locks[SessionOf[t]]

(* A turn at work holds its lock, and nothing is stored under its feet.    *)
WorkingHolds ==
    /\ \A t \in Turn : pc[t] \in {"running", "saving"} => Holds(t)
    /\ \A t \in writes : pc[t] = "saving" \/ SessionOf[t] \in lapsed
    /\ \A t \in Turn : Working(t) /\ SessionOf[t] \notin lapsed =>
         context[t] = turns[SessionOf[t]]

IInv ==
    TypeOK /\ CacheConsistent /\ QueueDiscipline /\ OnCachedLock /\ WorkingHolds

-----------------------------------------------------------------------------
(* With a lock for every session, and clients that stay while their turn   *)
(* is being stored, the sessions are serial.                               *)
Active(s) == {t \in Turn : SessionOf[t] = s /\ Working(t)}
ActiveTurn ==
    [s \in Session |->
       IF Active(s) = {} THEN NoTurn ELSE CHOOSE t \in Active(s) : TRUE]
ActiveView ==
    [s \in Session |->
       IF Active(s) = {} THEN << >> ELSE context[CHOOSE t \in Active(s) : TRUE]]
Serial == INSTANCE SerialSessions WITH active <- ActiveTurn, view <- ActiveView
ImplementsSerial == Serial!Spec
=============================================================================
