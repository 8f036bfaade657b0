------------------------------ MODULE KeyedLock ------------------------------
(***************************************************************************)
(* KeyedAsyncLock (app/services/keyed_lock.py): one asyncio.Lock per key,  *)
(* made when a task first asks for the key and dropped when the last task  *)
(* that asked for it has gone.  Whoever awards the XP of a message or of a *)
(* reaction holds the key of the message.                                  *)
(*                                                                         *)
(* The guard is never held across an await, so entering and leaving are    *)
(* one step each; a task can be cancelled while it waits for the key.  A   *)
(* lock that is released wakes its first waiter, which takes it when it    *)
(* runs next: until then the lock is free and the queue is not empty.      *)
(***************************************************************************)
EXTENDS Naturals, FiniteSets, Sequences, SequencesExt

CONSTANTS
    Tasks,              \* tasks of one process
    LockKeys,           \* the keys they ask for
    Locks,              \* the lock objects: one may be used again when nobody refers to it
    NoLock

ASSUME KeyedLockAssumption == NoLock \notin Locks /\ IsFiniteSet(Tasks)

VARIABLES
    entryOf,            \* entryOf[k]: the lock in _entries, NoLock if there is none
    holder,             \* holder[l]: the tasks inside lock l
    queue,              \* queue[l]: the tasks that wait for l
    users,              \* users[l]: how many tasks have asked for l and not gone
    asked,              \* asked[t]: the lock task t has asked for
    wanted              \* wanted[t]: the key it has asked for

keyedVars == <<entryOf, holder, queue, users, asked, wanted>>

Inside(t) == asked[t] # NoLock /\ t \in holder[asked[t]]
Queued(t) == asked[t] # NoLock /\ t \notin holder[asked[t]]

KeyedTypeOK ==
    /\ entryOf \in [LockKeys -> Locks \union {NoLock}]
    /\ holder \in [Locks -> SUBSET Tasks]
    /\ \A l \in Locks : /\ queue[l] \in Seq(Tasks) /\ IsInjective(queue[l])
                        /\ users[l] = Cardinality({t \in Tasks : asked[t] = l})
    /\ asked \in [Tasks -> Locks \union {NoLock}]
    /\ wanted \in [Tasks -> LockKeys]

KeyedInit ==
    /\ entryOf = [k \in LockKeys |-> NoLock]
    /\ holder = [l \in Locks |-> {}]
    /\ queue = [l \in Locks |-> << >>]
    /\ users = [l \in Locks |-> 0]
    /\ asked = [t \in Tasks |-> NoLock]
    /\ wanted \in [Tasks -> LockKeys]

Unused(l) == /\ \A k \in LockKeys : entryOf[k] # l
             /\ \A t \in Tasks : asked[t] # l

\* The lock of key k: that of its entry, or a new one.
LockFor(k, l) == IF entryOf[k] = NoLock THEN Unused(l) ELSE l = entryOf[k]

\* hold: the guarded part, and the lock at once if it is free and nobody queues.
Hold(t, k, l) ==
    /\ asked[t] = NoLock
    /\ LockFor(k, l)
    /\ entryOf' = [entryOf EXCEPT ![k] = l]
    /\ users' = [users EXCEPT ![l] = @ + 1]
    /\ asked' = [asked EXCEPT ![t] = l]
    /\ wanted' = [wanted EXCEPT ![t] = k]
    /\ IF holder[l] = {} /\ queue[l] = << >>
         THEN holder' = [holder EXCEPT ![l] = {t}] /\ UNCHANGED queue
         ELSE queue' = [queue EXCEPT ![l] = Append(@, t)] /\ UNCHANGED holder

\* The first waiter runs and takes the lock it was woken for.
Resume(t) ==
    /\ Queued(t)
    /\ LET l == asked[t] IN
       /\ Head(queue[l]) = t
       /\ holder[l] = {}
       /\ holder' = [holder EXCEPT ![l] = {t}]
       /\ queue' = [queue EXCEPT ![l] = Tail(@)]
    /\ UNCHANGED <<entryOf, users, asked, wanted>>

\* Faulty: the entry is dropped as soon as its lock is free.
ForgetFree(t, l, inside) ==
    /\ users' = [users EXCEPT ![l] = @ - 1]
    /\ entryOf' = IF inside = {} THEN [entryOf EXCEPT ![wanted[t]] = NoLock] ELSE entryOf

\* The finally of hold: the entry goes with its last user.
Forget(t, l, inside) ==
    /\ users' = [users EXCEPT ![l] = @ - 1]
    /\ entryOf' = IF users[l] = 1 /\ inside = {}
                    THEN [entryOf EXCEPT ![wanted[t]] = NoLock] ELSE entryOf

LeaveLock(t) ==
    /\ Inside(t)
    /\ holder' = [holder EXCEPT ![asked[t]] = {}]
    /\ Forget(t, asked[t], {})
    /\ asked' = [asked EXCEPT ![t] = NoLock]
    /\ UNCHANGED <<queue, wanted>>

\* CancelledError while the task waits for the lock.
CancelWait(t) ==
    /\ Queued(t)
    /\ queue' = [queue EXCEPT ![asked[t]] = RemoveFirst(@, t)]
    /\ Forget(t, asked[t], holder[asked[t]])
    /\ asked' = [asked EXCEPT ![t] = NoLock]
    /\ UNCHANGED <<holder, wanted>>

KeyedNext ==
    \E t \in Tasks :
       \/ \E k \in LockKeys, l \in Locks : Hold(t, k, l)
       \/ Resume(t)
       \/ LeaveLock(t)
       \/ CancelWait(t)

KeyedSpec == KeyedInit /\ [][KeyedNext]_keyedVars

-----------------------------------------------------------------------------
(* Properties. *)

\* No two tasks are inside for one key, although the lock of a key is thrown
\* away and made anew, and although a task may wait for a lock that is free: the
\* entry stays as long as somebody has asked for it (keyed_lock.py:36).
OneHolderPerKey ==
    \A t, o \in Tasks : Inside(t) /\ Inside(o) /\ wanted[t] = wanted[o] => t = o

=============================================================================
