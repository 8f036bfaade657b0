------------------------------ MODULE AccessCache ------------------------------
(***************************************************************************)
(* The cache in front of Telegram's getChatMember                          *)
(* (app/services/telegram_access_cache.py) and the checks that read it     *)
(* (app/services/telegram_access.py, app/api/miniapp/access.py): entries   *)
(* that are fresh, then stale, then gone; the least recently used is       *)
(* evicted; callers that miss the same key share one load.                 *)
(*                                                                         *)
(* A key is a user, or the bot, in a group; its value is whether there is  *)
(* a membership, on which the time an entry stays fresh depends, and which *)
(* may change at any time.  Time passes while loads run, but not while a   *)
(* caller is ready to go on: the event loop has it go on at once.          *)
(***************************************************************************)
EXTENDS Naturals, FiniteSets, Sequences, SequencesExt, FiniteSetsExt

CONSTANTS
    Callers, CacheKeys,
    FreshFor,           \* FreshFor[value]: MEMBER_POSITIVE_TTL and MEMBER_NEGATIVE_TTL
    StaleFor,           \* STALE_GRACE
    MaxEntries,
    LastTime,           \* bound
    MaxCancels,         \* bound: callers that are cancelled
    NoKey, NoTime

ASSUME CacheAssumption ==
    /\ FreshFor \in [BOOLEAN -> Nat] /\ StaleFor \in Nat
    /\ MaxEntries \in Nat \ {0} /\ LastTime \in Nat /\ MaxCancels \in Nat
    /\ NoKey \notin CacheKeys /\ NoTime \notin Nat

VARIABLES
    time,
    entries,            \* entries[k]: the value and the time it was stored
    order,              \* keys with an entry, the most recently used last
    inflight,           \* inflight[k]: the task in _inflight
    call,               \* call[c]: what caller c waits for
    answer,             \* history: how the call ended that the last step answered
    cancels             \* callers cancelled so far (bounded by MaxCancels)

cacheVars == <<time, entries, order, inflight, call, answer, cancels>>

CacheTimes == 0..LastTime
Entry == [kept : BOOLEAN, value : BOOLEAN, at : CacheTimes]
NoEntry == [kept |-> FALSE, value |-> FALSE, at |-> 0]
Task == [state : {"none", "running", "done", "failed", "cancelled"}, value : BOOLEAN, at : CacheTimes]
NoTask == [state |-> "none", value |-> FALSE, at |-> 0]
\* The key, the time of asking, that of a stale entry found then, whether c created the
\* task, and the result of the task as c is woken with it.
Call == [key : CacheKeys \union {NoKey}, asked : CacheTimes, stale : CacheTimes \union {NoTime},
         created : BOOLEAN, result : Task]
NoCall == [key |-> NoKey, asked |-> 0, stale |-> NoTime, created |-> FALSE, result |-> NoTask]
\* How a call ended, and how long before the question its value was true.
Answer == [how : {"none", "fresh", "stale", "failed", "raised"}, age : Nat]
NoAnswer == [how |-> "none", age |-> 0]

CacheTypeOK ==
    /\ time \in CacheTimes
    /\ entries \in [CacheKeys -> Entry]
    /\ order \in Seq(CacheKeys) /\ Len(order) <= MaxEntries
    /\ ToSet(order) = {k \in CacheKeys : entries[k].kept}
    /\ inflight \in [CacheKeys -> Task]
    /\ call \in [Callers -> Call]
    /\ answer \in Answer
    /\ cancels \in 0..MaxCancels

CacheInit ==
    /\ time = 0
    /\ entries = [k \in CacheKeys |-> NoEntry]
    /\ order = <<>>
    /\ inflight = [k \in CacheKeys |-> NoTask]
    /\ call = [c \in Callers |-> NoCall]
    /\ answer = NoAnswer
    /\ cancels = 0

Asked(c) == call[c].key
Waiting(c) == Asked(c) # NoKey /\ call[c].result.state = "none"
Ready(c) == Asked(c) # NoKey /\ call[c].result.state # "none"

CacheTick ==
    /\ time < LastTime
    /\ ~\E c \in Callers : Ready(c)
    /\ time' = time + 1
    /\ answer' = NoAnswer
    /\ UNCHANGED <<entries, order, inflight, call, cancels>>

FreshUntil(e) == e.at + FreshFor[e.value]
StaleUntil(e) == FreshUntil(e) + StaleFor
Fresh(k) == entries[k].kept /\ time <= FreshUntil(entries[k])
Stale(k) == entries[k].kept /\ time <= StaleUntil(entries[k])

Kept(e) == IF e.kept THEN e.at ELSE NoTime
Used(k) == Append(RemoveFirst(order, k), k)
Answered(how, asked, at) ==
    answer' = [how |-> how, age |-> IF at < asked THEN asked - at ELSE 0]
End(c, how, at) ==
    /\ Answered(how, call[c].asked, at)
    /\ call' = [call EXCEPT ![c] = NoCall]

\* get_or_load, an entry that is fresh
Hit(c, k) ==
    /\ Asked(c) = NoKey
    /\ Fresh(k)
    /\ order' = Used(k)
    /\ Answered("fresh", time, entries[k].at)
    /\ UNCHANGED <<time, entries, inflight, call, cancels>>

\* Faulty: an entry that is over stays in the cache.
MissKeepingExpired(c, k) ==
    /\ Asked(c) = NoKey
    /\ ~Fresh(k)
    /\ inflight' = IF inflight[k].state = "none"
                   THEN [inflight EXCEPT ![k] = [NoTask EXCEPT !.state = "running"]] ELSE inflight
    /\ call' = [call EXCEPT ![c] = [key |-> k, asked |-> time, stale |-> Kept(entries[k]),
                                    created |-> inflight[k].state = "none",
                                    result |-> IF inflight[k].state = "running"
                                               THEN NoTask ELSE inflight[k]]]
    /\ answer' = NoAnswer
    /\ UNCHANGED <<time, entries, order, cancels>>

\* get_or_load, up to the await: an entry that is over is dropped, and the caller joins
\* the task in flight, done or not, or creates one.
Miss(c, k) ==
    /\ Asked(c) = NoKey
    /\ ~Fresh(k)
    /\ entries' = IF Stale(k) THEN entries ELSE [entries EXCEPT ![k] = NoEntry]
    /\ order' = IF Stale(k) THEN order ELSE RemoveFirst(order, k)
    /\ inflight' = IF inflight[k].state = "none"
                   THEN [inflight EXCEPT ![k] = [NoTask EXCEPT !.state = "running"]] ELSE inflight
    /\ call' = [call EXCEPT ![c] = [key |-> k, asked |-> time, stale |-> Kept(entries'[k]),
                                    created |-> inflight[k].state = "none",
                                    result |-> IF inflight[k].state = "running"
                                               THEN NoTask ELSE inflight[k]]]
    /\ answer' = NoAnswer
    /\ UNCHANGED <<time, cancels>>

\* The task ends, and all who wait for it are woken.
EndTask(k, state) ==
    \E value \in BOOLEAN :
       LET task == IF state = "done" THEN [state |-> state, value |-> value, at |-> time]
                   ELSE [NoTask EXCEPT !.state = state]
       IN  /\ inflight' = [inflight EXCEPT ![k] = task]
           /\ call' = [c \in Callers |-> IF Waiting(c) /\ Asked(c) = k
                                         THEN [call[c] EXCEPT !.result = task] ELSE call[c]]

\* _load_member
Load(k) ==
    /\ inflight[k].state = "running"
    /\ \E state \in {"done", "failed"} : EndTask(k, state)
    /\ answer' = NoAnswer
    /\ UNCHANGED <<time, entries, order, cancels>>

Remain(c) ==
    IF call[c].created THEN [inflight EXCEPT ![Asked(c)] = NoTask] ELSE inflight

\* Faulty: one entry too many.
EvictLate(keys) == SubSeq(keys, IF Len(keys) > MaxEntries + 1 THEN 2 ELSE 1, Len(keys))

\* _store: the least recently used goes when there is no room.
Evict(keys) == SubSeq(keys, IF Len(keys) > MaxEntries THEN 2 ELSE 1, Len(keys))

\* get_or_load, behind the await: every caller stores the value.
Store(c) ==
    LET k == Asked(c)
        kept == Evict(Used(k))
    IN  /\ Ready(c) /\ call[c].result.state = "done"
        /\ inflight' = Remain(c)
        /\ order' = kept
        /\ entries' = [e \in CacheKeys |->
                         IF e \notin ToSet(kept) THEN NoEntry
                         ELSE IF e = k THEN [kept |-> TRUE, value |-> call[c].result.value, at |-> time]
                         ELSE entries[e]]
        /\ End(c, "fresh", call[c].result.at)
        /\ UNCHANGED <<time, cancels>>

\* Faulty: the failed task stays in _inflight.
FallBackOnly(c) ==
    LET k == Asked(c)
        at == IF Stale(k) THEN entries[k].at ELSE call[c].stale
    IN  /\ Ready(c) /\ call[c].result.state = "failed"
        /\ order' = IF Stale(k) THEN Used(k) ELSE order
        /\ IF at # NoTime THEN End(c, "stale", at) ELSE End(c, "failed", time)
        /\ UNCHANGED <<time, entries, inflight, cancels>>

\* except Exception: the stale entry there is now, or was when c asked.
FallBack(c) ==
    LET k == Asked(c)
        at == IF Stale(k) THEN entries[k].at ELSE call[c].stale
    IN  /\ Ready(c) /\ call[c].result.state = "failed"
        /\ inflight' = Remain(c)
        /\ order' = IF Stale(k) THEN Used(k) ELSE order
        /\ IF at # NoTime THEN End(c, "stale", at) ELSE End(c, "failed", time)
        /\ UNCHANGED <<time, entries, cancels>>

\* CancelledError is no Exception: nothing is taken out of _inflight.
Raise(c) ==
    /\ Ready(c) /\ call[c].result.state = "cancelled"
    /\ End(c, "raised", time)
    /\ UNCHANGED <<time, entries, order, inflight, cancels>>

\* The request of caller c is cancelled, and with it the task it waits for.
Cancel(c) ==
    /\ cancels < MaxCancels
    /\ cancels' = cancels + 1
    /\ \/ Waiting(c) /\ EndTask(Asked(c), "cancelled") /\ answer' = NoAnswer
       \/ Ready(c) /\ End(c, "raised", time) /\ UNCHANGED inflight
    /\ UNCHANGED <<time, entries, order>>

\* invalidate_user, invalidate_group, clear: each key they pop.  They pop all of theirs
\* under the lock; one by one is more than they do, since others may step in between.
Invalidate(k) ==
    /\ entries' = [entries EXCEPT ![k] = NoEntry]
    /\ order' = RemoveFirst(order, k)
    /\ answer' = NoAnswer
    /\ UNCHANGED <<time, inflight, call, cancels>>

CallerStep(c) == Store(c) \/ FallBack(c) \/ Raise(c)

CacheNext ==
    \/ CacheTick
    \/ \E k \in CacheKeys : Load(k) \/ Invalidate(k)
    \/ \E c \in Callers :
          \/ \E k \in CacheKeys : Hit(c, k) \/ Miss(c, k)
          \/ CallerStep(c) \/ Cancel(c)

CacheSpec == CacheInit /\ [][CacheNext]_cacheVars

-----------------------------------------------------------------------------

Longest == Max({FreshFor[value] : value \in BOOLEAN})

\* An answer called fresh was true within the longest time to live before the question,
\* a stale one within the grace behind that: unless a caller was cancelled, whose task
\* then stays in flight with its old value (telegram_access_cache.py:115).
AnswersCurrent ==
    cancels = 0 =>
       /\ answer.how = "fresh" => answer.age <= Longest
       /\ answer.how = "stale" => answer.age <= Longest + StaleFor

\* A task in flight is taken out again, whether it fails or not, so that the key can
\* be loaded anew: unless a caller was cancelled (telegram_access_cache.py:91).
InflightEnds ==
    \A k \in CacheKeys : inflight[k].state # "none" ~> inflight[k].state = "none" \/ cancels > 0
===============================================================================
