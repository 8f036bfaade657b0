---------------------------- MODULE SchedulerLease ----------------------------
(***************************************************************************)
(* The lease in Redis under which a scheduled job runs                     *)
(* (app/operations/leases.py): SET NX PX with a fresh token, a task that   *)
(* renews it while the job goes on, and a release; both scripts compare    *)
(* the token first.                                                        *)
(*                                                                         *)
(* A call is an HTTP request of the scheduler to one instance of the       *)
(* service.  A renewal that succeeds changes nothing the model tells       *)
(* apart, and neither does a call that is refused the lease or finds no    *)
(* Redis: it answers "skipped".                                            *)
(***************************************************************************)
EXTENDS Naturals, FiniteSets

CONSTANTS
    Calls,              \* requests of the scheduler
    Leases,             \* names of leases, one per job and bucket of time
    Free,               \* the key does not exist
    Gone,               \* a token whose call has ended
    NoLease

ASSUME LeaseAssumption ==
    /\ IsFiniteSet(Calls)
    /\ Free \notin Calls /\ Gone \notin Calls /\ Free # Gone
    /\ NoLease \notin Leases

VARIABLES
    key,                \* Redis: key[l], the call whose token is stored
    lease,              \* lease[p]: the lease under which call p runs its job
    acquired,           \* acquired[p]: the flag of p's LeaseHandle
    lapses              \* lapses[l]: how often l expired under a call at work

leaseVars == <<key, lease, acquired, lapses>>

LeaseTypeOK ==
    /\ key \in [Leases -> Calls \union {Free, Gone}]
    /\ lease \in [Calls -> Leases \union {NoLease}]
    /\ acquired \in [Calls -> BOOLEAN]
    /\ lapses \in [Leases -> Nat]

Runs(l) == {p \in Calls : lease[p] = l}

LeaseInit ==
    /\ key = [l \in Leases |-> Free]
    /\ lease = [p \in Calls |-> NoLease]
    /\ acquired = [p \in Calls |-> FALSE]
    /\ lapses = [l \in Leases |-> 0]

\* Faulty: SET without NX.
AcquireAnyway(p, l) ==
    /\ lease[p] = NoLease
    /\ key' = [key EXCEPT ![l] = p]
    /\ lease' = [lease EXCEPT ![p] = l]
    /\ acquired' = [acquired EXCEPT ![p] = TRUE]
    /\ UNCHANGED lapses

\* acquire: SET NX PX.
Acquire(p, l) ==
    /\ lease[p] = NoLease
    /\ key[l] = Free
    /\ key' = [key EXCEPT ![l] = p]
    /\ lease' = [lease EXCEPT ![p] = l]
    /\ acquired' = [acquired EXCEPT ![p] = TRUE]
    /\ UNCHANGED lapses

\* SET succeeds and its answer is lost: the call takes the lease for not acquired.
AcquireUnanswered(l) ==
    /\ key[l] = Free
    /\ key' = [key EXCEPT ![l] = Gone]
    /\ UNCHANGED <<lease, acquired, lapses>>

\* Redis fails under a renewal, or the key has another token: _keep_alive ends and
\* the job goes on.
RenewFails(p) ==
    /\ acquired[p]
    /\ acquired' = [acquired EXCEPT ![p] = FALSE]
    /\ UNCHANGED <<key, lease, lapses>>

\* The TTL ends: of a token nobody renews, or of a call that was held up for longer.
Expire(l) ==
    /\ key[l] # Free
    /\ key' = [key EXCEPT ![l] = Free]
    /\ lapses' = IF key[l] \in Calls THEN [lapses EXCEPT ![l] = @ + 1] ELSE lapses
    /\ UNCHANGED <<lease, acquired>>

\* Faulty: DEL without a look at the token.
ReleaseAnyToken(p, answered) ==
    /\ lease[p] # NoLease
    /\ key' = [key EXCEPT ![lease[p]] =
                 IF answered /\ acquired[p] THEN Free ELSE IF @ = p THEN Gone ELSE @]
    /\ lease' = [lease EXCEPT ![p] = NoLease]
    /\ acquired' = [acquired EXCEPT ![p] = FALSE]
    /\ UNCHANGED lapses

\* Faulty: the task that renews the token is not cancelled.
ReleaseStillRenewing(p, answered) ==
    /\ lease[p] # NoLease
    /\ key' = [key EXCEPT ![lease[p]] = IF @ = p /\ answered /\ acquired[p] THEN Free ELSE @]
    /\ lease' = [lease EXCEPT ![p] = NoLease]
    /\ acquired' = [acquired EXCEPT ![p] = FALSE]
    /\ UNCHANGED lapses

\* __aexit__: the handle releases what it still takes for its own, and only a key
\* with its token is deleted.  When Redis fails, or the process has died instead,
\* the token stays until it expires.
Release(p, answered) ==
    /\ lease[p] # NoLease
    /\ key' = [key EXCEPT ![lease[p]] =
                 IF @ = p THEN IF answered /\ acquired[p] THEN Free ELSE Gone ELSE @]
    /\ lease' = [lease EXCEPT ![p] = NoLease]
    /\ acquired' = [acquired EXCEPT ![p] = FALSE]
    /\ UNCHANGED lapses

LeaseNext ==
    \/ \E l \in Leases : AcquireUnanswered(l) \/ Expire(l)
    \/ \E p \in Calls : RenewFails(p)
    \/ \E p \in Calls, l \in Leases : Acquire(p, l)
    \/ \E p \in Calls, answered \in BOOLEAN : Release(p, answered)

LeaseSpec == LeaseInit /\ [][LeaseNext]_leaseVars

-----------------------------------------------------------------------------

\* The service runs a job once per bucket at a time: a second call at work under the
\* same lease takes a lease that expired under the first, each further one another.
ExclusiveUnlessLapsed ==
    \A l \in Leases : Cardinality(Runs(l) \ {key[l]}) <= lapses[l]

\* A call that lost its lease to another never takes the other's: the key of a call
\* at work goes away only when it expires or that call ends (LeaseHandle.release).
OwnTokenOnly ==
    [][\A p \in Calls, l \in Leases :
          key[l] = p /\ lease[p] = l /\ key'[l] # p =>
             lease'[p] # l \/ lapses'[l] > lapses[l]]_leaseVars

===============================================================================
