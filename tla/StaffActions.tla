----------------------------- MODULE StaffActions -----------------------------
(***************************************************************************)
(* Who acts on users: the owner's claim (app/repositories/owner.py), the   *)
(* block that keeps a user from the Mini App (app/api/miniapp/             *)
(* dependencies.py), the role of an actor and its permissions              *)
(* (app/services/admin_access.py), and the operations of the panel, one by *)
(* one or in bulk (app/api/owner/users.py).                                *)
(*                                                                         *)
(* A request reads in several transactions and keeps what it read: whether *)
(* the user is blocked, then the role, then for each target the owner and  *)
(* the target's rows.  UserControl has the operations that overlap on one  *)
(* user; here are those that make or unmake an actor, and messages.        *)
(*                                                                         *)
(* The middleware of the bot, outer to updates, looks for the user on the  *)
(* Update, which has none, and hands every update on: it changes nothing.  *)
(***************************************************************************)
EXTENDS Naturals, FiniteSets, WrittenRows

CONSTANTS
    Persons,
    AllowedOwner,       \* OWNER_TELEGRAM_ID
    NoPerson,
    StaffCalls,         \* places for requests in progress
    MaxCalls,           \* bound: requests, claims of the owner among them
    MaxTries            \* bound: attempts of blocked users

ASSUME StaffAssumption ==
    /\ AllowedOwner \in Persons /\ NoPerson \notin Persons
    /\ IsFiniteSet(StaffCalls)
    /\ MaxCalls \in Nat /\ MaxTries \in Nat

VARIABLES
    owner,              \* bot_owner
    claims,             \* claims that have found no owner and not inserted theirs
    rows,               \* the restriction and the staff row of each person
    calls,
    letters,            \* how many deliveries are pending, sent and failed
    tries,              \* attempt_count of the blocked access events of a window
    asked               \* requests so far

staffVars == <<owner, claims, rows, calls, letters, tries, asked>>

StaffRoles == {"admin", "moderator", "support"}
ActorRoles == StaffRoles \union {"owner"}
StaffOps == {"block", "unblock", "set_role", "remove_role", "message"}

\* role is kept when a role is removed; a person who never had one is inactive.
PersonRow == [blocked : BOOLEAN, role : StaffRoles, active : BOOLEAN]
Nobody == [blocked |-> FALSE, role |-> "support", active |-> FALSE]

\* bulk: several targets (left) under one actor.  role is the actor's, when it is
\* resolved; target and read the person at hand; seen what a refused request has read.
Call == [step : {"idle", "admitted", "resolved", "checked", "pending", "barred"},
         by : Persons, op : StaffOps, grant : StaffRoles, bulk : BOOLEAN, left : SUBSET Persons,
         role : ActorRoles, target : Persons, read : PersonRow, seen : Nat]
NoCall == [step |-> "idle", by |-> AllowedOwner, op |-> "message", grant |-> "support",
           bulk |-> FALSE, left |-> {}, role |-> "support", target |-> AllowedOwner,
           read |-> Nobody, seen |-> 0]

StaffTypeOK ==
    /\ owner \in {NoPerson, AllowedOwner}
    /\ claims \in 0..MaxCalls /\ asked \in 0..MaxCalls
    /\ rows \in [Persons -> PersonRow]
    /\ calls \in [StaffCalls -> Call]
    /\ letters \in [{"pending", "sent", "failed"} -> Nat]
    /\ tries \in [Persons -> 0..MaxTries]

StaffInit ==
    /\ owner = NoPerson
    /\ claims = 0 /\ asked = 0
    /\ rows = [p \in Persons |-> Nobody]
    /\ calls = [r \in StaffCalls |-> NoCall]
    /\ letters = [pending |-> 0, sent |-> 0, failed |-> 0]
    /\ tries = [p \in Persons |-> 0]

-----------------------------------------------------------------------------
(* The owner. *)

\* claim_owner finds no owner and the id that is allowed; other claims change nothing.
ReadClaim ==
    /\ owner = NoPerson /\ asked < MaxCalls
    /\ claims' = claims + 1 /\ asked' = asked + 1
    /\ UNCHANGED <<owner, rows, calls, letters, tries>>

\* The insert, or the IntegrityError of one that comes second.
InsertClaim ==
    /\ claims > 0
    /\ claims' = claims - 1
    /\ owner' = IF owner = NoPerson THEN AllowedOwner ELSE owner
    /\ UNCHANGED <<rows, calls, letters, tries, asked>>

-----------------------------------------------------------------------------
(* A request until its operation. *)

\* The request goes on as call, and ends with NoCall.
GoesOn(r, call) == calls' = [calls EXCEPT ![r] = call]

\* An endpoint of one user; others are of several.  (A bulk of one asks for more permissions
\* than the endpoint, and is otherwise the same.)
Single(on) == \E p \in on : on = {p}

\* get_miniapp_user of one who is not blocked
Admit(r, u, op, grant, on) ==
    /\ calls[r].step = "idle" /\ ~rows[u].blocked
    /\ on # {} /\ asked < MaxCalls /\ asked' = asked + 1
    /\ op \in {"set_role", "remove_role"} => Single(on)
    /\ op # "set_role" => grant = "support"
    /\ GoesOn(r, [NoCall EXCEPT !.step = "admitted", !.by = u, !.op = op, !.grant = grant,
                             !.bulk = ~Single(on), !.left = on])
    /\ UNCHANGED <<owner, claims, rows, letters, tries>>

\* get_miniapp_user of one who is: record_blocked_access reads the event of the window.
TurnAway(r, u) ==
    /\ calls[r].step = "idle" /\ rows[u].blocked
    /\ GoesOn(r, [NoCall EXCEPT !.step = "barred", !.by = u, !.seen = tries[u]])
    /\ UNCHANGED <<owner, claims, rows, letters, tries, asked>>

\* ... and inserts it, which fails when it is there by now, or writes the count it read plus one.
RecordAttempt(r) ==
    LET c == calls[r] IN
    /\ c.step = "barred" /\ c.seen < MaxTries
    /\ tries' = [tries EXCEPT ![c.by] = IF c.seen = 0 /\ @ # 0 THEN @ ELSE c.seen + 1]
    /\ GoesOn(r, NoCall)
    /\ UNCHANGED <<owner, claims, rows, letters, asked>>

\* resolve_admin_actor
Resolve(r) ==
    LET u == calls[r].by IN
    /\ calls[r].step = "admitted"
    /\ GoesOn(r, IF u = owner THEN [calls[r] EXCEPT !.step = "resolved", !.role = "owner"]
               ELSE IF rows[u].active
                    THEN [calls[r] EXCEPT !.step = "resolved", !.role = rows[u].role]
                    ELSE NoCall)
    /\ UNCHANGED <<owner, claims, rows, letters, tries, asked>>

Permissions(role) ==
    CASE role = "owner" -> {"staff.manage", "users.block", "users.message", "bulk.block", "bulk.tag_message"}
      [] role = "admin" -> {"users.block", "users.message", "bulk.block", "bulk.tag_message"}
      [] role = "moderator" -> {"users.block", "users.message", "bulk.tag_message"}
      [] role = "support" -> {"users.message"}

RequiredFor(op, bulk) ==
    CASE op \in {"block", "unblock"} -> {"users.block"} \union (IF bulk THEN {"bulk.block"} ELSE {})
      [] op = "message" -> {"users.message"} \union (IF bulk THEN {"bulk.tag_message"} ELSE {})
      [] OTHER -> {"staff.manage"}

-----------------------------------------------------------------------------
(* The operation on one target after another. *)

\* Faulty: the owner is a target like any other.
AnyTarget(target, known) == TRUE

\* _require_mutable_target
MutableTarget(target, known) == target # known

\* What an operation finds in the target's row that lets it go on.
Applies(op, read) ==
    CASE op = "block" -> ~read.blocked
      [] op = "unblock" -> read.blocked
      [] op = "remove_role" -> read.active
      [] OTHER -> TRUE

\* create_message_delivery and finish_message_delivery
Delivery == letters' = [letters EXCEPT !.pending = @ + 1]
Finished(status) == letters' = [letters EXCEPT !.pending = @ - 1, ![status] = @ + 1]

\* The reads and checks for the next target.
Check(r, target) ==
    LET c == calls[r] IN
    /\ c.step = "resolved" /\ target \in c.left
    /\ RequiredFor(c.op, c.bulk) \subseteq Permissions(c.role)
    /\ c.op # "message" => MutableTarget(target, owner) /\ Applies(c.op, rows[target])
    /\ GoesOn(r, [c EXCEPT !.step = IF c.op = "message" THEN "pending" ELSE "checked",
                            !.left = @ \ {target}, !.target = target,
                            !.read = IF c.op = "message" THEN @ ELSE rows[target]])
    /\ IF c.op = "message" THEN Delivery ELSE UNCHANGED letters
    /\ UNCHANGED <<owner, claims, rows, tries, asked>>

\* An error with one target, any of those above among them: it is reported and the
\* loop of a bulk goes on.
SkipTarget(r, target) ==
    /\ calls[r].step = "resolved" /\ target \in calls[r].left
    /\ GoesOn(r, [calls[r] EXCEPT !.left = @ \ {target}])
    /\ UNCHANGED <<owner, claims, rows, letters, tries, asked>>

\* The row as block_user, unblock_user, set_role or remove_role leaves it.
Applied(c, now) ==
    CASE c.op \in {"block", "unblock"} ->
           [now EXCEPT !.blocked = Written(c.op = "block", c.read.blocked, @)]
      [] c.op = "set_role" ->
           [now EXCEPT !.role = Written(c.grant, c.read.role, @),
                       !.active = Written(TRUE, c.read.active, @)]
      [] OTHER -> [now EXCEPT !.active = Written(FALSE, c.read.active, @)]

NextTarget(c) == [c EXCEPT !.step = "resolved", !.target = NoCall.target, !.read = NoCall.read]

Operate(r) ==
    LET c == calls[r] IN
    /\ c.step = "checked"
    /\ rows' = [rows EXCEPT ![c.target] = Applied(c, @)]
    /\ GoesOn(r, NextTarget(c))
    /\ UNCHANGED <<owner, claims, letters, tries, asked>>

\* The message is sent; the answer of Telegram decides the status.
Send(r) ==
    /\ calls[r].step = "pending"
    /\ \E status \in {"sent", "failed"} : Finished(status)
    /\ GoesOn(r, NextTarget(calls[r]))
    /\ UNCHANGED <<owner, claims, rows, tries, asked>>

\* The last answer, an error that ends the request, or a process that dies: a
\* delivery may stay pending.
End(r) ==
    /\ calls[r].step # "idle"
    /\ GoesOn(r, NoCall)
    /\ UNCHANGED <<owner, claims, rows, letters, tries, asked>>

StaffNext ==
    \/ ReadClaim \/ InsertClaim
    \/ \E r \in StaffCalls :
          \/ \E u \in Persons, op \in StaffOps, grant \in StaffRoles, on \in SUBSET Persons :
                Admit(r, u, op, grant, on)
          \/ \E u \in Persons : TurnAway(r, u)
          \/ RecordAttempt(r) \/ Resolve(r)
          \/ \E target \in Persons : Check(r, target) \/ SkipTarget(r, target)
          \/ Operate(r) \/ Send(r) \/ End(r)

StaffSpec == StaffInit /\ [][StaffNext]_staffVars

-----------------------------------------------------------------------------
(* Properties. *)

\* The owner is never blocked and never on the staff, whenever the claim comes among the
\* requests of others: "The singleton Owner is immutable and cannot be blocked, demoted,
\* or targeted by bulk destructive actions" (docs/superpowers/plans/
\* 2026-07-24-owner-user-control.md:13).  A request checks the owner who is known when
\* it reads its target (app/repositories/user_control/base.py:121), so that the property
\* rests on nobody having a role before the claim.
OwnerUntouchable == owner # NoPerson => ~rows[owner].blocked /\ ~rows[owner].active

=============================================================================
