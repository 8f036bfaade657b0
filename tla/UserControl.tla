----------------------------- MODULE UserControl -----------------------------
(***************************************************************************)
(* What administrators do to a user, and the audit log of it               *)
(* (app/repositories/user_control/restrictions.py, staff.py,               *)
(* notes_tags.py; one by one or in bulk, app/api/owner/users.py).          *)
(*                                                                         *)
(* A request takes the time of its entry of the log, and then opens a      *)
(* transaction that reads the row it is about and writes it at the commit, *)
(* with the entry.  Nothing locks the row in between.  SQLAlchemy writes   *)
(* the attributes whose value differs from the one that was read, on the   *)
(* row as it is by then; a row that has been inserted meanwhile lets an    *)
(* insert fail.  The log is shown by the times of its entries (base.py),   *)
(* which are all different here.                                           *)
(*                                                                         *)
(* The user is not the owner, and every actor has the permissions.  Texts  *)
(* are left out: reasons, and of the note all but whether there is one.    *)
(***************************************************************************)
EXTENDS Naturals, FiniteSets, WrittenRows

CONSTANTS
    AdminRequests,
    Roles,
    Tags,
    MaxTags,            \* 10 in add_tag
    MaxRequests,        \* bound: requests made
    None                \* no row, no role, no entry

ASSUME ControlAssumption ==
    /\ MaxTags \in Nat /\ MaxRequests \in Nat
    /\ Tags \intersect {"block", "staff"} = {}
    /\ None \notin Roles /\ None \notin BOOLEAN
    /\ None \notin {"blocked", "unblocked", "role_set", "role_removed", "added", "removed"}

VARIABLES
    db,                 \* the rows of the user
    log,                \* the latest entry on the block, on the role and on each tag
    request,            \* the requests in progress, with the rows they have read
    clock,              \* requests made so far (bounded), and the time of the last
    written,            \* history: the time of the entry that was committed last
    stale               \* history: the last commit on the role had read another is_active

controlVars == <<db, log, request, clock, written, stale>>

Flags == {None} \union BOOLEAN
\* blocked: is_blocked of user_restrictions; role and active: of admin_staff.
ControlRows == [blocked : Flags, role : Roles \union {None}, active : BOOLEAN, note : BOOLEAN, tags : SUBSET Tags]
NoRows == [blocked |-> None, role |-> None, active |-> FALSE, note |-> FALSE, tags |-> {}]

Subjects == {"block", "staff"} \union Tags
Words == {None, "blocked", "unblocked", "role_set", "role_removed", "added", "removed"}
Entry == [at : Nat, what : Words]

\* The argument of an operation that has none is None.
Operations ==
    ({"block", "unblock", "remove_role"} \X {None})
      \union ({"set_role"} \X Roles)
      \union ({"add_tag", "remove_tag"} \X Tags)
      \union ({"set_note"} \X BOOLEAN)
Request == [op : {o[1] : o \in Operations}, arg : {o[2] : o \in Operations},
            at : {"begun", "read"}, stamp : Nat, read : ControlRows]

ControlTypeOK ==
    /\ db \in ControlRows
    /\ log \in [Subjects -> Entry]
    /\ \A r \in AdminRequests : Cardinality(request[r]) <= 1 /\ \A q \in request[r] : q \in Request
    /\ clock \in 0..MaxRequests
    /\ written \in [Subjects -> Nat]
    /\ stale \in BOOLEAN

ControlInit ==
    /\ db = NoRows
    /\ log = [c \in Subjects |-> [at |-> 0, what |-> None]]
    /\ request = [r \in AdminRequests |-> {}]
    /\ clock = 0
    /\ written = [c \in Subjects |-> 0]
    /\ stale = FALSE

\* Faulty: a user may be blocked again.
AlwaysPermitted(op, arg, read) ==
    CASE op = "unblock" -> read.blocked = TRUE
      [] op = "remove_role" -> read.active
      [] op = "add_tag" -> arg \in read.tags \/ Cardinality(read.tags) < MaxTags
      [] OTHER -> TRUE

\* What a request finds that lets it go on.
Permitted(op, arg, read) ==
    CASE op = "block" -> read.blocked # TRUE
      [] op = "unblock" -> read.blocked = TRUE
      [] op = "remove_role" -> read.active
      [] op = "add_tag" -> arg \in read.tags \/ Cardinality(read.tags) < MaxTags
      [] OTHER -> TRUE

\* A request comes, and takes the time of its entry.
Stamp(r, op, arg) ==
    /\ request[r] = {}
    /\ clock < MaxRequests /\ clock' = clock + 1
    /\ request' = [request EXCEPT ![r] = {[op |-> op, arg |-> arg, at |-> "begun", stamp |-> clock',
                                           read |-> NoRows]}]
    /\ UNCHANGED <<db, log, written, stale>>

\* The first statements of its transaction, up to its checks.
Read(r) ==
    \E q \in request[r] :
       /\ q.at = "begun"
       /\ Permitted(q.op, q.arg, db)
       /\ request' = [request EXCEPT ![r] = {[q EXCEPT !.at = "read", !.read = db]}]
       /\ UNCHANGED <<db, log, clock, written, stale>>

CommitRequest(r, q) ==
    /\ q \in request[r] /\ q.at = "read"
    /\ request' = [request EXCEPT ![r] = {}]
    /\ UNCHANGED clock

\* An entry is shown before those of a later time.
AddEntry(c, at, what) ==
    /\ log' = IF at > log[c].at THEN [log EXCEPT ![c] = [at |-> at, what |-> what]] ELSE log
    /\ written' = [written EXCEPT ![c] = at]

\* block_user, unblock_user
WriteBlock(r) ==
    \E q \in request[r] :
       LET blocked == q.op = "block" IN
       /\ q.op \in {"block", "unblock"}
       /\ CommitRequest(r, q)
       /\ q.read.blocked = None => db.blocked = None
       /\ db' = [db EXCEPT !.blocked = Written(blocked, q.read.blocked, @)]
       /\ AddEntry("block", q.stamp, IF blocked THEN "blocked" ELSE "unblocked")
       /\ UNCHANGED stale

\* set_role
SetRole(r) ==
    \E q \in request[r] :
       /\ q.op = "set_role"
       /\ CommitRequest(r, q)
       /\ q.read.role = None => db.role = None
       /\ db' = [db EXCEPT !.role = Written(q.arg, q.read.role, @),
                           !.active = Written(TRUE, q.read.active, @)]
       /\ AddEntry("staff", q.stamp, "role_set")
       /\ stale' = (q.read.active # db.active)

\* remove_role
RemoveRole(r) ==
    \E q \in request[r] :
       /\ q.op = "remove_role"
       /\ CommitRequest(r, q)
       /\ db' = [db EXCEPT !.active = Written(FALSE, q.read.active, @)]
       /\ AddEntry("staff", q.stamp, "role_removed")
       /\ stale' = (q.read.active # db.active)

\* set_note: an insert, a deletion, or an update of a row that must still be there.
\* Its entry is not among those modelled.
SetNote(r) ==
    \E q \in request[r] :
       /\ q.op = "set_note"
       /\ CommitRequest(r, q)
       /\ q.arg => q.read.note = db.note
       /\ db' = [db EXCEPT !.note = IF q.arg \/ q.read.note THEN q.arg ELSE @]
       /\ UNCHANGED <<log, written, stale>>

\* add_tag: there is nothing to write when the tag was there.
AddTag(r) ==
    \E q \in request[r] :
       /\ q.op = "add_tag"
       /\ CommitRequest(r, q)
       /\ IF q.arg \in q.read.tags THEN UNCHANGED <<db, log, written>>
          ELSE /\ q.arg \notin db.tags
               /\ db' = [db EXCEPT !.tags = @ \union {q.arg}]
               /\ AddEntry(q.arg, q.stamp, "added")
       /\ UNCHANGED stale

\* remove_tag: one DELETE, and an error if it deleted nothing.
RemoveTag(r) ==
    \E q \in request[r] :
       /\ q.op = "remove_tag"
       /\ CommitRequest(r, q)
       /\ q.arg \in db.tags
       /\ db' = [db EXCEPT !.tags = @ \ {q.arg}]
       /\ AddEntry(q.arg, q.stamp, "removed")
       /\ UNCHANGED stale

\* An error, a conflict with a row inserted meanwhile among them, or a process that dies.
Refuse(r) ==
    /\ request[r] # {}
    /\ request' = [request EXCEPT ![r] = {}]
    /\ UNCHANGED <<db, log, clock, written, stale>>

ControlNext ==
    \E r \in AdminRequests :
       \/ \E o \in Operations : Stamp(r, o[1], o[2])
       \/ Read(r)
       \/ WriteBlock(r) \/ SetRole(r) \/ RemoveRole(r)
       \/ SetNote(r) \/ AddTag(r) \/ RemoveTag(r)
       \/ Refuse(r)

ControlSpec == ControlInit /\ [][ControlNext]_controlVars

-----------------------------------------------------------------------------
(* Properties. *)

\* The entry that the log shows last on c is the one that was committed last.
InOrder(c) == log[c].at = written[c]

\* What a user may do is what the log shows last, although requests overlap and write
\* over rows they have not locked: blocked when that entry blocks, tagged when it adds
\* the tag, staff when it sets a role (restrictions.py:78, staff.py:30,
\* notes_tags.py:61).  But for requests that commit in another order than that of their
\* times, and for a set_role that had read the is_active that remove_role cleared: in both
\* the log is not the history that the design takes it for
\* (2026-07-24-owner-user-control-design.md:123).
AuditExplainsAccess ==
    /\ InOrder("block") => (db.blocked = TRUE) = (log["block"].what = "blocked")
    /\ \A t \in Tags : InOrder(t) => (t \in db.tags) = (log[t].what = "added")
    /\ InOrder("staff") /\ db.active => log["staff"].what = "role_set"
    /\ InOrder("staff") /\ ~stale => db.active = (log["staff"].what = "role_set")

=============================================================================
