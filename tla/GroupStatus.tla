----------------------------- MODULE GroupStatus -----------------------------
(***************************************************************************)
(* The status of the bot in a group, as ChatGroup keeps it: what a message *)
(* makes of it (app/services/group_status_sync.py), the update of          *)
(* Telegram on its own membership (app/bot/routers/onboarding.py), both by *)
(* upsert_group (app/repositories/activity/settings.py), and what the Mini *)
(* App learns from getChatMember (app/api/miniapp/groups.py).              *)
(*                                                                         *)
(* A message reads the row in one transaction and writes it in another.    *)
(* Each transaction reads the row without a lock, and SQLAlchemy writes    *)
(* the attributes that differ from those it has read.  Updates may be late *)
(* and in any order, and the answer of getChatMember comes from a cache:   *)
(* a report may be of any status.                                          *)
(***************************************************************************)
EXTENDS Naturals, FiniteSets

CONSTANTS
    Handlers,           \* updates and requests in progress
    Privileged,         \* PRIVILEGED_BOT_STATUSES
    Active,             \* ACTIVE_BOT_STATUSES
    Statuses,
    Member,             \* the status "member"
    Unknown,            \* there is no row
    MaxWrites           \* bound: commits

ASSUME StatusAssumption ==
    /\ Privileged \subseteq Active /\ Active \subseteq Statuses
    /\ Member \in Active \ Privileged
    /\ Unknown \notin Statuses
    /\ MaxWrites \in Nat

VARIABLES
    group,              \* the row: bot_status and is_active
    handler,            \* what a handler is about to do
    writes,
    authority,          \* history: the last status an update or getChatMember wrote
    overtaken,          \* history: handlers under which the row they had read has changed
    doubtful            \* history: one of those has written since the last such status

statusVars == <<group, handler, writes, authority, overtaken, doubtful>>

GroupRow == [status : Statuses \union {Unknown}, active : BOOLEAN]
NoGroupRow == [status |-> Unknown, active |-> FALSE]

\* at: the statement that is next; new: the status to write; read: the row it has read.
Handler == [kind : {"none", "message", "membership", "access"}, at : {"lookup", "read", "write"},
            new : Statuses, read : GroupRow]
Idle == [kind |-> "none", at |-> "lookup", new |-> Member, read |-> NoGroupRow]

StatusTypeOK ==
    /\ group \in GroupRow
    /\ handler \in [Handlers -> Handler]
    /\ writes \in 0..MaxWrites
    /\ authority \in Statuses \union {Unknown}
    /\ overtaken \subseteq Handlers
    /\ doubtful \in BOOLEAN

StatusInit ==
    /\ group = NoGroupRow
    /\ handler = [h \in Handlers |-> Idle]
    /\ writes = 0
    /\ authority = Unknown
    /\ overtaken = {}
    /\ doubtful = FALSE

\* Handlers that have read the row: a message does so before its second transaction.
Informed == {h \in Handlers : \/ handler[h].at = "write"
                              \/ handler[h].kind = "message" /\ handler[h].at = "read"}

\* A message comes, a my_chat_member update, or a snapshot of resolve_group_access.
Arrive(h, kind, status) ==
    /\ handler[h].kind = "none"
    /\ handler' = [handler EXCEPT ![h] = [Idle EXCEPT !.kind = kind, !.new = status,
                                            !.at = IF kind = "message" THEN "lookup" ELSE "read"]]
    /\ UNCHANGED <<group, writes, authority, overtaken, doubtful>>

\* Faulty: what was known of the bot is not looked up.
PlainMember(status) == Member

\* The status a message writes, from the one in the row.
KeepPrivilege(status) == IF status \in Privileged THEN status ELSE Member

\* upsert_group_from_message, the first transaction.
Lookup(h) ==
    /\ handler[h].kind = "message" /\ handler[h].at = "lookup"
    /\ handler' = [handler EXCEPT ![h].at = "read", ![h].new = KeepPrivilege(group.status)]
    /\ UNCHANGED <<group, writes, authority, overtaken, doubtful>>

\* The SELECT of upsert_group or of reconcile_group_bot_status, which ends here if
\* there is no row or nothing to change.
ReadGroup(h) ==
    LET q == handler[h]
        same == group = [status |-> q.new, active |-> q.new \in Active] IN
    /\ q.kind # "none" /\ q.at = "read"
    /\ IF q.kind = "access" /\ (group = NoGroupRow \/ same)
         THEN handler' = [handler EXCEPT ![h] = Idle] /\ overtaken' = overtaken \ {h}
         ELSE handler' = [handler EXCEPT ![h].at = "write", ![h].read = group] /\ UNCHANGED overtaken
    /\ UNCHANGED <<group, writes, authority, doubtful>>

Emitted(new, read, now) == IF new # read THEN new ELSE now

\* The commit.  An insert where there is a row by now fails: see Drop.
WriteGroup(h) ==
    LET q == handler[h] IN
    /\ q.at = "write"
    /\ writes < MaxWrites /\ writes' = writes + 1
    /\ q.read = NoGroupRow => group = NoGroupRow
    /\ group' = [status |-> Emitted(q.new, q.read.status, group.status),
                 active |-> Emitted(q.kind = "message" \/ q.new \in Active, q.read.active, group.active)]
    /\ handler' = [handler EXCEPT ![h] = Idle]
    /\ authority' = IF q.kind = "message" THEN authority ELSE q.new
    /\ overtaken' = (IF group' = group THEN overtaken ELSE Informed) \ {h}
    /\ doubtful' = (h \in overtaken \/ (q.kind = "message" /\ doubtful))

\* An error, or the process dies.
Drop(h) ==
    /\ handler[h].kind # "none"
    /\ handler' = [handler EXCEPT ![h] = Idle]
    /\ overtaken' = overtaken \ {h}
    /\ UNCHANGED <<group, writes, authority, doubtful>>

StatusNext ==
    \E h \in Handlers :
       \/ Arrive(h, "message", Member)
       \/ \E kind \in {"membership", "access"}, s \in Statuses : Arrive(h, kind, s)
       \/ Lookup(h) \/ ReadGroup(h) \/ WriteGroup(h) \/ Drop(h)

StatusSpec == StatusInit /\ [][StatusNext]_statusVars

-----------------------------------------------------------------------------
(* Properties. *)

\* The rights of an administrator are in the row if Telegram's last word said so, and
\* are not if it did not, whatever messages came since: but for a handler that had read
\* the row before it changed, and wrote after that word (group_status_sync.py:39).  Such a
\* message does downgrade an administrator, against group_status_sync.py:22.
PrivilegeKept ==
    authority # Unknown /\ ~doubtful =>
        (group.status \in Privileged) = (authority \in Privileged)

=============================================================================
