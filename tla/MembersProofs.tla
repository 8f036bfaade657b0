----------------------------- MODULE MembersProofs -----------------------------
(***************************************************************************)
(* AuditExplainsAccess, PrivilegeKept, VipSentOnce, NotifiedOnce,          *)
(* FeaturedWhole, OwnerUntouchable and SettingsAddUp for any number of     *)
(* administrators, handlers, senders, users, selections and requests, and  *)
(* any number of steps.                                                    *)
(***************************************************************************)
EXTENDS EarningsProofs, AchievementsProofs, MCMembers

-----------------------------------------------------------------------------
(* The audit log.  A request carries what Permitted has checked, and that  *)
(* is enough for its commit to write the attribute it logs: an attribute   *)
(* left alone is one that was read with the value it would have got.  No   *)
(* two entries have one time, so that an entry which is not shown last is  *)
(* one that the log has put before another.                                *)

\* A request has an argument that its operation takes, and rows it has read.
ControlTyped ==
    /\ db \in ControlRows /\ log \in [Subjects -> Entry] /\ clock \in 0..MaxRequests
    /\ written \in [Subjects -> Nat] /\ stale \in BOOLEAN
    /\ request \in [AdminRequests -> SUBSET Request]
    /\ \A r \in AdminRequests :
          /\ request[r] = {} \/ \E q \in Request : request[r] = {q}
          /\ \A q \in request[r] : <<q.op, q.arg>> \in Operations

LEMMA NoRowsAreRows == NoRows \in ControlRows
<1>1. None \in Flags /\ FALSE \in BOOLEAN
  BY DEF Flags
<1>. QED  BY <1>1 DEF NoRows, ControlRows

LEMMA ControlTypedInit == ControlInit => ControlTyped
<1>. SUFFICES ASSUME ControlInit PROVE ControlTyped
  OBVIOUS
<1>1. log \in [Subjects -> Entry] /\ written \in [Subjects -> Nat] /\ stale \in BOOLEAN
  BY DEF ControlInit, Entry, Words
<1>2. clock \in 0..MaxRequests
  BY ControlAssumption DEF ControlInit
<1>. QED  BY <1>1, <1>2, NoRowsAreRows DEF ControlInit, ControlTyped

LEMMA OperationTypes ==
    ASSUME NEW op, NEW arg, <<op, arg>> \in Operations
    PROVE  /\ op \in {o[1] : o \in Operations} /\ arg \in {o[2] : o \in Operations}
           /\ op = "set_role" => arg \in Roles
           /\ op \in {"add_tag", "remove_tag"} => arg \in Tags
           /\ op = "set_note" => arg \in BOOLEAN
<1>1. op = <<op, arg>>[1] /\ arg = <<op, arg>>[2]
  OBVIOUS
<1>2. op \in {o[1] : o \in Operations} /\ arg \in {o[2] : o \in Operations}
  BY <1>1
<1>3. \/ op \in {"block", "unblock", "remove_role"} /\ arg \in {None}
      \/ op \in {"set_role"} /\ arg \in Roles
      \/ op \in {"add_tag", "remove_tag"} /\ arg \in Tags
      \/ op \in {"set_note"} /\ arg \in BOOLEAN
  BY DEF Operations
<1>4. op = "set_role" => arg \in Roles
  BY <1>3
<1>5. op \in {"add_tag", "remove_tag"} => arg \in Tags
  BY <1>3
<1>6. op = "set_note" => arg \in BOOLEAN
  BY <1>3
<1>. QED  BY <1>2, <1>4, <1>5, <1>6

LEMMA EntryTyped ==
    ASSUME ControlTyped, NEW c \in Subjects, NEW at \in Nat, NEW what \in Words, AddEntry(c, at, what)
    PROVE  log' \in [Subjects -> Entry] /\ written' \in [Subjects -> Nat]
<1>1. [at |-> at, what |-> what] \in Entry
  BY DEF Entry
<1>. QED  BY <1>1 DEF ControlTyped, AddEntry

\* A commit ends its request.
LEMMA CommitRequestTyped ==
    ASSUME ControlTyped, NEW r \in AdminRequests, NEW q \in request[r], CommitRequest(r, q),
           db' \in ControlRows, log' \in [Subjects -> Entry], written' \in [Subjects -> Nat],
           stale' \in BOOLEAN
    PROVE  ControlTyped'
<1>1. clock' \in 0..MaxRequests /\ request' = [request EXCEPT ![r] = {}]
  BY DEF CommitRequest, ControlTyped
<1>. QED  BY <1>1 DEF ControlTyped

LEMMA ControlTypedStep == ControlTyped /\ [ControlNext]_controlVars => ControlTyped'
<1>. SUFFICES ASSUME ControlTyped, [ControlNext]_controlVars PROVE ControlTyped'
  OBVIOUS
<1>0. /\ db \in ControlRows /\ clock \in Nat /\ stale \in BOOLEAN
      /\ log \in [Subjects -> Entry] /\ written \in [Subjects -> Nat]
      /\ \A r \in AdminRequests : \A q \in request[r] :
            /\ q \in Request /\ q.read \in ControlRows /\ q.stamp \in Nat
            /\ <<q.op, q.arg>> \in Operations
      /\ {"block", "staff"} \union Tags = Subjects
  BY ControlAssumption DEF ControlTyped, Request, Subjects
<1>1. ASSUME NEW r \in AdminRequests, NEW o \in Operations, Stamp(r, o[1], o[2])
      PROVE  ControlTyped'
  <2>. DEFINE q == [op |-> o[1], arg |-> o[2], at |-> "begun", stamp |-> clock', read |-> NoRows]
  <2>1. <<q.op, q.arg>> = o
    BY DEF Operations
  <2>2. clock' \in 0..MaxRequests /\ clock' \in Nat
    BY <1>0, <1>1, ControlAssumption DEF Stamp
  <2>3. q \in Request
    BY <2>2, NoRowsAreRows DEF Request
  <2>4. request' = [request EXCEPT ![r] = {q}] /\ UNCHANGED <<db, log, written, stale>>
    BY <1>1 DEF Stamp
  <2>. HIDE DEF q
  <2>. QED  BY <2>1, <2>2, <2>3, <2>4 DEF ControlTyped
<1>2. ASSUME NEW r \in AdminRequests, Read(r) PROVE ControlTyped'
  <2>1. PICK q \in request[r] :
          /\ request' = [request EXCEPT ![r] = {[q EXCEPT !.at = "read", !.read = db]}]
          /\ UNCHANGED <<db, log, clock, written, stale>>
    BY <1>2 DEF Read
  <2>. DEFINE p == [q EXCEPT !.at = "read", !.read = db]
  <2>2. p \in Request /\ p.op = q.op /\ p.arg = q.arg
    BY <1>0 DEF Request
  <2>3. <<p.op, p.arg>> \in Operations
    BY <1>0, <2>2
  <2>4. request' = [request EXCEPT ![r] = {p}]
    BY <2>1
  <2>. HIDE DEF p
  <2>. QED  BY <2>1, <2>2, <2>3, <2>4 DEF ControlTyped
<1>3. ASSUME NEW r \in AdminRequests, WriteBlock(r) PROVE ControlTyped'
  <2>1. PICK q \in request[r] :
          /\ CommitRequest(r, q)
          /\ db' = [db EXCEPT !.blocked = Written(q.op = "block", q.read.blocked, @)]
          /\ AddEntry("block", q.stamp, IF q.op = "block" THEN "blocked" ELSE "unblocked")
          /\ UNCHANGED stale
    BY <1>3 DEF WriteBlock
  <2>. DEFINE b == Written(q.op = "block", q.read.blocked, db.blocked)
  <2>2. b \in Flags
    <3>1. (q.op = "block") \in BOOLEAN /\ db.blocked \in Flags
      BY <1>0, Zenon DEF ControlRows
    <3>. QED  BY <3>1, Zenon DEF Written, Flags
  <2>3. db' = [db EXCEPT !.blocked = b]
    BY <2>1
  <2>. HIDE DEF b
  <2>4. db' \in ControlRows
    BY <1>0, <2>2, <2>3 DEF ControlRows
  <2>5. log' \in [Subjects -> Entry] /\ written' \in [Subjects -> Nat]
    BY <1>0, <2>1, EntryTyped DEF Words
  <2>. QED  BY <1>0, <2>1, <2>4, <2>5, CommitRequestTyped
<1>4. ASSUME NEW r \in AdminRequests, SetRole(r) PROVE ControlTyped'
  <2>1. PICK q \in request[r] :
          /\ q.op = "set_role" /\ CommitRequest(r, q)
          /\ db' = [db EXCEPT !.role = Written(q.arg, q.read.role, @),
                              !.active = Written(TRUE, q.read.active, @)]
          /\ AddEntry("staff", q.stamp, "role_set")
          /\ stale' = (q.read.active # db.active)
    BY <1>4 DEF SetRole
  <2>. DEFINE b == Written(q.arg, q.read.role, db.role)
              a == Written(TRUE, q.read.active, db.active)
  <2>2. q.arg \in Roles
    BY <1>0, <2>1, OperationTypes
  <2>3. b \in Roles \union {None}
    BY <1>0, <2>2 DEF Written, ControlRows
  <2>4. a \in BOOLEAN
    <3>1. db.active \in BOOLEAN
      BY <1>0, Zenon DEF ControlRows
    <3>. QED  BY <3>1, Zenon DEF Written
  <2>5. db' = [db EXCEPT !.role = b, !.active = a]
    BY <2>1
  <2>. HIDE DEF a, b
  <2>6. db' \in ControlRows
    BY <1>0, <2>3, <2>4, <2>5 DEF ControlRows
  <2>7. stale' \in BOOLEAN
    BY <2>1, Zenon
  <2>8. log' \in [Subjects -> Entry] /\ written' \in [Subjects -> Nat]
    BY <1>0, <2>1, EntryTyped DEF Words
  <2>. QED  BY <2>1, <2>6, <2>7, <2>8, CommitRequestTyped
<1>5. ASSUME NEW r \in AdminRequests, RemoveRole(r) PROVE ControlTyped'
  <2>1. PICK q \in request[r] :
          /\ CommitRequest(r, q)
          /\ db' = [db EXCEPT !.active = Written(FALSE, q.read.active, @)]
          /\ AddEntry("staff", q.stamp, "role_removed")
          /\ stale' = (q.read.active # db.active)
    BY <1>5 DEF RemoveRole
  <2>. DEFINE a == Written(FALSE, q.read.active, db.active)
  <2>2. a \in BOOLEAN
    <3>1. db.active \in BOOLEAN
      BY <1>0, Zenon DEF ControlRows
    <3>. QED  BY <3>1, Zenon DEF Written
  <2>3. db' = [db EXCEPT !.active = a]
    BY <2>1
  <2>. HIDE DEF a
  <2>4. db' \in ControlRows
    BY <1>0, <2>2, <2>3 DEF ControlRows
  <2>5. stale' \in BOOLEAN
    BY <2>1, Zenon
  <2>6. log' \in [Subjects -> Entry] /\ written' \in [Subjects -> Nat]
    BY <1>0, <2>1, EntryTyped DEF Words
  <2>. QED  BY <2>1, <2>4, <2>5, <2>6, CommitRequestTyped
<1>6. ASSUME NEW r \in AdminRequests, SetNote(r) PROVE ControlTyped'
  <2>1. PICK q \in request[r] :
          /\ q.op = "set_note" /\ CommitRequest(r, q)
          /\ db' = [db EXCEPT !.note = IF q.arg \/ q.read.note THEN q.arg ELSE @]
          /\ UNCHANGED <<log, written, stale>>
    BY <1>6 DEF SetNote
  <2>. DEFINE n == IF q.arg \/ q.read.note THEN q.arg ELSE db.note
  <2>2. n \in BOOLEAN
    <3>1. db.note \in BOOLEAN /\ q.arg \in BOOLEAN
      BY <1>0, <2>1, OperationTypes, Zenon DEF ControlRows
    <3>. QED  BY <3>1, Zenon
  <2>3. db' = [db EXCEPT !.note = n]
    BY <2>1, Zenon
  <2>. HIDE DEF n
  <2>4. db' \in ControlRows
    BY <1>0, <2>2, <2>3 DEF ControlRows
  <2>. QED  BY <1>0, <2>1, <2>4, CommitRequestTyped
<1>7. ASSUME NEW r \in AdminRequests, AddTag(r) PROVE ControlTyped'
  <2>1. PICK q \in request[r] :
          /\ q.op = "add_tag" /\ CommitRequest(r, q)
          /\ \/ UNCHANGED <<db, log, written>>
             \/ /\ db' = [db EXCEPT !.tags = @ \union {q.arg}]
                /\ AddEntry(q.arg, q.stamp, "added")
          /\ UNCHANGED stale
    BY <1>7 DEF AddTag
  <2>2. q.arg \in Tags
    BY <1>0, <2>1, OperationTypes
  <2>3. db' \in ControlRows
    BY <1>0, <2>1, <2>2 DEF ControlRows
  <2>4. log' \in [Subjects -> Entry] /\ written' \in [Subjects -> Nat]
    BY <1>0, <2>1, <2>2, EntryTyped DEF Words
  <2>. QED  BY <1>0, <2>1, <2>3, <2>4, CommitRequestTyped
<1>8. ASSUME NEW r \in AdminRequests, RemoveTag(r) PROVE ControlTyped'
  <2>1. PICK q \in request[r] :
          /\ q.op = "remove_tag" /\ CommitRequest(r, q)
          /\ db' = [db EXCEPT !.tags = @ \ {q.arg}]
          /\ AddEntry(q.arg, q.stamp, "removed")
          /\ UNCHANGED stale
    BY <1>8 DEF RemoveTag
  <2>2. q.arg \in Tags
    BY <1>0, <2>1, OperationTypes
  <2>3. db' \in ControlRows
    BY <1>0, <2>1, <2>2 DEF ControlRows
  <2>4. log' \in [Subjects -> Entry] /\ written' \in [Subjects -> Nat]
    BY <1>0, <2>1, <2>2, EntryTyped DEF Words
  <2>. QED  BY <1>0, <2>1, <2>3, <2>4, CommitRequestTyped
<1>9. ASSUME NEW r \in AdminRequests, Refuse(r) PROVE ControlTyped'
  BY <1>9 DEF Refuse, ControlTyped
<1>10. CASE UNCHANGED controlVars
  BY <1>10 DEF controlVars, ControlTyped
<1>. QED
  BY <1>1, <1>2, <1>3, <1>4, <1>5, <1>6, <1>7, <1>8, <1>9, <1>10 DEF ControlNext


\* A user has rows, and the log entries, that the operations write, and each request is of
\* one of them (restrictions.py:78, staff.py:30).
THEOREM ControlIsTyped == ControlSpec => []ControlTypeOK
<1>1. ControlTyped => ControlTypeOK
  <2>. SUFFICES ASSUME ControlTyped PROVE ControlTypeOK
    OBVIOUS
  <2>1. ASSUME NEW r \in AdminRequests PROVE Cardinality(request[r]) <= 1
    <3>1. CASE request[r] = {}
      BY <3>1, FS_EmptySet
    <3>2. CASE \E q \in Request : request[r] = {q}
      <4>1. PICK q \in Request : request[r] = {q}
        BY <3>2
      <4>2. Cardinality({q}) = 1
        BY FS_Singleton
      <4>. QED  BY <4>1, <4>2
    <3>. QED  BY <3>1, <3>2 DEF ControlTyped
  <2>. QED  BY <2>1 DEF ControlTyped, ControlTypeOK
<1>. QED  BY <1>1, ControlTypedInit, ControlTypedStep, PTL DEF ControlSpec

StampsFresh ==
    /\ \A c \in Subjects : log[c].at <= clock
    /\ \A r \in AdminRequests : \A q \in request[r] :
          q.stamp <= clock /\ \A c \in Subjects : q.stamp # log[c].at
    /\ \A r, o \in AdminRequests : \A q \in request[r] : \A p \in request[o] :
          r # o => q.stamp # p.stamp

RequestsPermitted ==
    \A r \in AdminRequests : \A q \in request[r] : q.at = "read" =>
       /\ q.op = "block" => q.read.blocked # TRUE
       /\ q.op = "unblock" => q.read.blocked = TRUE
       /\ q.op = "remove_role" => q.read.active

BlockExplained == InOrder("block") => (db.blocked = TRUE) = (log["block"].what = "blocked")
TagExplained(t) == InOrder(t) => (t \in db.tags) = (log[t].what = "added")
RoleExplained ==
    /\ InOrder("staff") /\ db.active => log["staff"].what = "role_set"
    /\ InOrder("staff") /\ ~stale => db.active = (log["staff"].what = "role_set")

AccessExplained == BlockExplained /\ RoleExplained /\ \A t \in Tags : TagExplained(t)

ControlInv == ControlTyped /\ StampsFresh /\ RequestsPermitted /\ AccessExplained

LEMMA ControlInvInit == ControlInit => ControlInv
<1>. SUFFICES ASSUME ControlInit PROVE ControlInv
  OBVIOUS
<1>0. \A c \in Subjects : log[c].at = 0 /\ log[c].what = None
  BY DEF ControlInit
<1>1. StampsFresh /\ RequestsPermitted
  <2>1. clock = 0 /\ \A r \in AdminRequests : request[r] = {}
    BY DEF ControlInit
  <2>2. StampsFresh
    BY <1>0, <2>1 DEF StampsFresh
  <2>3. RequestsPermitted
    BY <2>1, Zenon DEF RequestsPermitted
  <2>. QED  BY <2>2, <2>3
<1>2. db.blocked = None /\ db.active = FALSE /\ db.tags = {}
  BY DEF ControlInit, NoRows
<1>3. BlockExplained
  <2>1. db.blocked # TRUE
    BY <1>2, ControlAssumption, Zenon
  <2>2. log["block"].what # "blocked"
    BY <1>0, ControlAssumption DEF Subjects
  <2>. QED  BY <2>1, <2>2, Zenon DEF BlockExplained
<1>4. RoleExplained
  <2>1. log["staff"].what # "role_set" /\ ~db.active
    BY <1>0, <1>2, ControlAssumption DEF Subjects
  <2>. QED  BY <1>2, <2>1, Zenon DEF RoleExplained
<1>5. \A t \in Tags : TagExplained(t)
  <2>1. None # "added" /\ \A t \in Tags : t \in Subjects
    BY ControlAssumption DEF Subjects
  <2>. QED  BY <1>0, <1>2, <2>1 DEF TagExplained
<1>. QED  BY <1>1, <1>3, <1>4, <1>5, ControlTypedInit DEF ControlInv, AccessExplained

\* The rows and the entries are as they were, and what a request has read is checked.
LEMMA RequestMoves ==
    ASSUME ControlInv, NEW r \in AdminRequests, UNCHANGED <<db, log, written, stale>>,
           clock \in Nat, clock' \in Nat, clock <= clock',
           NEW q, request' = [request EXCEPT ![r] = {q}],
           q.stamp <= clock', \A c \in Subjects : q.stamp # log[c].at,
           \A o \in AdminRequests \ {r} : \A p \in request[o] : q.stamp # p.stamp,
           q.at = "read" => /\ q.op = "block" => q.read.blocked # TRUE
                            /\ q.op = "unblock" => q.read.blocked = TRUE
                            /\ q.op = "remove_role" => q.read.active
    PROVE  StampsFresh' /\ RequestsPermitted' /\ AccessExplained'
<1>1. /\ request'[r] = {q}
      /\ \A o \in AdminRequests \ {r} : request'[o] = request[o]
  BY DEF ControlInv, ControlTyped
<1>2. AccessExplained'
  <2>1. AccessExplained
    BY DEF ControlInv
  <2>. QED  BY <2>1, Zenon DEF AccessExplained, BlockExplained, RoleExplained, TagExplained, InOrder
<1>3. \A c \in Subjects : log'[c].at \in Nat /\ log'[c] = log[c]
  BY DEF ControlInv, ControlTyped, Entry
<1>4. \A o \in AdminRequests : \A p \in request[o] : p.stamp \in Nat
  BY DEF ControlInv, ControlTyped, Request
<1>5. StampsFresh'
  <2>1. \A c \in Subjects : log'[c].at <= clock'
    BY <1>3 DEF ControlInv, StampsFresh
  <2>2. ASSUME NEW o \in AdminRequests, NEW p \in request'[o]
        PROVE  p.stamp <= clock' /\ \A c \in Subjects : p.stamp # log'[c].at
    <3>1. CASE o = r
      BY <1>1, <1>3, <2>2, <3>1
    <3>2. CASE o # r
      <4>1. p \in request[o]
        BY <1>1, <2>2, <3>2
      <4>2. p.stamp <= clock /\ p.stamp \in Nat /\ \A c \in Subjects : p.stamp # log[c].at
        BY <1>4, <4>1 DEF ControlInv, StampsFresh
      <4>. QED  BY <1>3, <4>2
    <3>. QED  BY <3>1, <3>2
  <2>3. ASSUME NEW o \in AdminRequests, NEW s \in AdminRequests, NEW p \in request'[o],
               NEW u \in request'[s], o # s
        PROVE  p.stamp # u.stamp
    <3>1. CASE o # r /\ s # r
      BY <1>1, <2>3, <3>1 DEF ControlInv, StampsFresh
    <3>2. CASE o = r
      BY <1>1, <2>3, <3>2
    <3>3. CASE s = r
      BY <1>1, <2>3, <3>3
    <3>. QED  BY <3>1, <3>2, <3>3
  <2>. QED  BY <2>1, <2>2, <2>3 DEF StampsFresh
<1>6. RequestsPermitted'
  <2>. SUFFICES ASSUME NEW o \in AdminRequests, NEW p \in request'[o], p.at = "read"
                PROVE  /\ p.op = "block" => p.read.blocked # TRUE
                       /\ p.op = "unblock" => p.read.blocked = TRUE
                       /\ p.op = "remove_role" => p.read.active
    BY Zenon DEF RequestsPermitted
  <2>1. CASE o = r
    <3>1. p = q
      BY <1>1, <2>1
    <3>. QED  BY <3>1, Zenon
  <2>2. CASE o # r
    <3>1. p \in request[o] /\ RequestsPermitted
      BY <1>1, <2>2 DEF ControlInv
    <3>. QED  BY <3>1, Zenon DEF RequestsPermitted
  <2>. QED  BY <2>1, <2>2
<1>. QED  BY <1>2, <1>5, <1>6

\* A commit that adds no entry.
LEMMA RequestEnds ==
    ASSUME ControlInv, NEW r \in AdminRequests, request' = [request EXCEPT ![r] = {}],
           UNCHANGED <<log, clock>>
    PROVE  StampsFresh'
<1>1. \A o \in AdminRequests : request'[o] \subseteq request[o]
  BY DEF ControlInv, ControlTyped
<1>. QED  BY <1>1 DEF ControlInv, StampsFresh

LEMMA RequestsLeft ==
    ASSUME ControlInv, NEW r \in AdminRequests, request' = [request EXCEPT ![r] = {}]
    PROVE  RequestsPermitted'
<1>1. \A o \in AdminRequests : request'[o] \subseteq request[o]
  BY DEF ControlInv, ControlTyped
<1>2. RequestsPermitted
  BY DEF ControlInv
<1>. QED  BY <1>1, <1>2, Zenon DEF RequestsPermitted

\* The entry of a request is shown last when it is the last that is committed and is in
\* order, and the entries of the others are left.
LEMMA EntryAdded ==
    ASSUME ControlInv, NEW r \in AdminRequests, NEW q \in request[r], CommitRequest(r, q),
           NEW c \in Subjects, NEW what \in Words, AddEntry(c, q.stamp, what)
    PROVE  /\ StampsFresh'
           /\ InOrder(c)' => log'[c].what = what
           /\ \A d \in Subjects \ {c} : log'[d] = log[d] /\ written'[d] = written[d]
<1>0. /\ clock \in Nat /\ clock' = clock /\ q.stamp \in Nat
      /\ \A d \in Subjects : log[d].at \in Nat /\ log[d].at <= clock
      /\ q.stamp <= clock /\ q.stamp # log[c].at
      /\ log \in [Subjects -> Entry] /\ written \in [Subjects -> Nat]
  BY ControlAssumption DEF ControlInv, ControlTyped, StampsFresh, Request, Entry, CommitRequest
<1>1. /\ request'[r] = {}
      /\ \A o \in AdminRequests \ {r} : request'[o] = request[o]
  BY DEF ControlInv, ControlTyped, CommitRequest
<1>2. \A d \in Subjects \ {c} : log'[d] = log[d] /\ written'[d] = written[d]
  BY <1>0 DEF AddEntry
<1>3. written'[c] = q.stamp /\ (log'[c] = log[c] \/ log'[c] = [at |-> q.stamp, what |-> what])
  BY <1>0 DEF AddEntry
<1>4. InOrder(c)' => log'[c].what = what
  BY <1>0, <1>3 DEF InOrder
<1>5. \A d \in Subjects : log'[d].at \in {log[d].at, q.stamp}
  BY <1>2, <1>3
<1>6. \A d \in Subjects : log'[d].at <= clock'
  BY <1>0, <1>5
<1>7. ASSUME NEW o \in AdminRequests, NEW p \in request'[o]
      PROVE  p.stamp <= clock' /\ \A d \in Subjects : p.stamp # log'[d].at
  <2>1. o # r /\ p \in request[o]
    BY <1>1
  <2>2. p.stamp <= clock /\ p.stamp # q.stamp /\ \A d \in Subjects : p.stamp # log[d].at
    BY <2>1 DEF ControlInv, StampsFresh
  <2>. QED  BY <1>0, <1>5, <2>2
<1>8. ASSUME NEW o \in AdminRequests, NEW s \in AdminRequests, NEW p \in request'[o],
             NEW u \in request'[s], o # s
      PROVE  p.stamp # u.stamp
  <2>1. p \in request[o] /\ u \in request[s]
    BY <1>1
  <2>. QED  BY <1>8, <2>1 DEF ControlInv, StampsFresh
<1>9. StampsFresh'
  BY <1>6, <1>7, <1>8 DEF StampsFresh
<1>. QED  BY <1>2, <1>4, <1>9

LEMMA ControlStep == ControlInv /\ [ControlNext]_controlVars => ControlInv'
<1>. SUFFICES ASSUME ControlInv, [ControlNext]_controlVars PROVE ControlInv'
  OBVIOUS
<1>0. /\ ControlTyped /\ ControlTyped' /\ clock \in Nat
      /\ BlockExplained /\ RoleExplained /\ \A t \in Tags : TagExplained(t)
      /\ db \in ControlRows /\ "block" \in Subjects /\ "staff" \in Subjects
      /\ Tags = Subjects \ {"block", "staff"} /\ "block" # "staff"
      /\ \A r \in AdminRequests : \A q \in request[r] : <<q.op, q.arg>> \in Operations
  BY ControlTypedStep, ControlAssumption DEF ControlInv, AccessExplained, ControlTyped, Subjects
<1>a. \A r \in AdminRequests : \A q \in request[r] :
         /\ q \in Request /\ q.read \in ControlRows /\ q.stamp \in Nat /\ q.stamp <= clock
         /\ \A c \in Subjects : q.stamp # log[c].at
         /\ \A o \in AdminRequests \ {r} : \A p \in request[o] : q.stamp # p.stamp
  BY DEF ControlInv, ControlTyped, StampsFresh, Request
<1>b. ASSUME NEW c \in Subjects, \A d \in Subjects \ {c} : log'[d] = log[d] /\ written'[d] = written[d]
      PROVE  /\ c # "block" /\ db'.blocked = db.blocked => BlockExplained'
             /\ c # "staff" /\ db'.active = db.active /\ UNCHANGED stale => RoleExplained'
             /\ db'.tags \ {c} = db.tags \ {c} => \A t \in Tags \ {c} : TagExplained(t)'
  <2>1. ASSUME c # "block", db'.blocked = db.blocked PROVE BlockExplained'
    <3>1. log'["block"] = log["block"] /\ written'["block"] = written["block"]
      BY <1>0, <1>b, <2>1
    <3>. QED  BY <1>0, <2>1, <3>1, Zenon DEF BlockExplained, InOrder
  <2>2. ASSUME c # "staff", db'.active = db.active, UNCHANGED stale PROVE RoleExplained'
    <3>1. log'["staff"] = log["staff"] /\ written'["staff"] = written["staff"]
      BY <1>0, <1>b, <2>2
    <3>. QED  BY <1>0, <2>2, <3>1, Zenon DEF RoleExplained, InOrder
  <2>3. ASSUME db'.tags \ {c} = db.tags \ {c}, NEW t \in Tags \ {c} PROVE TagExplained(t)'
    <3>1. log'[t] = log[t] /\ written'[t] = written[t] /\ (t \in db'.tags <=> t \in db.tags)
      BY <1>0, <1>b, <2>3
    <3>. QED  BY <1>0, <3>1 DEF TagExplained, InOrder
  <2>. QED  BY <2>1, <2>2, <2>3
<1>1. ASSUME NEW r \in AdminRequests, NEW o \in Operations, Stamp(r, o[1], o[2])
      PROVE  ControlInv'
  <2>. DEFINE q == [op |-> o[1], arg |-> o[2], at |-> "begun", stamp |-> clock', read |-> NoRows]
  <2>1. /\ clock' = clock + 1 /\ request' = [request EXCEPT ![r] = {q}]
        /\ UNCHANGED <<db, log, written, stale>> /\ q.stamp = clock' /\ q.at # "read"
    BY <1>1 DEF Stamp
  <2>. HIDE DEF q
  <2>2. \A c \in Subjects : log[c].at \in Nat /\ log[c].at <= clock
    BY DEF ControlInv, ControlTyped, StampsFresh, Entry
  <2>3. \A s \in AdminRequests \ {r} : \A p \in request[s] : q.stamp # p.stamp
    BY <1>0, <1>a, <2>1
  <2>4. q.stamp <= clock' /\ clock' \in Nat /\ clock <= clock' /\ \A c \in Subjects : q.stamp # log[c].at
    BY <1>0, <2>1, <2>2
  <2>5. StampsFresh' /\ RequestsPermitted' /\ AccessExplained'
    BY <1>0, <2>1, <2>3, <2>4, RequestMoves
  <2>. QED  BY <1>0, <2>5 DEF ControlInv
<1>2. ASSUME NEW r \in AdminRequests, Read(r) PROVE ControlInv'
  <2>1. PICK q \in request[r] :
          /\ Permitted(q.op, q.arg, db)
          /\ request' = [request EXCEPT ![r] = {[q EXCEPT !.at = "read", !.read = db]}]
          /\ UNCHANGED <<db, log, clock, written, stale>>
    BY <1>2 DEF Read
  <2>. DEFINE p == [q EXCEPT !.at = "read", !.read = db]
  <2>2. p.op = q.op /\ p.stamp = q.stamp /\ p.read = db
    BY <1>a DEF Request
  <2>3. request' = [request EXCEPT ![r] = {p}]
    BY <2>1
  <2>4. /\ p.op = "block" => p.read.blocked # TRUE
        /\ p.op = "unblock" => p.read.blocked = TRUE
        /\ p.op = "remove_role" => p.read.active
    <3>. HIDE DEF p
    <3>1. ASSUME q.op = "block" PROVE db.blocked # TRUE
      BY <2>1, <3>1 DEF Permitted
    <3>2. ASSUME q.op = "unblock" PROVE db.blocked = TRUE
      BY <2>1, <3>2 DEF Permitted
    <3>3. ASSUME q.op = "remove_role" PROVE db.active
      BY <2>1, <3>3 DEF Permitted
    <3>. QED  BY <2>2, <3>1, <3>2, <3>3, Zenon
  <2>. HIDE DEF p
  <2>5. clock' \in Nat /\ clock <= clock'
    BY <1>0, <2>1
  <2>6. p.stamp <= clock' /\ \A c \in Subjects : p.stamp # log[c].at
    BY <1>a, <2>1, <2>2
  <2>7. \A o \in AdminRequests \ {r} : \A s \in request[o] : p.stamp # s.stamp
    BY <1>a, <2>2
  <2>8. StampsFresh' /\ RequestsPermitted' /\ AccessExplained'
    BY <1>0, <2>1, <2>3, <2>4, <2>5, <2>6, <2>7, RequestMoves
  <2>. QED  BY <1>0, <2>8 DEF ControlInv
<1>3. ASSUME NEW r \in AdminRequests, WriteBlock(r) PROVE ControlInv'
  <2>. DEFINE word(q) == IF q.op = "block" THEN "blocked" ELSE "unblocked"
  <2>1. PICK q \in request[r] :
          /\ q.op \in {"block", "unblock"} /\ q.at = "read" /\ CommitRequest(r, q)
          /\ db' = [db EXCEPT !.blocked = Written(q.op = "block", q.read.blocked, @)]
          /\ AddEntry("block", q.stamp, word(q))
          /\ request' = [request EXCEPT ![r] = {}] /\ UNCHANGED stale
    BY <1>3 DEF WriteBlock, CommitRequest
  <2>2. /\ db'.blocked = Written(q.op = "block", q.read.blocked, db.blocked)
        /\ db'.active = db.active /\ db'.tags = db.tags
    BY <1>0, <2>1 DEF ControlRows
  <2>3. /\ StampsFresh' /\ (InOrder("block")' => log'["block"].what = word(q))
        /\ \A d \in Subjects \ {"block"} : log'[d] = log[d] /\ written'[d] = written[d]
    BY <1>0, <2>1, EntryAdded DEF Words
  <2>4. (db'.blocked = TRUE) = (word(q) = "blocked")
    <3>0. RequestsPermitted
      BY DEF ControlInv
    <3>1. CASE q.op = "block"
      <4>1. q.read.blocked # TRUE
        BY <2>1, <3>0, <3>1, Zenon DEF RequestsPermitted
      <4>2. (q.op = "block") = TRUE
        BY <3>1, Zenon
      <4>3. db'.blocked = TRUE
        BY <2>2, <4>1, <4>2, Zenon DEF Written
      <4>. QED  BY <3>1, <4>3, Zenon
    <3>2. CASE q.op = "unblock"
      <4>1. q.read.blocked = TRUE
        BY <2>1, <3>0, <3>2, Zenon DEF RequestsPermitted
      <4>2. (q.op = "block") = FALSE
        <5>1. q.op # "block"
          BY <3>2
        <5>. QED  BY <5>1, Zenon
      <4>3. db'.blocked = FALSE
        BY <2>2, <4>1, <4>2, Zenon DEF Written
      <4>4. word(q) # "blocked"
        BY <3>2
      <4>. QED  BY <4>3, <4>4, Zenon
    <3>. QED  BY <2>1, <3>1, <3>2
  <2>5. BlockExplained'
    BY <2>3, <2>4, Zenon DEF BlockExplained
  <2>6. RoleExplained' /\ \A t \in Tags : TagExplained(t)'
    BY <1>0, <1>b, <2>1, <2>2, <2>3
  <2>7. RequestsPermitted'
    BY <2>1, RequestsLeft
  <2>. QED  BY <1>0, <2>3, <2>5, <2>6, <2>7 DEF ControlInv, AccessExplained
<1>4. ASSUME NEW r \in AdminRequests, SetRole(r) PROVE ControlInv'
  <2>1. PICK q \in request[r] :
          /\ CommitRequest(r, q)
          /\ db' = [db EXCEPT !.role = Written(q.arg, q.read.role, @),
                              !.active = Written(TRUE, q.read.active, @)]
          /\ AddEntry("staff", q.stamp, "role_set")
          /\ stale' = (q.read.active # db.active)
          /\ request' = [request EXCEPT ![r] = {}]
    BY <1>4 DEF SetRole, CommitRequest
  <2>2. /\ db'.active = Written(TRUE, q.read.active, db.active)
        /\ db'.blocked = db.blocked /\ db'.tags = db.tags
    BY <1>0, <2>1 DEF ControlRows
  <2>3. /\ StampsFresh' /\ (InOrder("staff")' => log'["staff"].what = "role_set")
        /\ \A d \in Subjects \ {"staff"} : log'[d] = log[d] /\ written'[d] = written[d]
    BY <1>0, <2>1, EntryAdded DEF Words
  <2>4. ~stale' => db'.active = TRUE
    <3>1. ~stale' => q.read.active = db.active
      BY <2>1, Zenon
    <3>2. db.active \in BOOLEAN
      BY <1>0, Zenon DEF ControlRows
    <3>. QED  BY <2>2, <3>1, <3>2, Zenon DEF Written
  <2>5. RoleExplained'
    BY <2>3, <2>4, Zenon DEF RoleExplained
  <2>6. BlockExplained' /\ \A t \in Tags : TagExplained(t)'
    BY <1>0, <1>b, <2>2, <2>3
  <2>7. RequestsPermitted'
    BY <2>1, RequestsLeft
  <2>. QED  BY <1>0, <2>3, <2>5, <2>6, <2>7 DEF ControlInv, AccessExplained
<1>5. ASSUME NEW r \in AdminRequests, RemoveRole(r) PROVE ControlInv'
  <2>1. PICK q \in request[r] :
          /\ q.op = "remove_role" /\ q.at = "read" /\ CommitRequest(r, q)
          /\ db' = [db EXCEPT !.active = Written(FALSE, q.read.active, @)]
          /\ AddEntry("staff", q.stamp, "role_removed")
          /\ request' = [request EXCEPT ![r] = {}]
    BY <1>5 DEF RemoveRole, CommitRequest
  <2>2. /\ db'.active = Written(FALSE, q.read.active, db.active)
        /\ db'.blocked = db.blocked /\ db'.tags = db.tags
    BY <1>0, <2>1 DEF ControlRows
  <2>3. /\ StampsFresh' /\ (InOrder("staff")' => log'["staff"].what = "role_removed")
        /\ \A d \in Subjects \ {"staff"} : log'[d] = log[d] /\ written'[d] = written[d]
    BY <1>0, <2>1, EntryAdded DEF Words
  <2>4. db'.active = FALSE
    <3>1. q.read.active /\ q.read.active \in BOOLEAN
      <4>1. RequestsPermitted
        BY DEF ControlInv
      <4>2. q.read \in ControlRows
        BY <1>a
      <4>. QED  BY <2>1, <4>1, <4>2, Zenon DEF RequestsPermitted, ControlRows
    <3>. QED  BY <2>2, <3>1, Zenon DEF Written
  <2>5. RoleExplained'
    <3>1. InOrder("staff")' => log'["staff"].what # "role_set"
      BY <2>3
    <3>. QED  BY <2>4, <3>1, Zenon DEF RoleExplained
  <2>6. BlockExplained' /\ \A t \in Tags : TagExplained(t)'
    BY <1>0, <1>b, <2>2, <2>3
  <2>7. RequestsPermitted'
    BY <2>1, RequestsLeft
  <2>. QED  BY <1>0, <2>3, <2>5, <2>6, <2>7 DEF ControlInv, AccessExplained
<1>c. ASSUME NEW r \in AdminRequests, request' = [request EXCEPT ![r] = {}],
             UNCHANGED <<log, clock, written, stale>>,
             db'.blocked = db.blocked, db'.active = db.active, db'.tags = db.tags
      PROVE  ControlInv'
  <2>1. BlockExplained' /\ RoleExplained' /\ \A t \in Tags : TagExplained(t)'
    BY <1>0, <1>c, Zenon DEF BlockExplained, RoleExplained, TagExplained, InOrder
  <2>. QED  BY <1>0, <1>c, <2>1, RequestEnds, RequestsLeft DEF ControlInv, AccessExplained
<1>6. ASSUME NEW r \in AdminRequests, SetNote(r) PROVE ControlInv'
  <2>1. PICK q \in request[r] :
          /\ request' = [request EXCEPT ![r] = {}] /\ UNCHANGED <<log, clock, written, stale>>
          /\ db' = [db EXCEPT !.note = IF q.arg \/ q.read.note THEN q.arg ELSE @]
    BY <1>6 DEF SetNote, CommitRequest
  <2>2. db'.blocked = db.blocked /\ db'.active = db.active /\ db'.tags = db.tags
    BY <1>0, <2>1 DEF ControlRows
  <2>. QED  BY <1>c, <2>1, <2>2
<1>7. ASSUME NEW r \in AdminRequests, AddTag(r) PROVE ControlInv'
  <2>1. PICK q \in request[r] :
          /\ q.op = "add_tag" /\ CommitRequest(r, q)
          /\ request' = [request EXCEPT ![r] = {}] /\ UNCHANGED <<clock, stale>>
          /\ \/ UNCHANGED <<db, log, written>>
             \/ /\ db' = [db EXCEPT !.tags = @ \union {q.arg}]
                /\ AddEntry(q.arg, q.stamp, "added")
    BY <1>7 DEF AddTag, CommitRequest
  <2>2. CASE UNCHANGED <<db, log, written>>
    BY <1>c, <2>1, <2>2
  <2>3. CASE db' = [db EXCEPT !.tags = @ \union {q.arg}] /\ AddEntry(q.arg, q.stamp, "added")
    <3>1. q.arg \in Tags
      BY <1>0, <2>1, OperationTypes
    <3>2. db'.blocked = db.blocked /\ db'.active = db.active /\ db'.tags = db.tags \union {q.arg}
      BY <1>0, <2>3 DEF ControlRows
    <3>3. /\ StampsFresh' /\ (InOrder(q.arg)' => log'[q.arg].what = "added")
          /\ \A d \in Subjects \ {q.arg} : log'[d] = log[d] /\ written'[d] = written[d]
      BY <1>0, <2>1, <2>3, <3>1, EntryAdded DEF Words
    <3>4. TagExplained(q.arg)'
      BY <3>2, <3>3 DEF TagExplained
    <3>5. BlockExplained' /\ RoleExplained' /\ \A t \in Tags \ {q.arg} : TagExplained(t)'
      BY <1>0, <1>b, <2>1, <3>1, <3>2, <3>3
    <3>6. RequestsPermitted'
      BY <2>1, RequestsLeft
    <3>. QED  BY <1>0, <3>3, <3>4, <3>5, <3>6 DEF ControlInv, AccessExplained
  <2>. QED  BY <2>1, <2>2, <2>3
<1>8. ASSUME NEW r \in AdminRequests, RemoveTag(r) PROVE ControlInv'
  <2>1. PICK q \in request[r] :
          /\ q.op = "remove_tag" /\ CommitRequest(r, q)
          /\ request' = [request EXCEPT ![r] = {}] /\ UNCHANGED <<clock, stale>>
          /\ db' = [db EXCEPT !.tags = @ \ {q.arg}]
          /\ AddEntry(q.arg, q.stamp, "removed")
    BY <1>8 DEF RemoveTag, CommitRequest
  <2>2. q.arg \in Tags
    BY <1>0, <2>1, OperationTypes
  <2>3. db'.blocked = db.blocked /\ db'.active = db.active /\ db'.tags = db.tags \ {q.arg}
    BY <1>0, <2>1 DEF ControlRows
  <2>4. /\ StampsFresh' /\ (InOrder(q.arg)' => log'[q.arg].what = "removed")
        /\ \A d \in Subjects \ {q.arg} : log'[d] = log[d] /\ written'[d] = written[d]
    BY <1>0, <2>1, <2>2, EntryAdded DEF Words
  <2>5. TagExplained(q.arg)'
    BY <2>3, <2>4 DEF TagExplained
  <2>6. BlockExplained' /\ RoleExplained' /\ \A t \in Tags \ {q.arg} : TagExplained(t)'
    BY <1>0, <1>b, <2>1, <2>2, <2>3, <2>4
  <2>7. RequestsPermitted'
    BY <2>1, RequestsLeft
  <2>. QED  BY <1>0, <2>4, <2>5, <2>6, <2>7 DEF ControlInv, AccessExplained
<1>9. ASSUME NEW r \in AdminRequests, Refuse(r) PROVE ControlInv'
  BY <1>9, <1>c DEF Refuse
<1>10. CASE UNCHANGED controlVars
  <2>1. UNCHANGED <<db, log, request, clock, written, stale>>
    BY <1>10 DEF controlVars
  <2>2. StampsFresh /\ RequestsPermitted
    BY DEF ControlInv
  <2>3. StampsFresh' /\ RequestsPermitted'
    BY <2>1, <2>2, Zenon DEF StampsFresh, RequestsPermitted
  <2>4. BlockExplained' /\ RoleExplained' /\ \A t \in Tags : TagExplained(t)'
    BY <1>0, <2>1, Zenon DEF BlockExplained, RoleExplained, TagExplained, InOrder
  <2>. QED  BY <1>0, <2>3, <2>4 DEF ControlInv, AccessExplained
<1>. QED
  BY <1>1, <1>2, <1>3, <1>4, <1>5, <1>6, <1>7, <1>8, <1>9, <1>10 DEF ControlNext

\* What the log shows last on a block, a tag or a role, by the times that the requests
\* took before their transactions, is what the user may do, for any number of requests
\* that overlap (restrictions.py:78, staff.py:30, notes_tags.py:61, base.py:103).  Two
\* cases are excepted: the entry committed last has an earlier time than one before it;
\* and a set_role whose is_active was cleared after it had read it, where the user may do
\* no more than the log says.
THEOREM AccessIsExplained == ControlSpec => []AuditExplainsAccess
<1>1. ControlInv => AuditExplainsAccess
  <2>. SUFFICES ASSUME AccessExplained PROVE AuditExplainsAccess
    BY DEF ControlInv
  <2>. QED  BY Zenon DEF AccessExplained, BlockExplained, RoleExplained, TagExplained, AuditExplainsAccess
<1>. QED  BY <1>1, ControlInvInit, ControlStep, PTL DEF ControlSpec

-----------------------------------------------------------------------------
(* The status of the bot in a group.  A handler under which the row has    *)
(* not changed writes it as if it had just read it.                        *)

HandlerShape ==
    /\ DOMAIN handler = Handlers
    /\ handler = [h \in Handlers |-> handler[h]]
    /\ \A h \in Handlers :
          handler[h] \in [kind : {handler[h].kind}, at : {handler[h].at}, new : {handler[h].new},
                          read : {handler[h].read}]

UpToDate(h) ==
    /\ handler[h].kind = "none" => handler[h].at = "lookup"
    /\ handler[h].kind # "none" /\ h \notin overtaken =>
          /\ handler[h].at = "write" => handler[h].read = group
          /\ handler[h].kind = "message" /\ handler[h].at \in {"read", "write"} =>
                handler[h].new = KeepPrivilege(group.status)

StatusInv == HandlerShape /\ PrivilegeKept /\ \A h \in Handlers : UpToDate(h)

LEMMA StatusInvInit == StatusInit => StatusInv
<1>. SUFFICES ASSUME StatusInit PROVE StatusInv
  OBVIOUS
<1>1. HandlerShape /\ \A h \in Handlers : handler[h] = Idle
  BY DEF StatusInit, HandlerShape, Idle
<1>2. PrivilegeKept
  BY DEF StatusInit, PrivilegeKept
<1>3. \A h \in Handlers : UpToDate(h)
  BY <1>1 DEF UpToDate, Idle
<1>. QED  BY <1>1, <1>2, <1>3 DEF StatusInv

\* A step of h that leaves the row as it is.
LEMMA HandlerMoves ==
    ASSUME StatusInv, NEW h \in Handlers, NEW q,
           q \in [kind : {q.kind}, at : {q.at}, new : {q.new}, read : {q.read}],
           handler' = [handler EXCEPT ![h] = q],
           UNCHANGED <<group, authority, doubtful>>,
           overtaken \ {h} \subseteq overtaken',
           UpToDate(h)'
    PROVE  StatusInv'
<1>. USE DEF StatusInv
<1>1. /\ handler'[h] = q
      /\ \A o \in Handlers \ {h} : handler'[o] = handler[o]
  BY DEF HandlerShape
<1>2. HandlerShape'
  BY <1>1 DEF HandlerShape
<1>3. PrivilegeKept'
  BY DEF PrivilegeKept
<1>4. ASSUME NEW o \in Handlers \ {h} PROVE UpToDate(o)'
  BY <1>1, <1>4 DEF UpToDate, KeepPrivilege
<1>. QED  BY <1>2, <1>3, <1>4

LEMMA WriteStep ==
    ASSUME StatusInv, NEW h \in Handlers, WriteGroup(h)
    PROVE  StatusInv'
<1>. DEFINE q == handler[h]
            status == Emitted(q.new, q.read.status, group.status)
            active == Emitted(q.kind = "message" \/ q.new \in Active, q.read.active, group.active)
<1>1. /\ q.at = "write"
      /\ group' = [status |-> status, active |-> active]
      /\ handler' = [handler EXCEPT ![h] = Idle]
      /\ authority' = IF q.kind = "message" THEN authority ELSE q.new
      /\ overtaken' = (IF group' = group THEN overtaken ELSE Informed) \ {h}
      /\ doubtful' = (h \in overtaken \/ (q.kind = "message" /\ doubtful))
  BY DEF WriteGroup
<1>2. group'.status = Emitted(q.new, q.read.status, group.status)
  BY <1>1
<1>3. /\ handler'[h] = Idle
      /\ \A o \in Handlers \ {h} : handler'[o] = handler[o]
  BY <1>1 DEF StatusInv, HandlerShape
<1>4. HandlerShape'
  BY <1>1, <1>3 DEF StatusInv, HandlerShape, Idle
<1>5. PrivilegeKept'
  <2>1. CASE h \in overtaken
    BY <1>1, <2>1 DEF PrivilegeKept
  <2>2. CASE h \notin overtaken /\ q.kind # "none"
    <3>1. group'.status = q.new
      BY <1>1, <1>2, <2>2 DEF StatusInv, UpToDate, Emitted
    <3>2. CASE q.kind # "message"
      BY <1>1, <3>1, <3>2 DEF PrivilegeKept
    <3>3. CASE q.kind = "message"
      <4>1. q.new = KeepPrivilege(group.status)
        BY <1>1, <2>2, <3>3 DEF StatusInv, UpToDate
      <4>2. (q.new \in Privileged) = (group.status \in Privileged)
        BY <4>1, StatusAssumption DEF KeepPrivilege
      <4>3. authority' = authority /\ (~doubtful' => ~doubtful)
        BY <1>1, <3>3
      <4>. QED  BY <3>1, <4>2, <4>3 DEF StatusInv, PrivilegeKept
    <3>. QED  BY <3>2, <3>3
  <2>3. CASE q.kind = "none"
    BY <1>1, <2>3 DEF StatusInv, UpToDate
  <2>. QED  BY <2>1, <2>2, <2>3
<1>6. ASSUME NEW o \in Handlers PROVE UpToDate(o)'
  <2>1. CASE o = h
    BY <1>3, <2>1 DEF UpToDate, Idle
  <2>2. CASE o # h /\ group' = group
    BY <1>1, <1>3, <2>2 DEF StatusInv, UpToDate, KeepPrivilege
  <2>3. CASE o # h /\ group' # group
    BY <1>1, <1>3, <2>3 DEF StatusInv, UpToDate, Informed
  <2>. QED  BY <2>1, <2>2, <2>3
<1>. QED  BY <1>4, <1>5, <1>6 DEF StatusInv

LEMMA StatusStep == StatusInv /\ [StatusNext]_statusVars => StatusInv'
<1>. SUFFICES ASSUME StatusInv, [StatusNext]_statusVars PROVE StatusInv'
  OBVIOUS
<1>1. ASSUME NEW h \in Handlers, NEW kind \in {"message", "membership", "access"}, NEW s,
             Arrive(h, kind, s)
      PROVE  StatusInv'
  <2>. DEFINE q == [Idle EXCEPT !.kind = kind, !.new = s,
                                !.at = IF kind = "message" THEN "lookup" ELSE "read"]
  <2>1. /\ q.kind = kind /\ q.at = IF kind = "message" THEN "lookup" ELSE "read"
        /\ q \in [kind : {q.kind}, at : {q.at}, new : {q.new}, read : {q.read}]
    BY DEF Idle
  <2>2. handler' = [handler EXCEPT ![h] = q] /\ UNCHANGED <<group, authority, overtaken, doubtful>>
    BY <1>1 DEF Arrive
  <2>. HIDE DEF q
  <2>3. UpToDate(h)'
    <3>1. handler'[h] = q
      BY <2>2 DEF StatusInv, HandlerShape
    <3>2. q.kind # "none" /\ q.at # "write" /\ (q.kind = "message" => q.at = "lookup")
      BY <2>1
    <3>. QED  BY <3>1, <3>2 DEF UpToDate
  <2>. QED  BY <2>1, <2>2, <2>3, HandlerMoves
<1>2. ASSUME NEW h \in Handlers, Lookup(h) PROVE StatusInv'
  <2>. DEFINE q == [handler[h] EXCEPT !.at = "read", !.new = KeepPrivilege(group.status)]
  <2>1. /\ q.kind = handler[h].kind /\ q.at = "read" /\ q.new = KeepPrivilege(group.status)
        /\ q \in [kind : {q.kind}, at : {q.at}, new : {q.new}, read : {q.read}]
    BY DEF StatusInv, HandlerShape
  <2>2. handler' = [handler EXCEPT ![h] = q] /\ UNCHANGED <<group, authority, overtaken, doubtful>>
    BY <1>2 DEF Lookup, StatusInv, HandlerShape
  <2>. HIDE DEF q
  <2>3. UpToDate(h)'
    <3>1. handler'[h] = q
      BY <2>2 DEF StatusInv, HandlerShape
    <3>2. group'.status = group.status /\ q.kind = "message"
      BY <1>2, <2>1, <2>2 DEF Lookup
    <3>. QED  BY <2>1, <3>1, <3>2 DEF UpToDate, KeepPrivilege
  <2>. QED  BY <2>1, <2>2, <2>3, HandlerMoves
<1>3. ASSUME NEW h \in Handlers, ReadGroup(h) PROVE StatusInv'
  <2>1. CASE handler' = [handler EXCEPT ![h] = Idle] /\ overtaken' = overtaken \ {h}
    <3>1. Idle \in [kind : {Idle.kind}, at : {Idle.at}, new : {Idle.new}, read : {Idle.read}]
      BY DEF Idle
    <3>2. UpToDate(h)'
      BY <2>1 DEF UpToDate, StatusInv, HandlerShape, Idle
    <3>. QED  BY <1>3, <2>1, <3>1, <3>2, HandlerMoves DEF ReadGroup
  <2>2. CASE handler' = [handler EXCEPT ![h].at = "write", ![h].read = group] /\ UNCHANGED overtaken
    <3>. DEFINE q == [handler[h] EXCEPT !.at = "write", !.read = group]
    <3>1. /\ q.kind = handler[h].kind /\ q.at = "write" /\ q.new = handler[h].new /\ q.read = group
          /\ q \in [kind : {q.kind}, at : {q.at}, new : {q.new}, read : {q.read}]
      BY DEF StatusInv, HandlerShape
    <3>2. handler' = [handler EXCEPT ![h] = q] /\ handler[h].at = "read"
          /\ UNCHANGED <<group, authority, overtaken, doubtful>>
      BY <1>3, <2>2 DEF ReadGroup, StatusInv, HandlerShape
    <3>. HIDE DEF q
    <3>3. UpToDate(h)'
      BY <3>1, <3>2 DEF UpToDate, StatusInv, HandlerShape, KeepPrivilege
    <3>. QED  BY <3>1, <3>2, <3>3, HandlerMoves
  <2>. QED  BY <1>3, <2>1, <2>2 DEF ReadGroup
<1>4. ASSUME NEW h \in Handlers, Drop(h) PROVE StatusInv'
  <2>1. Idle \in [kind : {Idle.kind}, at : {Idle.at}, new : {Idle.new}, read : {Idle.read}]
    BY DEF Idle
  <2>2. UpToDate(h)'
    BY <1>4 DEF Drop, UpToDate, StatusInv, HandlerShape, Idle
  <2>. QED  BY <1>4, <2>1, <2>2, HandlerMoves DEF Drop
<1>5. CASE UNCHANGED statusVars
  BY <1>5 DEF statusVars, StatusInv, HandlerShape, PrivilegeKept, UpToDate, KeepPrivilege
<1>. QED  BY <1>1, <1>2, <1>3, <1>4, <1>5, WriteStep DEF StatusNext

\* The rights of an administrator stay in the row of a group for as many messages as
\* come, and go when Telegram says so, but for a handler that had read the row, and not
\* one that had still to read it, when a change of it came in between
\* (group_status_sync.py:39).
THEOREM PrivilegeIsKept == StatusSpec => []PrivilegeKept
<1>1. StatusInv => PrivilegeKept
  BY DEF StatusInv
<1>. QED
  BY <1>1, StatusInvInit, StatusStep, PTL DEF StatusSpec

LEMMA IdleIsHandler == Idle \in Handler /\ NoGroupRow \in GroupRow
BY StatusAssumption DEF Idle, Handler, NoGroupRow, GroupRow

LEMMA StatusTypeStep == StatusTypeOK /\ [StatusNext]_statusVars => StatusTypeOK'
<1>. SUFFICES ASSUME StatusTypeOK, [StatusNext]_statusVars PROVE StatusTypeOK'
  OBVIOUS
<1>0. /\ group \in GroupRow /\ handler \in [Handlers -> Handler] /\ writes \in 0..MaxWrites
      /\ authority \in Statuses \union {Unknown} /\ overtaken \subseteq Handlers
      /\ doubtful \in BOOLEAN /\ MaxWrites \in Nat
  BY StatusAssumption DEF StatusTypeOK
<1>1. ASSUME NEW h \in Handlers, NEW q \in Handler, handler' = [handler EXCEPT ![h] = q],
             overtaken' \subseteq Handlers, UNCHANGED <<group, writes, authority, doubtful>>
      PROVE  StatusTypeOK'
  BY <1>0, <1>1 DEF StatusTypeOK
<1>2. ASSUME NEW h \in Handlers, NEW kind \in {"message", "membership", "access"},
             NEW s \in Statuses, Arrive(h, kind, s)
      PROVE  StatusTypeOK'
  <2>. DEFINE q == [Idle EXCEPT !.kind = kind, !.new = s,
                                !.at = IF kind = "message" THEN "lookup" ELSE "read"]
  <2>1. q \in Handler
    BY IdleIsHandler DEF Handler
  <2>2. handler' = [handler EXCEPT ![h] = q] /\ UNCHANGED <<group, writes, authority, overtaken, doubtful>>
    BY <1>2 DEF Arrive
  <2>. HIDE DEF q
  <2>. QED  BY <1>0, <1>1, <2>1, <2>2
<1>3. ASSUME NEW h \in Handlers, Lookup(h) PROVE StatusTypeOK'
  <2>. DEFINE q == [handler[h] EXCEPT !.at = "read", !.new = KeepPrivilege(group.status)]
  <2>1. KeepPrivilege(group.status) \in Statuses
    BY StatusAssumption DEF KeepPrivilege
  <2>2. q \in Handler
    BY <1>0, <2>1 DEF Handler
  <2>3. handler' = [handler EXCEPT ![h] = q] /\ UNCHANGED <<group, writes, authority, overtaken, doubtful>>
    BY <1>0, <1>3 DEF Lookup
  <2>. HIDE DEF q
  <2>. QED  BY <1>0, <1>1, <2>2, <2>3
<1>4. ASSUME NEW h \in Handlers, ReadGroup(h) PROVE StatusTypeOK'
  <2>. DEFINE q == [handler[h] EXCEPT !.at = "write", !.read = group]
  <2>1. q \in Handler
    BY <1>0 DEF Handler
  <2>2. /\ handler' = [handler EXCEPT ![h] = Idle] \/ handler' = [handler EXCEPT ![h] = q]
        /\ overtaken' \in {overtaken, overtaken \ {h}} /\ UNCHANGED <<group, writes, authority, doubtful>>
    BY <1>0, <1>4 DEF ReadGroup
  <2>. HIDE DEF q
  <2>. QED  BY <1>0, <1>1, <2>1, <2>2, IdleIsHandler
<1>5. ASSUME NEW h \in Handlers, WriteGroup(h) PROVE StatusTypeOK'
  <2>. DEFINE q == handler[h]
  <2>1. /\ q.new \in Statuses /\ q.read \in GroupRow
    BY <1>0 DEF Handler
  <2>2. /\ Emitted(q.new, q.read.status, group.status) \in Statuses \union {Unknown}
        /\ Emitted(q.kind = "message" \/ q.new \in Active, q.read.active, group.active) \in BOOLEAN
    BY <1>0, <2>1, Zenon DEF Emitted, GroupRow
  <2>3. /\ writes < MaxWrites /\ writes' = writes + 1
        /\ group' = [status |-> Emitted(q.new, q.read.status, group.status),
                     active |-> Emitted(q.kind = "message" \/ q.new \in Active, q.read.active, group.active)]
        /\ handler' = [handler EXCEPT ![h] = Idle]
        /\ authority' = IF q.kind = "message" THEN authority ELSE q.new
        /\ overtaken' = (IF group' = group THEN overtaken ELSE Informed) \ {h}
        /\ doubtful' \in BOOLEAN
    BY <1>5 DEF WriteGroup
  <2>4. group' \in GroupRow
    BY <2>2, <2>3 DEF GroupRow
  <2>5. handler' \in [Handlers -> Handler] /\ writes' \in 0..MaxWrites
    BY <1>0, <2>3, IdleIsHandler
  <2>6. authority' \in Statuses \union {Unknown} /\ overtaken' \subseteq Handlers
    BY <1>0, <2>1, <2>3 DEF Informed
  <2>. QED  BY <2>3, <2>4, <2>5, <2>6 DEF StatusTypeOK
<1>6. ASSUME NEW h \in Handlers, Drop(h) PROVE StatusTypeOK'
  BY <1>0, <1>1, <1>6, IdleIsHandler DEF Drop
<1>7. CASE UNCHANGED statusVars
  BY <1>7 DEF StatusTypeOK, statusVars
<1>8. Member \in Statuses
  BY StatusAssumption
<1>. QED  BY <1>2, <1>3, <1>4, <1>5, <1>6, <1>7, <1>8 DEF StatusNext

\* The row of a group has one of Telegram's statuses, or none (group_status_sync.py:39).
THEOREM StatusIsTyped == StatusSpec => []StatusTypeOK
<1>1. StatusInit => StatusTypeOK
  <2>. SUFFICES ASSUME StatusInit PROVE StatusTypeOK
    OBVIOUS
  <2>1. handler \in [Handlers -> Handler] /\ group \in GroupRow
    BY IdleIsHandler DEF StatusInit
  <2>2. writes \in 0..MaxWrites
    BY StatusAssumption DEF StatusInit
  <2>4. doubtful \in BOOLEAN
    BY Zenon DEF StatusInit
  <2>3. authority \in Statuses \union {Unknown} /\ overtaken \subseteq Handlers
    BY DEF StatusInit
  <2>. QED  BY <2>1, <2>2, <2>3, <2>4 DEF StatusTypeOK
<1>. QED  BY <1>1, StatusTypeStep, PTL DEF StatusSpec

-----------------------------------------------------------------------------
(* Messages in private.  What a sender is about to send is claimed, and by *)
(* no other sender.                                                        *)

SenderShape ==
    /\ DOMAIN stage = Senders /\ DOMAIN item = Senders /\ DOMAIN addressee = Senders
    /\ stage = [s \in Senders |-> stage[s]]
    /\ item = [s \in Senders |-> item[s]]
    /\ addressee = [s \in Senders |-> addressee[s]]

VipUnsent ==
    /\ vipSent \in [VipMessages -> Nat]
    /\ \A m \in VipMessages : m \notin vipClaimed => vipSent[m] = 0
    /\ \A s \in Senders : stage[s] = "vipSending" =>
          item[s] \in VipMessages \intersect vipClaimed /\ vipSent[item[s]] = 0
    /\ \A s, o \in Senders :
          s # o /\ stage[s] = "vipSending" /\ stage[o] = "vipSending" => item[s] # item[o]

VipInv == SenderShape /\ VipUnsent /\ VipSentOnce

Holds(s) == stage[s] \in {"sending", "settle", "release"}

\* What has reached a user is paid for by failures, but for one that is not to be sent again.
NotesPaid ==
    /\ failures \in Nat
    /\ delivered \in [Users -> [Keys -> Nat]]
    /\ DOMAIN note = Users /\ note = [u \in Users |-> note[u]]
    /\ \A u \in Users : DOMAIN note[u] = Keys /\ note[u] = [k \in Keys |-> note[u][k]]
    /\ \A u \in Users, k \in Keys : note[u][k] = "none" => delivered[u][k] <= failures
    /\ \A s \in Senders : Holds(s) =>
          /\ addressee[s] \in Users /\ item[s] \in Keys
          /\ note[addressee[s]][item[s]] = "claimed"
          /\ stage[s] # "settle" => delivered[addressee[s]][item[s]] <= failures
    /\ \A s, o \in Senders : s # o /\ Holds(s) /\ Holds(o) =>
          addressee[s] # addressee[o] \/ item[s] # item[o]

NoteInv == SenderShape /\ NotesPaid /\ NotifiedOnce

LEMMA RemindersInvInit == RemindersInit => VipInv /\ NoteInv
<1>. SUFFICES ASSUME RemindersInit PROVE VipInv /\ NoteInv
  OBVIOUS
<1>1. SenderShape /\ \A s \in Senders : stage[s] = "idle"
  BY DEF RemindersInit, SenderShape
<1>2. VipUnsent /\ VipSentOnce
  BY <1>1 DEF RemindersInit, VipUnsent, VipSentOnce
<1>3. delivered \in [Users -> [Keys -> Nat]] /\ failures = 0
      /\ \A u \in Users, k \in Keys : delivered[u][k] = 0
  BY DEF RemindersInit
<1>4. NotesPaid
  BY <1>1, <1>3 DEF RemindersInit, NotesPaid, Holds
<1>5. NotifiedOnce
  BY <1>3 DEF NotifiedOnce
<1>. QED  BY <1>1, <1>2, <1>4, <1>5 DEF VipInv, NoteInv

\* A sender goes on to a stage in which it sends no VIP message.
LEMMA VipKept ==
    ASSUME VipInv, SenderShape', NEW s \in Senders,
           stage'[s] # "vipSending",
           \A o \in Senders \ {s} : stage'[o] = stage[o] /\ item'[o] = item[o],
           UNCHANGED <<vipClaimed, vipSent>>
    PROVE  VipInv'
BY DEF VipInv, VipUnsent, VipSentOnce

\* A sender goes on to a stage in which it holds no reminder.
LEMMA NoteKept ==
    ASSUME NoteInv, SenderShape', NEW s \in Senders,
           stage'[s] \notin {"sending", "settle", "release"},
           \A o \in Senders \ {s} :
              stage'[o] = stage[o] /\ item'[o] = item[o] /\ addressee'[o] = addressee[o],
           UNCHANGED <<note, delivered>>,
           failures' \in {failures, failures + 1}
    PROVE  NoteInv'
<1>. USE DEF NoteInv
<1>1. failures' \in Nat /\ failures' >= failures
  BY DEF NotesPaid
<1>2. \A u \in Users, k \in Keys : delivered[u][k] \in Nat
  BY DEF NotesPaid
<1>3. \A o \in Senders : Holds(o)' => o # s /\ Holds(o)
  BY DEF Holds
<1>4. NotesPaid'
  BY <1>1, <1>2, <1>3 DEF NotesPaid
<1>5. NotifiedOnce'
  BY <1>1, <1>2 DEF NotesPaid, NotifiedOnce
<1>. QED  BY <1>4, <1>5

-----------------------------------------------------------------------------

LEMMA StopStep ==
    ASSUME SenderShape, NEW s \in Senders, Stop(s)
    PROVE  /\ SenderShape' /\ stage'[s] = "idle"
           /\ \A o \in Senders \ {s} :
                 stage'[o] = stage[o] /\ item'[o] = item[o] /\ addressee'[o] = addressee[o]
BY DEF SenderShape, Stop

LEMMA ClaimVipStep ==
    ASSUME VipInv, NoteInv, NEW s \in Senders, NEW m \in VipMessages, ClaimVip(s, m)
    PROVE  VipInv' /\ NoteInv'
<1>. USE DEF VipInv
<1>1. CASE m \in vipClaimed
  <2>1. UNCHANGED <<stage, item, addressee, note, delivered, failures, vipSent, vipClaimed>>
    BY <1>1 DEF ClaimVip, reached
  <2>2. SenderShape'
    BY <2>1 DEF SenderShape
  <2>3. VipInv'
    BY <2>1, <2>2 DEF VipUnsent, VipSentOnce
  <2>4. stage[s] = "vip"
    BY DEF ClaimVip
  <2>. QED  BY <2>1, <2>2, <2>3, <2>4, NoteKept
<1>2. CASE m \notin vipClaimed
  <2>1. /\ stage' = [stage EXCEPT ![s] = "vipSending"] /\ item' = [item EXCEPT ![s] = m]
        /\ vipClaimed' = vipClaimed \union {m}
        /\ UNCHANGED <<addressee, note, delivered, failures, vipSent>>
    BY <1>2 DEF ClaimVip, reached
  <2>2. /\ SenderShape' /\ stage'[s] = "vipSending" /\ item'[s] = m
        /\ \A o \in Senders \ {s} :
              stage'[o] = stage[o] /\ item'[o] = item[o] /\ addressee'[o] = addressee[o]
    BY <2>1 DEF SenderShape
  <2>3. NoteInv'
    BY <2>1, <2>2, NoteKept
  <2>4. vipSent[m] = 0
    BY <1>2 DEF VipUnsent
  <2>5. VipUnsent' /\ VipSentOnce'
    BY <1>2, <2>1, <2>2, <2>4 DEF VipUnsent, VipSentOnce
  <2>. QED  BY <2>2, <2>3, <2>5
<1>. QED  BY <1>1, <1>2

LEMMA SendVipStep ==
    ASSUME VipInv, NoteInv, NEW s \in Senders, SendVip(s)
    PROVE  VipInv' /\ NoteInv'
<1>. USE DEF VipInv
<1>1. stage[s] = "vipSending" /\ UNCHANGED <<note, delivered, vipClaimed>>
  BY DEF SendVip, KeepRows
<1>2. /\ SenderShape' /\ stage'[s] \in {"vip", "idle"}
      /\ \A o \in Senders \ {s} :
            stage'[o] = stage[o] /\ item'[o] = item[o] /\ addressee'[o] = addressee[o]
      /\ failures' \in {failures, failures + 1}
  <2>1. CASE /\ stage' = [stage EXCEPT ![s] = "vip"] /\ item' = [item EXCEPT ![s] = NoOne]
             /\ UNCHANGED <<addressee, failures>>
    BY <2>1 DEF SenderShape
  <2>2. CASE Stop(s) /\ Failure
    BY <2>2, StopStep DEF Failure
  <2>. QED  BY <2>1, <2>2 DEF SendVip
<1>3. NoteInv'
  BY <1>1, <1>2, NoteKept
<1>4. PICK n \in 0..1 : vipSent' = [vipSent EXCEPT ![item[s]] = @ + n]
  BY DEF SendVip
<1>5. /\ item[s] \in VipMessages /\ vipSent[item[s]] = 0 /\ item[s] \in vipClaimed
  BY <1>1 DEF VipUnsent
<1>6. /\ vipSent' \in [VipMessages -> Nat] /\ vipSent'[item[s]] = n
      /\ \A m \in VipMessages : m # item[s] => vipSent'[m] = vipSent[m]
  BY <1>4, <1>5 DEF VipUnsent
<1>7. \A o \in Senders : stage'[o] = "vipSending" => o # s /\ stage[o] = "vipSending" /\ item'[o] # item[s]
  BY <1>1, <1>2 DEF VipUnsent
<1>8. VipUnsent'
  BY <1>1, <1>2, <1>5, <1>6, <1>7 DEF VipUnsent
<1>9. VipSentOnce'
  BY <1>6 DEF VipSentOnce
<1>. QED  BY <1>2, <1>3, <1>8, <1>9

LEMMA ClaimStep ==
    ASSUME VipInv, NoteInv, NEW s \in Senders, NEW u \in Users, NEW k \in Keys, Claim(s, u, k)
    PROVE  VipInv' /\ NoteInv'
<1>. USE DEF NoteInv
<1>1. /\ note[u][k] = "none" /\ note' = [note EXCEPT ![u][k] = "claimed"]
      /\ stage' = [stage EXCEPT ![s] = "sending"]
      /\ item' = [item EXCEPT ![s] = k] /\ addressee' = [addressee EXCEPT ![s] = u]
      /\ UNCHANGED <<vipClaimed, vipSent, failures, delivered>>
  BY DEF Claim
<1>2. /\ SenderShape' /\ stage'[s] = "sending" /\ item'[s] = k /\ addressee'[s] = u
      /\ \A o \in Senders \ {s} :
            stage'[o] = stage[o] /\ item'[o] = item[o] /\ addressee'[o] = addressee[o]
  BY <1>1 DEF SenderShape
<1>3. VipInv'
  BY <1>1, <1>2, VipKept
<1>4. /\ DOMAIN note' = Users /\ note' = [v \in Users |-> note'[v]]
      /\ \A v \in Users : DOMAIN note'[v] = Keys /\ note'[v] = [l \in Keys |-> note'[v][l]]
      /\ \A v \in Users, l \in Keys :
            note'[v][l] = IF v = u /\ l = k THEN "claimed" ELSE note[v][l]
  BY <1>1 DEF NotesPaid
<1>5. \A o \in Senders \ {s} :
         /\ Holds(o)' = Holds(o)
         /\ Holds(o) => addressee[o] # u \/ item[o] # k
  BY <1>1, <1>2 DEF Holds, NotesPaid
<1>6. delivered[u][k] <= failures
  BY <1>1 DEF NotesPaid
<1>7. NotesPaid'
  <2>1. \A v \in Users, l \in Keys : note'[v][l] = "none" => delivered'[v][l] <= failures'
    BY <1>1, <1>4 DEF NotesPaid
  <2>2. ASSUME NEW o \in Senders, Holds(o)'
        PROVE  /\ addressee'[o] \in Users /\ item'[o] \in Keys
               /\ note'[addressee'[o]][item'[o]] = "claimed"
               /\ stage'[o] # "settle" => delivered'[addressee'[o]][item'[o]] <= failures'
    <3>1. CASE o = s
      BY <1>1, <1>2, <1>4, <1>6, <3>1
    <3>2. CASE o # s
      <4>1. /\ Holds(o) /\ addressee'[o] = addressee[o] /\ item'[o] = item[o] /\ stage'[o] = stage[o]
        BY <1>2, <1>5, <2>2, <3>2
      <4>2. /\ addressee[o] \in Users /\ item[o] \in Keys
            /\ note[addressee[o]][item[o]] = "claimed"
            /\ stage[o] # "settle" => delivered[addressee[o]][item[o]] <= failures
        BY <4>1 DEF NotesPaid
      <4>. QED  BY <1>1, <1>4, <4>1, <4>2
    <3>. QED  BY <3>1, <3>2
  <2>3. ASSUME NEW o \in Senders, NEW q \in Senders, o # q, Holds(o)', Holds(q)'
        PROVE  addressee'[o] # addressee'[q] \/ item'[o] # item'[q]
    <3>1. CASE o = s
      BY <1>2, <1>5, <2>3, <3>1
    <3>2. CASE q = s
      BY <1>2, <1>5, <2>3, <3>2
    <3>3. CASE o # s /\ q # s
      BY <1>2, <1>5, <2>3, <3>3 DEF NotesPaid
    <3>. QED  BY <3>1, <3>2, <3>3
  <2>4. failures' \in Nat /\ delivered' \in [Users -> [Keys -> Nat]]
    BY <1>1 DEF NotesPaid
  <2>. QED  BY <1>4, <2>1, <2>2, <2>3, <2>4 DEF NotesPaid
<1>8. NotifiedOnce'
  BY <1>1 DEF NotifiedOnce
<1>. QED  BY <1>2, <1>3, <1>7, <1>8

LEMMA SendReminderStep ==
    ASSUME VipInv, NoteInv, NEW s \in Senders, SendReminder(s)
    PROVE  VipInv' /\ NoteInv'
<1>. USE DEF NoteInv
<1>1. /\ stage[s] = "sending" /\ UNCHANGED <<note, vipClaimed, item, addressee, vipSent>>
  BY DEF SendReminder, KeepRows
<1>2. PICK n \in 0..1, next \in {"settle", "release"} :
         /\ next = "settle" => n = 1
         /\ IF next = "settle" THEN UNCHANGED failures ELSE Failure
         /\ delivered' = [delivered EXCEPT ![addressee[s]][item[s]] = @ + n]
         /\ stage' = [stage EXCEPT ![s] = next]
  BY DEF SendReminder
<1>3. /\ SenderShape' /\ stage'[s] = next
      /\ \A o \in Senders \ {s} : stage'[o] = stage[o]
  BY <1>1, <1>2 DEF SenderShape
<1>4. VipInv'
  BY <1>1, <1>2, <1>3, VipKept
<1>5. /\ addressee[s] \in Users /\ item[s] \in Keys
      /\ note[addressee[s]][item[s]] = "claimed"
      /\ delivered[addressee[s]][item[s]] <= failures
      /\ failures \in Nat
      /\ \A u \in Users, k \in Keys : delivered[u][k] \in Nat
  BY <1>1 DEF NotesPaid, Holds
<1>6. /\ delivered' \in [Users -> [Keys -> Nat]]
      /\ \A u \in Users, k \in Keys :
            delivered'[u][k] = IF u = addressee[s] /\ k = item[s] THEN delivered[u][k] + n
                               ELSE delivered[u][k]
  BY <1>2, <1>5 DEF NotesPaid
<1>7. failures' \in Nat /\ failures' = IF next = "settle" THEN failures ELSE failures + 1
  BY <1>2, <1>5 DEF Failure
<1>8. \A u \in Users, k \in Keys : note[u][k] = "none" => delivered'[u][k] <= failures'
  BY <1>5, <1>6, <1>7 DEF NotesPaid
<1>9. /\ Holds(s) /\ \A o \in Senders : Holds(o)' = Holds(o)
      /\ stage'[s] # "settle" => delivered'[addressee[s]][item[s]] <= failures'
  BY <1>1, <1>2, <1>3, <1>5, <1>6, <1>7 DEF Holds
<1>10. ASSUME NEW o \in Senders \ {s}, Holds(o), stage[o] # "settle"
       PROVE  delivered'[addressee[o]][item[o]] <= failures'
  <2>1. addressee[o] \in Users /\ item[o] \in Keys /\ delivered[addressee[o]][item[o]] <= failures
    BY <1>10 DEF NotesPaid
  <2>2. addressee[o] # addressee[s] \/ item[o] # item[s]
    BY <1>9, <1>10 DEF NotesPaid
  <2>3. delivered'[addressee[o]][item[o]] = delivered[addressee[o]][item[o]]
    BY <1>6, <2>1, <2>2
  <2>. QED  BY <1>5, <1>7, <2>1, <2>3
<1>11. NotesPaid'
  BY <1>1, <1>3, <1>6, <1>7, <1>8, <1>9, <1>10 DEF NotesPaid
<1>12. NotifiedOnce'
  <2>. SUFFICES ASSUME NEW u \in Users, NEW k \in Keys PROVE delivered'[u][k] <= 1 + failures'
    BY DEF NotifiedOnce
  <2>1. delivered[u][k] <= 1 + failures /\ delivered[u][k] \in Nat
    BY <1>5 DEF NotifiedOnce
  <2>. QED  BY <1>5, <1>6, <1>7, <2>1
<1>. QED  BY <1>3, <1>4, <1>11, <1>12

\* Settle and ReleaseClaim: the row of what s holds gets another status, "none" if the
\* sending has failed.
LEMMA SettledStep ==
    ASSUME VipInv, NoteInv, NEW s \in Senders, NEW status \in {"none", "sent"},
           stage[s] = IF status = "none" THEN "release" ELSE "settle",
           note' = [note EXCEPT ![addressee[s]][item[s]] = status], NextUser(s)
    PROVE  VipInv' /\ NoteInv'
<1>. USE DEF NoteInv
<1>1. /\ SenderShape' /\ stage'[s] = "users"
      /\ \A o \in Senders \ {s} :
            stage'[o] = stage[o] /\ item'[o] = item[o] /\ addressee'[o] = addressee[o]
      /\ UNCHANGED <<vipClaimed, vipSent, failures, delivered>>
  BY DEF NextUser, SenderShape, reached
<1>2. VipInv'
  BY <1>1, VipKept
<1>3. /\ addressee[s] \in Users /\ item[s] \in Keys /\ Holds(s)
      /\ status = "none" => delivered[addressee[s]][item[s]] <= failures
  BY DEF NotesPaid, Holds
<1>4. /\ DOMAIN note' = Users /\ note' = [v \in Users |-> note'[v]]
      /\ \A v \in Users : DOMAIN note'[v] = Keys /\ note'[v] = [l \in Keys |-> note'[v][l]]
      /\ \A v \in Users, l \in Keys :
            note'[v][l] = IF v = addressee[s] /\ l = item[s] THEN status ELSE note[v][l]
  BY <1>3 DEF NotesPaid
<1>5. \A o \in Senders : Holds(o)' =>
         /\ o # s /\ Holds(o)
         /\ addressee[o] # addressee[s] \/ item[o] # item[s]
  BY <1>1, <1>3 DEF Holds, NotesPaid
<1>6. \A u \in Users, k \in Keys : note'[u][k] = "none" => delivered[u][k] <= failures
  BY <1>3, <1>4 DEF NotesPaid
<1>7. NotesPaid'
  <2>1. ASSUME NEW o \in Senders, Holds(o)'
        PROVE  /\ addressee'[o] \in Users /\ item'[o] \in Keys
               /\ note'[addressee'[o]][item'[o]] = "claimed"
               /\ stage'[o] # "settle" => delivered'[addressee'[o]][item'[o]] <= failures'
    <3>1. /\ Holds(o) /\ addressee'[o] = addressee[o] /\ item'[o] = item[o] /\ stage'[o] = stage[o]
          /\ addressee[o] # addressee[s] \/ item[o] # item[s]
      BY <1>1, <1>5, <2>1
    <3>2. /\ addressee[o] \in Users /\ item[o] \in Keys
          /\ note[addressee[o]][item[o]] = "claimed"
          /\ stage[o] # "settle" => delivered[addressee[o]][item[o]] <= failures
      BY <3>1 DEF NotesPaid
    <3>. QED  BY <1>1, <1>4, <3>1, <3>2
  <2>2. ASSUME NEW o \in Senders, NEW q \in Senders, o # q, Holds(o)', Holds(q)'
        PROVE  addressee'[o] # addressee'[q] \/ item'[o] # item'[q]
    BY <1>1, <1>5, <2>2 DEF NotesPaid
  <2>3. failures' \in Nat /\ delivered' \in [Users -> [Keys -> Nat]]
    BY <1>1 DEF NotesPaid
  <2>4. \A u \in Users, k \in Keys : note'[u][k] = "none" => delivered'[u][k] <= failures'
    BY <1>1, <1>6
  <2>. QED  BY <1>4, <2>1, <2>2, <2>3, <2>4 DEF NotesPaid
<1>8. NotifiedOnce'
  BY <1>1 DEF NotifiedOnce
<1>. QED  BY <1>1, <1>2, <1>7, <1>8

LEMMA RemindersStep ==
    VipInv /\ NoteInv /\ [RemindersNext]_remindersVars => VipInv' /\ NoteInv'
<1>. SUFFICES ASSUME VipInv, NoteInv, [RemindersNext]_remindersVars PROVE VipInv' /\ NoteInv'
  OBVIOUS
<1>1. ASSUME UNCHANGED <<stage, item, addressee, note, delivered, failures, vipClaimed, vipSent>>
      PROVE  VipInv' /\ NoteInv'
  BY <1>1 DEF VipInv, NoteInv, SenderShape, VipUnsent, VipSentOnce, NotesPaid, NotifiedOnce, Holds
<1>2. ASSUME NEW s \in Senders, NEW next \in {"vip", "users"}, ~Holds(s),
             stage' = [stage EXCEPT ![s] = next],
             UNCHANGED <<item, addressee, note, delivered, failures, vipClaimed, vipSent>>
      PROVE  VipInv' /\ NoteInv'
  <2>1. /\ SenderShape' /\ stage'[s] = next
        /\ \A o \in Senders \ {s} : stage'[o] = stage[o]
    BY <1>2 DEF VipInv, SenderShape
  <2>. QED  BY <1>2, <2>1, VipKept, NoteKept
<1>3. ASSUME NEW s \in Senders, Stop(s), KeepRows, UNCHANGED reached,
             failures' \in {failures, failures + 1}
      PROVE  VipInv' /\ NoteInv'
  <2>1. UNCHANGED <<vipClaimed, vipSent, note, delivered>>
    BY <1>3 DEF KeepRows, reached
  <2>2. SenderShape
    BY DEF VipInv
  <2>3. /\ SenderShape' /\ stage'[s] = "idle"
        /\ \A o \in Senders \ {s} :
              stage'[o] = stage[o] /\ item'[o] = item[o] /\ addressee'[o] = addressee[o]
    BY <1>3, <2>2, StopStep
  <2>. QED  BY <1>3, <2>1, <2>3, VipKept, NoteKept
<1>4. CASE NextHour
  BY <1>1, <1>4 DEF NextHour, senderVars, reached
<1>5. CASE \E u \in Users : MarkPrivateStarted(u)
  BY <1>1, <1>5 DEF MarkPrivateStarted, senderVars, reached
<1>6. ASSUME NEW s \in Senders, StartLifecycle(s) PROVE VipInv' /\ NoteInv'
  BY <1>2, <1>6 DEF StartLifecycle, reached, Holds
<1>7. ASSUME NEW s \in Senders, StartNotices(s) PROVE VipInv' /\ NoteInv'
  BY <1>2, <1>7 DEF StartNotices, reached, Holds
<1>8. ASSUME NEW s \in Senders, Fail(s) PROVE VipInv' /\ NoteInv'
  BY <1>3, <1>8 DEF Fail, Failure
<1>9. ASSUME NEW s \in Senders, SenderStep(s) PROVE VipInv' /\ NoteInv'
  <2>1. CASE StartReminders(s)
    BY <1>2, <2>1 DEF StartReminders, KeepRows, reached, Holds
  <2>2. CASE \E u \in Users : PassOver(s, u)
    BY <1>1, <2>2 DEF PassOver, KeepRows, reached
  <2>3. CASE Settle(s)
    BY <2>3, SettledStep DEF Settle
  <2>4. CASE ReleaseClaim(s)
    BY <2>4, SettledStep DEF ReleaseClaim
  <2>5. CASE Complete(s)
    BY <1>3, <2>5 DEF Complete
  <2>. QED
    BY <1>9, <2>1, <2>2, <2>3, <2>4, <2>5, ClaimVipStep, SendVipStep, ClaimStep, SendReminderStep
       DEF SenderStep
<1>10. CASE UNCHANGED remindersVars
  BY <1>1, <1>10 DEF remindersVars, senderVars, reached
<1>. QED  BY <1>4, <1>5, <1>6, <1>7, <1>8, <1>9, <1>10 DEF RemindersNext

\* A VIP message never reaches its user twice, whatever senders overlap, and whichever of
\* them fail (vip_lifecycle.py:63).
THEOREM VipIsSentOnce == RemindersSpec => []VipSentOnce
<1>1. VipInv => VipSentOnce
  BY DEF VipInv
<1>. QED
  BY <1>1, RemindersInvInit, RemindersStep, PTL DEF RemindersSpec

\* A notification reaches its user at most once more often than senders fail
\* (retention_lifecycle.py:76).
THEOREM UsersAreNotifiedOnce == RemindersSpec => []NotifiedOnce
<1>1. NoteInv => NotifiedOnce
  BY DEF NoteInv
<1>. QED
  BY <1>1, RemindersInvInit, RemindersStep, PTL DEF RemindersSpec

\* No message of either kind reaches its user again but for a sending that failed behind it
\* (DeliveredOnce).
THEOREM MessagesAreDeliveredOnce == RemindersSpec => []DeliveredOnce
<1>1. NotifiedOnce /\ VipSentOnce => DeliveredOnce
  BY DEF DeliveredOnce
<1>. QED  BY <1>1, VipIsSentOnce, UsersAreNotifiedOnce, PTL

-----------------------------------------------------------------------------
(* Types of the messages in private. *)

RemindersTyped == RemindersTypeOK /\ VipInv /\ NoteInv

LEMMA RemindersTypedInit == RemindersInit => RemindersTyped
<1>. SUFFICES ASSUME RemindersInit PROVE RemindersTypeOK
  BY RemindersInvInit DEF RemindersTyped
<1>1. 0 \in Hours /\ \A u \in Users : << >> \in Seq(Hours)
  BY RemindersAssumption DEF Hours
<1>. QED  BY <1>1 DEF RemindersInit, RemindersTypeOK, Stages

LEMMA StopTyped ==
    ASSUME RemindersTypeOK, NEW s \in Senders, Stop(s)
    PROVE  /\ stage' \in [Senders -> Stages] /\ weekly' \in [Senders -> BOOLEAN]
           /\ startedAt' \in [Senders -> Hours] /\ due' \in [Senders -> SUBSET VipMessages]
           /\ audience' \in [Senders -> SUBSET Users]
           /\ item' \in [Senders -> Keys \union VipMessages \union {NoOne}]
           /\ addressee' \in [Senders -> Users \union {NoOne}]
<1>1. 0 \in Hours
  BY RemindersAssumption DEF Hours
<1>. QED  BY <1>1 DEF RemindersTypeOK, Stop, Stages

\* What a sender holds is of its type by the invariants of the claims.
LEMMA RemindersTypedStep == RemindersTyped /\ [RemindersNext]_remindersVars => RemindersTyped'
<1>. SUFFICES ASSUME RemindersTyped, [RemindersNext]_remindersVars PROVE RemindersTypeOK'
  BY RemindersStep DEF RemindersTyped
<1>. DEFINE HeldTyped == \A s \in Senders :
              /\ stage[s] \in {"sending", "settle", "release"} =>
                    addressee[s] \in Users /\ item[s] \in Keys
              /\ stage[s] = "vipSending" => item[s] \in VipMessages
<1>0. HeldTyped'
  <2>1. VipInv' /\ NoteInv'
    BY RemindersStep DEF RemindersTyped
  <2>. QED  BY <2>1 DEF VipInv, VipUnsent, NoteInv, NotesPaid, Holds
<1>. HIDE DEF HeldTyped
<1>. USE RemindersAssumption DEF RemindersTyped
<1>1. CASE NextHour
  BY <1>0, <1>1
     DEF RemindersTypeOK, NextHour, senderVars, reached, Hours, HeldTyped
<1>2. ASSUME NEW u \in Users, MarkPrivateStarted(u) PROVE RemindersTypeOK'
  BY <1>0, <1>2 DEF RemindersTypeOK, MarkPrivateStarted, senderVars, reached, HeldTyped
<1>3. ASSUME NEW s \in Senders, StartLifecycle(s) PROVE RemindersTypeOK'
  <2>1. due' \in [Senders -> SUBSET VipMessages]
    BY <1>3 DEF RemindersTypeOK, StartLifecycle, VipMessages, Warned, Expired
  <2>2. stage' \in [Senders -> Stages] /\ jobs' \in Nat
    BY <1>3 DEF RemindersTypeOK, StartLifecycle, Stages
  <2>. QED
    BY <1>0, <1>3, <2>1, <2>2 DEF RemindersTypeOK, StartLifecycle, reached, HeldTyped
<1>4. ASSUME NEW s \in Senders, StartNotices(s) PROVE RemindersTypeOK'
  <2>1. stage' \in [Senders -> Stages] /\ weekly' \in [Senders -> BOOLEAN] /\ jobs' \in Nat
    BY <1>4 DEF RemindersTypeOK, StartNotices, Stages
  <2>2. startedAt' \in [Senders -> Hours] /\ audience' \in [Senders -> SUBSET Users]
    BY <1>4 DEF RemindersTypeOK, StartNotices
  <2>. QED
    BY <1>0, <1>4, <2>1, <2>2 DEF RemindersTypeOK, StartNotices, reached, HeldTyped
<1>5. ASSUME NEW s \in Senders, Fail(s) PROVE RemindersTypeOK'
  <2>1. failures' \in Nat
    BY <1>5 DEF RemindersTypeOK, Fail, Failure
  <2>. QED
    BY <1>0, <1>5, <2>1, StopTyped DEF RemindersTypeOK, Fail, KeepRows, reached, HeldTyped
<1>6. ASSUME NEW s \in Senders, NEW m \in VipMessages, ClaimVip(s, m) PROVE RemindersTypeOK'
  <2>1. stage' \in [Senders -> Stages] /\ due' \in [Senders -> SUBSET VipMessages]
        /\ item' \in [Senders -> Keys \union VipMessages \union {NoOne}]
        /\ vipClaimed' \subseteq VipMessages
    BY <1>6 DEF RemindersTypeOK, ClaimVip, Stages
  <2>. QED  BY <1>0, <1>6, <2>1 DEF RemindersTypeOK, ClaimVip, reached, HeldTyped
<1>7. ASSUME NEW s \in Senders, SendVip(s) PROVE RemindersTypeOK'
  <2>1. PICK n \in 0..1 : vipSent' = [vipSent EXCEPT ![item[s]] = @ + n]
    BY <1>7 DEF SendVip
  <2>2. vipSent' \in [VipMessages -> Nat]
    BY <1>7, <2>1 DEF RemindersTypeOK, SendVip
  <2>3. /\ stage' \in [Senders -> Stages] /\ weekly' \in [Senders -> BOOLEAN]
        /\ startedAt' \in [Senders -> Hours] /\ due' \in [Senders -> SUBSET VipMessages]
        /\ audience' \in [Senders -> SUBSET Users]
        /\ item' \in [Senders -> Keys \union VipMessages \union {NoOne}]
        /\ addressee' \in [Senders -> Users \union {NoOne}] /\ failures' \in Nat
    <3>1. CASE Stop(s) /\ Failure
      BY <3>1, StopTyped DEF RemindersTypeOK, Failure
    <3>2. CASE /\ stage' = [stage EXCEPT ![s] = "vip"] /\ item' = [item EXCEPT ![s] = NoOne]
               /\ UNCHANGED <<weekly, startedAt, due, audience, addressee, failures>>
      BY <3>2 DEF RemindersTypeOK, Stages
    <3>. QED  BY <1>7, <3>1, <3>2 DEF SendVip
  <2>4. UNCHANGED <<hour, begun, note, lastSent, vipClaimed, jobs, reminders, delivered, crowded>>
    BY <1>7 DEF SendVip, KeepRows
  <2>. QED  BY <1>0, <2>2, <2>3, <2>4 DEF RemindersTypeOK, HeldTyped
<1>8. ASSUME NEW s \in Senders, StartReminders(s) PROVE RemindersTypeOK'
  <2>1. stage' \in [Senders -> Stages] /\ startedAt' \in [Senders -> Hours]
        /\ audience' \in [Senders -> SUBSET Users]
    BY <1>8 DEF RemindersTypeOK, StartReminders, Stages
  <2>. QED
    BY <1>0, <1>8, <2>1 DEF RemindersTypeOK, StartReminders, KeepRows, reached, HeldTyped
<1>9. ASSUME NEW s \in Senders, NEW u \in Users, NEW k \in Keys, Claim(s, u, k)
      PROVE  RemindersTypeOK'
  <2>1. stage' \in [Senders -> Stages]
        /\ item' \in [Senders -> Keys \union VipMessages \union {NoOne}]
        /\ addressee' \in [Senders -> Users \union {NoOne}]
    BY <1>9 DEF RemindersTypeOK, Claim, Stages
  <2>2. note' \in [Users -> [Keys -> {"none", "claimed", "sent"}]]
    BY <1>9 DEF RemindersTypeOK, Claim
  <2>3. crowded' \in [Users -> Nat]
    BY <1>9 DEF RemindersTypeOK, Claim
  <2>. QED  BY <1>0, <1>9, <2>1, <2>2, <2>3 DEF RemindersTypeOK, Claim, HeldTyped
<1>10. ASSUME NEW s \in Senders, NEW u \in Users, PassOver(s, u) PROVE RemindersTypeOK'
  <2>1. audience' \in [Senders -> SUBSET Users]
    BY <1>10 DEF RemindersTypeOK, PassOver
  <2>. QED
    BY <1>0, <1>10, <2>1 DEF RemindersTypeOK, PassOver, KeepRows, reached, HeldTyped
<1>11. ASSUME NEW s \in Senders, SendReminder(s) PROVE RemindersTypeOK'
  <2>1. stage[s] = "sending" /\ addressee[s] \in Users /\ item[s] \in Keys
        /\ startedAt[s] \in Hours
    BY <1>11 DEF RemindersTypeOK, SendReminder
  <2>2. PICK n \in 0..1, next \in {"settle", "release"} :
           /\ IF next = "settle" THEN UNCHANGED failures ELSE Failure
           /\ delivered' = [delivered EXCEPT ![addressee[s]][item[s]] = @ + n]
           /\ reminders' = IF n = 0 THEN reminders
                           ELSE [reminders EXCEPT ![addressee[s]] = Append(@, startedAt[s])]
           /\ stage' = [stage EXCEPT ![s] = next]
    BY <1>11 DEF SendReminder
  <2>3. delivered' \in [Users -> [Keys -> Nat]]
    BY <2>1, <2>2 DEF RemindersTypeOK
  <2>4. reminders' \in [Users -> Seq(Hours)]
    BY <2>1, <2>2 DEF RemindersTypeOK
  <2>5. stage' \in [Senders -> Stages] /\ failures' \in Nat
    BY <2>2 DEF RemindersTypeOK, Stages, Failure
  <2>6. UNCHANGED <<hour, begun, note, lastSent, vipClaimed, jobs, weekly, startedAt, due,
                    audience, item, addressee, crowded, vipSent>>
    BY <1>11 DEF SendReminder, KeepRows
  <2>. QED  BY <1>0, <2>3, <2>4, <2>5, <2>6 DEF RemindersTypeOK, HeldTyped
<1>12. ASSUME NEW s \in Senders, NEW status \in {"none", "sent"},
              stage[s] \in {"settle", "release"},
              note' = [note EXCEPT ![addressee[s]][item[s]] = status],
              lastSent' = lastSent \/ lastSent' = [lastSent EXCEPT ![addressee[s]] = startedAt[s]],
              NextUser(s)
       PROVE  RemindersTypeOK'
  <2>1. addressee[s] \in Users /\ item[s] \in Keys /\ startedAt[s] \in Hours
    BY <1>12 DEF RemindersTypeOK
  <2>2. note' \in [Users -> [Keys -> {"none", "claimed", "sent"}]]
    BY <1>12, <2>1 DEF RemindersTypeOK
  <2>3. lastSent' \in [Users -> Hours \union {Unsent}]
    BY <1>12, <2>1 DEF RemindersTypeOK
  <2>4. stage' \in [Senders -> Stages] /\ audience' \in [Senders -> SUBSET Users]
        /\ addressee' \in [Senders -> Users \union {NoOne}]
        /\ item' \in [Senders -> Keys \union VipMessages \union {NoOne}]
    BY <1>12 DEF RemindersTypeOK, NextUser, Stages
  <2>. QED
    BY <1>0, <1>12, <2>2, <2>3, <2>4 DEF RemindersTypeOK, NextUser, reached, HeldTyped
<1>13. ASSUME NEW s \in Senders, Settle(s) PROVE RemindersTypeOK'
  BY <1>12, <1>13 DEF Settle
<1>14. ASSUME NEW s \in Senders, ReleaseClaim(s) PROVE RemindersTypeOK'
  BY <1>12, <1>14 DEF ReleaseClaim
<1>15. ASSUME NEW s \in Senders, Complete(s) PROVE RemindersTypeOK'
  BY <1>0, <1>15, StopTyped DEF RemindersTypeOK, Complete, KeepRows, reached, HeldTyped
<1>16. CASE UNCHANGED remindersVars
  BY <1>0, <1>16 DEF RemindersTypeOK, remindersVars, senderVars, reached, HeldTyped
<1>. QED
  BY <1>1, <1>2, <1>3, <1>4, <1>5, <1>6, <1>7, <1>8, <1>9, <1>10, <1>11, <1>13, <1>14, <1>15,
     <1>16
     DEF RemindersNext, SenderStep

\* Rows, senders and histories are of their types; a sender that holds a claim has a user and
\* a key (retention_lifecycle.py:76).
THEOREM RemindersAreTyped == RemindersSpec => []RemindersTypeOK
<1>1. RemindersTyped => RemindersTypeOK
  BY DEF RemindersTyped
<1>. QED  BY <1>1, RemindersTypedInit, RemindersTypedStep, PTL DEF RemindersSpec

-----------------------------------------------------------------------------
(* Reminders within one cool-down.  Those that are sent and those that are *)
(* about to be are as many as the user has been crowded and failures have  *)
(* been, or one more.  With one more, the cool-down lies behind whatever   *)
(* is sent next: no sender is at work on the user but one that started in  *)
(* it or later, and where none is the user's last reminder is as late.     *)

Sent(u, h) == {i \in DOMAIN reminders[u] : WithinCooldown(h, reminders[u][i])}
Sending(u, h) ==
    {s \in Senders : stage[s] = "sending" /\ addressee[s] = u /\ WithinCooldown(h, startedAt[s])}
Within(u, h) == Cardinality(Sent(u, h)) + Cardinality(Sending(u, h))

AtWork(s) == stage[s] \in {"sending", "settle"}

Behind(u, h) ==
    /\ \A s \in Senders : AtWork(s) /\ addressee[s] = u => h <= startedAt[s]
    /\ ~BeingSent(u) => lastSent[u] # Unsent /\ h <= lastSent[u]

Spaced(u, h) ==
    \/ Within(u, h) <= crowded[u] + failures
    \/ Within(u, h) <= 1 + crowded[u] + failures /\ Behind(u, h)

SpacedInv == RemindersTyped /\ \A u \in Users, h \in Hours : Spaced(u, h)

LEMMA WithinFinite ==
    ASSUME RemindersTypeOK, NEW u \in Users, NEW h \in Hours
    PROVE  /\ IsFiniteSet(Sent(u, h)) /\ Cardinality(Sent(u, h)) \in Nat
           /\ IsFiniteSet(Sending(u, h)) /\ Cardinality(Sending(u, h)) \in Nat
           /\ Within(u, h) \in Nat
<1>1. IsFiniteSet(DOMAIN reminders[u])
  <2>1. DOMAIN reminders[u] = 1..Len(reminders[u]) /\ Len(reminders[u]) \in Nat
    BY DEF RemindersTypeOK
  <2>. QED  BY <2>1, FS_Interval
<1>2. Sent(u, h) \subseteq DOMAIN reminders[u] /\ Sending(u, h) \subseteq Senders
  BY DEF Sent, Sending
<1>3. IsFiniteSet(Senders)
  BY RemindersAssumption
<1>4. IsFiniteSet(Sent(u, h)) /\ IsFiniteSet(Sending(u, h))
  BY <1>1, <1>2, <1>3, FS_Subset
<1>5. Cardinality(Sent(u, h)) \in Nat /\ Cardinality(Sending(u, h)) \in Nat
  BY <1>4, FS_CardinalityType
<1>. QED  BY <1>4, <1>5 DEF Within

LEMMA SpacedInvInit == RemindersInit => SpacedInv
<1>. SUFFICES ASSUME RemindersInit, NEW u \in Users, NEW h \in Hours PROVE Spaced(u, h)
  BY RemindersTypedInit DEF SpacedInv
<1>1. Sent(u, h) = {} /\ Sending(u, h) = {}
  BY DEF RemindersInit, Sent, Sending
<1>2. Within(u, h) = 0
  BY <1>1, FS_EmptySet DEF Within
<1>. QED  BY <1>2 DEF Spaced, RemindersInit

\* A step that sends and claims nothing: a failure pays for what it leaves undone.
LEMMA SpacedKept ==
    ASSUME SpacedInv, RemindersTyped', NEW u \in Users, NEW h \in Hours,
           UNCHANGED <<reminders, crowded>>,
           \A s \in Senders : AtWork(s)' =>
              /\ AtWork(s) /\ stage'[s] = stage[s] /\ addressee'[s] = addressee[s]
              /\ startedAt'[s] = startedAt[s],
           \/ failures' = failures + 1
           \/ failures' = failures /\ (Behind(u, h) => BeingSent(u)' \/
                 (UNCHANGED lastSent /\ ~BeingSent(u)) \/
                 (lastSent'[u] # Unsent /\ h <= lastSent'[u]))
    PROVE  Spaced(u, h)'
<1>1. /\ Within(u, h) \in Nat /\ crowded[u] \in Nat /\ failures \in Nat
      /\ Cardinality(Sending(u, h)) \in Nat /\ Cardinality(Sent(u, h)) \in Nat
      /\ IsFiniteSet(Sending(u, h))
  BY WithinFinite DEF SpacedInv, RemindersTyped, RemindersTypeOK
<1>2. Sent(u, h)' = Sent(u, h)
  BY DEF Sent
<1>3. Sending(u, h)' \subseteq Sending(u, h)
  BY DEF Sending, AtWork
<1>4. Cardinality(Sending(u, h)') <= Cardinality(Sending(u, h)) /\ Cardinality(Sending(u, h)') \in Nat
  <2>1. IsFiniteSet(Sending(u, h)')
    BY <1>1, <1>3, FS_Subset
  <2>. QED  BY <1>1, <1>3, <2>1, FS_Subset, FS_CardinalityType
<1>5. Within(u, h)' <= Within(u, h) /\ Within(u, h)' \in Nat
  BY <1>1, <1>2, <1>4 DEF Within
<1>6. Spaced(u, h) /\ crowded'[u] = crowded[u]
  BY DEF SpacedInv
<1>7. CASE failures' = failures + 1
  BY <1>1, <1>5, <1>6, <1>7 DEF Spaced
<1>8. CASE failures' = failures /\ ~Behind(u, h)
  BY <1>1, <1>5, <1>6, <1>8 DEF Spaced
<1>9. CASE failures' = failures /\ Behind(u, h)
  <2>1. /\ BeingSent(u)' \/ (UNCHANGED lastSent /\ ~BeingSent(u)) \/
              (lastSent'[u] # Unsent /\ h <= lastSent'[u])
    <3>1. failures' # failures + 1
      BY <1>1, <1>9
    <3>. QED  BY <1>9, <3>1
  <2>2. ~BeingSent(u)' => lastSent'[u] # Unsent /\ h <= lastSent'[u]
    BY <1>9, <2>1 DEF Behind
  <2>3. \A s \in Senders : AtWork(s)' /\ addressee'[s] = u =>
           h <= startedAt'[s]
    BY <1>9 DEF Behind
  <2>4. Behind(u, h)'
    BY <2>2, <2>3 DEF Behind
  <2>. QED  BY <1>1, <1>5, <1>6, <1>9, <2>4 DEF Spaced
<1>. QED  BY <1>7, <1>8, <1>9

LEMMA SpacedClaim ==
    ASSUME SpacedInv, RemindersTyped', NEW u \in Users, NEW h \in Hours,
           NEW s \in Senders, NEW v \in Users, NEW k \in Keys, Claim(s, v, k)
    PROVE  Spaced(u, h)'
<1>. DEFINE t == startedAt[s]
<1>0. /\ stage[s] = "users" /\ Cool(v, t)
      /\ stage' = [stage EXCEPT ![s] = "sending"]
      /\ addressee' = [addressee EXCEPT ![s] = v]
      /\ crowded' = IF BeingSent(v) THEN [crowded EXCEPT ![v] = @ + 1] ELSE crowded
      /\ UNCHANGED <<lastSent, startedAt, failures, reminders>>
  BY DEF Claim
<1>1. /\ Within(u, h) \in Nat /\ crowded[u] \in Nat /\ failures \in Nat
      /\ Cardinality(Sending(u, h)) \in Nat /\ Cardinality(Sent(u, h)) \in Nat
      /\ IsFiniteSet(Sending(u, h)) /\ t \in Nat /\ h \in Nat /\ Cooldown \in Nat
      /\ lastSent[u] # Unsent => lastSent[u] \in Nat
  <2>1. RemindersTypeOK
    BY DEF SpacedInv, RemindersTyped
  <2>2. crowded[u] \in Nat /\ failures \in Nat /\ t \in Hours /\ lastSent[u] \in Hours \union {Unsent}
    BY <2>1 DEF RemindersTypeOK
  <2>3. Hours \subseteq Nat /\ Cooldown \in Nat
    BY RemindersAssumption DEF Hours
  <2>. QED  BY <2>1, <2>2, <2>3, WithinFinite
<1>2. /\ stage'[s] = "sending" /\ addressee'[s] = v /\ startedAt'[s] = t
      /\ \A o \in Senders \ {s} : stage'[o] = stage[o] /\ addressee'[o] = addressee[o]
      /\ crowded'[v] = IF BeingSent(v) THEN crowded[v] + 1 ELSE crowded[v]
      /\ u # v => crowded'[u] = crowded[u]
  BY <1>0 DEF SpacedInv, RemindersTyped, RemindersTypeOK
<1>3. Sent(u, h)' = Sent(u, h)
  BY <1>0 DEF Sent
<1>4. Spaced(u, h)
  BY DEF SpacedInv
<1>5. CASE u # v
  <2>1. Sending(u, h)' = Sending(u, h)
    BY <1>0, <1>2, <1>5 DEF Sending
  <2>2. Within(u, h)' = Within(u, h)
    BY <1>3, <2>1 DEF Within
  <2>3. BeingSent(u)' = BeingSent(u)
    BY <1>0, <1>2, <1>5 DEF BeingSent
  <2>4. Behind(u, h) => Behind(u, h)'
    BY <1>0, <1>2, <1>5, <2>3 DEF Behind, AtWork
  <2>. QED  BY <1>0, <1>2, <1>4, <1>5, <2>2, <2>4 DEF Spaced
<1>6. CASE u = v
  <2>1. BeingSent(u)'
    BY <1>2, <1>6 DEF BeingSent
  <2>2. CASE ~WithinCooldown(h, t)
    <3>1. Sending(u, h)' = Sending(u, h)
      BY <1>0, <1>2, <2>2 DEF Sending
    <3>2. Within(u, h)' = Within(u, h)
      BY <1>3, <3>1 DEF Within
    <3>3. CASE BeingSent(u)
      BY <1>0, <1>1, <1>2, <1>4, <1>6, <3>2, <3>3 DEF Spaced
    <3>4. CASE ~BeingSent(u)
      <4>1. Behind(u, h) => h <= t
        BY <1>0, <1>1, <1>6, <3>4 DEF Behind, Cool
      <4>2. Behind(u, h) => Behind(u, h)'
        BY <1>0, <1>2, <2>1, <4>1 DEF Behind, AtWork
      <4>. QED  BY <1>0, <1>1, <1>2, <1>4, <1>6, <3>2, <3>4, <4>2 DEF Spaced
    <3>. QED  BY <3>3, <3>4
  <2>3. CASE WithinCooldown(h, t)
    <3>1. Sending(u, h)' = Sending(u, h) \union {s} /\ s \notin Sending(u, h)
      BY <1>0, <1>2, <1>6, <2>3 DEF Sending
    <3>2. Within(u, h)' = Within(u, h) + 1
      <4>1. Cardinality(Sending(u, h) \union {s}) = Cardinality(Sending(u, h)) + 1
        BY <1>1, <3>1, FS_AddElement
      <4>. QED  BY <1>1, <1>3, <3>1, <4>1 DEF Within
    <3>3. h <= t
      BY <2>3 DEF WithinCooldown
    <3>4. CASE BeingSent(u)
      <4>1. Behind(u, h) => Behind(u, h)'
        BY <1>0, <1>2, <2>1, <3>3 DEF Behind, AtWork
      <4>. QED  BY <1>0, <1>1, <1>2, <1>4, <1>6, <3>2, <3>4, <4>1 DEF Spaced
    <3>5. CASE ~BeingSent(u)
      <4>1. ~Behind(u, h)
        BY <1>0, <1>1, <1>6, <2>3, <3>5 DEF Behind, Cool, WithinCooldown
      <4>2. \A o \in Senders : AtWork(o) => addressee[o] # u
        BY <3>5 DEF BeingSent, AtWork
      <4>3. Behind(u, h)'
        BY <1>0, <1>2, <2>1, <3>3, <4>2 DEF Behind, AtWork
      <4>. QED  BY <1>0, <1>1, <1>2, <1>4, <1>6, <3>2, <3>5, <4>1, <4>3 DEF Spaced
    <3>. QED  BY <3>4, <3>5
  <2>. QED  BY <2>2, <2>3
<1>. QED  BY <1>5, <1>6

\* What s was about to send it has sent, or not.
LEMMA SpacedSend ==
    ASSUME SpacedInv, NEW u \in Users, NEW h \in Hours, NEW s \in Senders, SendReminder(s)
    PROVE  Spaced(u, h)'
<1>. DEFINE t == startedAt[s]
            v == addressee[s]
<1>0. /\ stage[s] = "sending" /\ UNCHANGED <<lastSent, startedAt, addressee, crowded>>
  BY DEF SendReminder, KeepRows
<1>1. PICK n \in 0..1, next \in {"settle", "release"} :
         /\ IF next = "settle" THEN UNCHANGED failures ELSE Failure
         /\ reminders' = IF n = 0 THEN reminders
                         ELSE [reminders EXCEPT ![v] = Append(@, t)]
         /\ stage' = [stage EXCEPT ![s] = next]
  BY DEF SendReminder
<1>2. RemindersTypeOK
  BY DEF SpacedInv, RemindersTyped
<1>3. /\ Within(u, h) \in Nat /\ crowded[u] \in Nat /\ failures \in Nat
      /\ Cardinality(Sending(u, h)) \in Nat /\ Cardinality(Sent(u, h)) \in Nat
      /\ IsFiniteSet(Sending(u, h)) /\ IsFiniteSet(Sent(u, h))
  BY <1>2, WithinFinite DEF RemindersTypeOK
<1>4. stage'[s] = next /\ \A o \in Senders \ {s} : stage'[o] = stage[o]
  BY <1>1, <1>2 DEF RemindersTypeOK
<1>5. v \in Users /\ t \in Hours
  BY <1>0, <1>2 DEF RemindersTypeOK
<1>6. Sending(u, h)' = Sending(u, h) \ {s}
  BY <1>0, <1>4 DEF Sending
<1>7. Within(u, h)' \in Nat /\ Within(u, h)' <= Within(u, h)
  <2>1. CASE u = v /\ WithinCooldown(h, t)
    <3>1. s \in Sending(u, h)
      BY <1>0, <2>1 DEF Sending
    <3>2. Cardinality(Sending(u, h)') = Cardinality(Sending(u, h)) - 1
      BY <1>3, <1>6, <3>1, FS_RemoveElement
    <3>3. Cardinality(Sent(u, h)') \in {Cardinality(Sent(u, h)), Cardinality(Sent(u, h)) + 1}
      <4>1. CASE n = 0
        <5>1. Sent(u, h)' = Sent(u, h)
          BY <1>1, <4>1 DEF Sent
        <5>. QED  BY <5>1
      <4>2. CASE n = 1
        <5>1. reminders[v] \in Seq(Hours) /\ reminders'[v] = Append(reminders[v], t)
          BY <1>1, <1>2, <1>5, <4>2 DEF RemindersTypeOK
        <5>. DEFINE N == Len(reminders[v])
        <5>2. /\ N \in Nat /\ DOMAIN reminders[v] = 1..N /\ DOMAIN reminders'[v] = 1..(N + 1)
              /\ reminders'[v][N + 1] = t
              /\ \A i \in 1..N : reminders'[v][i] = reminders[v][i]
          BY <1>5, <5>1
        <5>. HIDE DEF N
        <5>3. Sent(u, h)' = Sent(u, h) \union {N + 1} /\ N + 1 \notin Sent(u, h)
          BY <2>1, <5>2 DEF Sent
        <5>4. Cardinality(Sent(u, h) \union {N + 1}) = Cardinality(Sent(u, h)) + 1
          BY <1>3, <5>3, FS_AddElement
        <5>. QED  BY <5>3, <5>4
      <4>. QED  BY <4>1, <4>2
    <3>4. Cardinality(Sending(u, h)') \in Nat
      BY <1>3, <1>6, FS_RemoveElement, FS_CardinalityType
    <3>. QED  BY <1>3, <3>2, <3>3, <3>4 DEF Within
  <2>2. CASE ~(u = v /\ WithinCooldown(h, t))
    <3>1. s \notin Sending(u, h)
      BY <2>2 DEF Sending
    <3>2. Sending(u, h)' = Sending(u, h)
      BY <1>6, <3>1
    <3>3. Sent(u, h)' = Sent(u, h)
      <4>1. CASE u # v \/ n = 0
        BY <1>1, <1>2, <1>5, <4>1 DEF Sent, RemindersTypeOK
      <4>2. CASE u = v /\ n = 1
        <5>1. reminders[v] \in Seq(Hours) /\ reminders'[v] = Append(reminders[v], t)
          BY <1>1, <1>2, <1>5, <4>2 DEF RemindersTypeOK
        <5>. DEFINE N == Len(reminders[v])
        <5>2. /\ N \in Nat /\ DOMAIN reminders[v] = 1..N /\ DOMAIN reminders'[v] = 1..(N + 1)
              /\ reminders'[v][N + 1] = t
              /\ \A i \in 1..N : reminders'[v][i] = reminders[v][i]
          BY <1>5, <5>1
        <5>. HIDE DEF N
        <5>. QED  BY <2>2, <4>2, <5>2 DEF Sent
      <4>. QED  BY <4>1, <4>2
    <3>. QED  BY <1>3, <3>2, <3>3 DEF Within
  <2>. QED  BY <2>1, <2>2
<1>8. Spaced(u, h) /\ crowded'[u] = crowded[u]
  BY <1>0 DEF SpacedInv
<1>9. CASE next = "release"
  <2>1. failures' = failures + 1
    BY <1>1, <1>9 DEF Failure
  <2>. QED  BY <1>3, <1>7, <1>8, <2>1 DEF Spaced
<1>10. CASE next = "settle"
  <2>1. Behind(u, h) => Behind(u, h)'
    <3>1. \A o \in Senders : AtWork(o)' = AtWork(o)
      BY <1>0, <1>4, <1>10 DEF AtWork
    <3>2. BeingSent(u)' = BeingSent(u)
      BY <1>0, <3>1 DEF BeingSent, AtWork
    <3>. QED  BY <1>0, <3>1, <3>2 DEF Behind
  <2>. QED  BY <1>1, <1>3, <1>7, <1>8, <1>10, <2>1 DEF Spaced
<1>. QED  BY <1>9, <1>10

\* The claim becomes a reminder of the time at which its job started, which the cool-down
\* counts from, or is released: then it was a failure.
LEMMA SpacedSettled ==
    ASSUME SpacedInv, RemindersTyped', NEW u \in Users, NEW h \in Hours, NEW s \in Senders,
           Settle(s) \/ ReleaseClaim(s)
    PROVE  Spaced(u, h)'
<1>. DEFINE v == addressee[s]
<1>0. /\ stage[s] \in {"settle", "release"}
      /\ stage' = [stage EXCEPT ![s] = "users"]
      /\ addressee' = [addressee EXCEPT ![s] = NoOne]
      /\ UNCHANGED <<startedAt, crowded, failures, reminders>>
      /\ stage[s] = "settle" => lastSent' = [lastSent EXCEPT ![v] = startedAt[s]]
      /\ stage[s] = "release" => lastSent' = lastSent
  BY DEF Settle, ReleaseClaim, NextUser, reached
<1>2. RemindersTypeOK /\ RemindersTypeOK'
  BY DEF SpacedInv, RemindersTyped
<1>3. v \in Users /\ startedAt[s] \in Hours
  BY <1>0, <1>2 DEF RemindersTypeOK
<1>4. stage'[s] = "users" /\ \A o \in Senders \ {s} :
         stage'[o] = stage[o] /\ addressee'[o] = addressee[o]
  BY <1>0, <1>2 DEF RemindersTypeOK
<1>5. \A o \in Senders : AtWork(o)' =>
         /\ AtWork(o) /\ stage'[o] = stage[o] /\ addressee'[o] = addressee[o]
         /\ startedAt'[o] = startedAt[o]
  BY <1>0, <1>4 DEF AtWork
<1>6. ASSUME Behind(u, h), ~BeingSent(u)'
      PROVE  \/ UNCHANGED lastSent /\ ~BeingSent(u)
             \/ lastSent'[u] # Unsent /\ h <= lastSent'[u]
  <2>1. CASE stage[s] = "settle" /\ u = v
    <3>1. h <= startedAt[s]
      BY <1>6, <2>1 DEF Behind, AtWork
    <3>2. lastSent'[u] = startedAt[s]
      BY <1>0, <1>2, <1>3, <2>1 DEF RemindersTypeOK
    <3>3. startedAt[s] # Unsent
      BY <1>3, RemindersAssumption DEF Hours
    <3>. QED  BY <3>1, <3>2, <3>3
  <2>2. CASE ~(stage[s] = "settle" /\ u = v)
    <3>1. lastSent'[u] = lastSent[u]
      BY <1>0, <1>2, <1>3, <2>2 DEF RemindersTypeOK
    <3>2. \A o \in Senders : AtWork(o) /\ addressee[o] = u => AtWork(o)' /\ addressee'[o] = u
      BY <1>0, <1>4, <2>2 DEF AtWork
    <3>3. ~BeingSent(u)
      BY <1>6, <3>2 DEF BeingSent, AtWork
    <3>. QED  BY <1>6, <3>1, <3>3 DEF Behind
  <2>. QED  BY <2>1, <2>2
<1>. QED  BY <1>0, <1>5, <1>6, SpacedKept

LEMMA SpacedStep == SpacedInv /\ [RemindersNext]_remindersVars => SpacedInv'
<1>. SUFFICES ASSUME SpacedInv, [RemindersNext]_remindersVars, NEW u \in Users, NEW h \in Hours
              PROVE  Spaced(u, h)'
  BY RemindersTypedStep DEF SpacedInv
<1>0. RemindersTyped' /\ RemindersTypeOK
  BY RemindersTypedStep DEF SpacedInv, RemindersTyped
<1>1. ASSUME UNCHANGED <<reminders, crowded, lastSent, failures>>,
             \A s \in Senders : AtWork(s) \/ AtWork(s)' =>
                /\ AtWork(s) /\ stage'[s] = stage[s] /\ addressee'[s] = addressee[s]
                /\ startedAt'[s] = startedAt[s]
      PROVE  Spaced(u, h)'
  <2>1. BeingSent(u) => BeingSent(u)'
    BY <1>1 DEF BeingSent, AtWork
  <2>. QED  BY <1>0, <1>1, <2>1, SpacedKept
<1>9. ASSUME NEW s \in Senders, ~AtWork(s), ~AtWork(s)',
             UNCHANGED <<reminders, crowded, lastSent, failures>>,
             \A o \in Senders \ {s} :
                stage'[o] = stage[o] /\ addressee'[o] = addressee[o] /\ startedAt'[o] = startedAt[o]
      PROVE  Spaced(u, h)'
  <2>1. \A o \in Senders : AtWork(o) \/ AtWork(o)' =>
           /\ AtWork(o) /\ stage'[o] = stage[o] /\ addressee'[o] = addressee[o]
           /\ startedAt'[o] = startedAt[o]
    BY <1>9 DEF AtWork
  <2>. QED  BY <1>1, <1>9, <2>1
<1>2. ASSUME NEW s \in Senders, Stop(s)
      PROVE  \A o \in Senders : AtWork(o)' =>
                /\ o # s /\ AtWork(o) /\ stage'[o] = stage[o] /\ addressee'[o] = addressee[o]
                /\ startedAt'[o] = startedAt[o]
  BY <1>0, <1>2 DEF Stop, AtWork, RemindersTypeOK
<1>3. CASE NextHour \/ (\E v \in Users : MarkPrivateStarted(v)) \/ UNCHANGED remindersVars
           \/ \E s \in Senders, v \in Users : PassOver(s, v)
  <2>1. UNCHANGED <<reminders, crowded, lastSent, failures, stage, addressee, startedAt>>
    BY <1>3 DEF NextHour, MarkPrivateStarted, PassOver, KeepRows, senderVars, reached,
                remindersVars
  <2>. QED  BY <1>1, <2>1 DEF AtWork
<1>4. ASSUME NEW s \in Senders, StartLifecycle(s) \/ StartNotices(s) \/ StartReminders(s)
      PROVE  Spaced(u, h)'
  <2>1. /\ stage[s] \in {"idle", "vip"}
        /\ \E next \in {"vip", "users"} : stage' = [stage EXCEPT ![s] = next]
        /\ UNCHANGED <<reminders, crowded, lastSent, failures, addressee>>
        /\ startedAt' = startedAt \/ startedAt' = [startedAt EXCEPT ![s] = hour]
    BY <1>4 DEF StartLifecycle, StartNotices, StartReminders, KeepRows, reached
  <2>2. ~AtWork(s) /\ ~AtWork(s)'
    BY <1>0, <2>1 DEF AtWork, RemindersTypeOK
  <2>3. \A o \in Senders \ {s} :
           stage'[o] = stage[o] /\ addressee'[o] = addressee[o] /\ startedAt'[o] = startedAt[o]
    BY <1>0, <2>1 DEF RemindersTypeOK
  <2>. QED  BY <1>9, <2>1, <2>2, <2>3
<1>5. ASSUME NEW s \in Senders, NEW m \in VipMessages, ClaimVip(s, m) PROVE Spaced(u, h)'
  <2>1. /\ stage[s] = "vip"
        /\ stage' = stage \/ stage' = [stage EXCEPT ![s] = "vipSending"]
        /\ UNCHANGED <<reminders, crowded, lastSent, failures, addressee, startedAt>>
    BY <1>5 DEF ClaimVip, reached
  <2>2. ~AtWork(s) /\ ~AtWork(s)' /\ \A o \in Senders \ {s} : stage'[o] = stage[o]
    BY <1>0, <2>1 DEF AtWork, RemindersTypeOK
  <2>. QED  BY <1>9, <2>1, <2>2
<1>6. ASSUME NEW s \in Senders, SendVip(s) PROVE Spaced(u, h)'
  <2>1. stage[s] = "vipSending" /\ UNCHANGED <<reminders, crowded, lastSent>>
    BY <1>6 DEF SendVip, KeepRows
  <2>2. CASE Stop(s) /\ Failure
    BY <1>0, <1>2, <2>1, <2>2, SpacedKept DEF Failure
  <2>3. CASE /\ stage' = [stage EXCEPT ![s] = "vip"] /\ item' = [item EXCEPT ![s] = NoOne]
             /\ UNCHANGED <<weekly, startedAt, due, audience, addressee, failures>>
    <3>1. ~AtWork(s) /\ ~AtWork(s)' /\ \A o \in Senders \ {s} : stage'[o] = stage[o]
      BY <1>0, <2>1, <2>3 DEF AtWork, RemindersTypeOK
    <3>. QED  BY <1>9, <2>1, <2>3, <3>1
  <2>. QED  BY <1>6, <2>2, <2>3 DEF SendVip
<1>7. ASSUME NEW s \in Senders, Complete(s) PROVE Spaced(u, h)'
  <2>1. stage[s] = "users" /\ Stop(s) /\ UNCHANGED <<reminders, crowded, lastSent, failures>>
    BY <1>7 DEF Complete, KeepRows, reached
  <2>2. /\ ~AtWork(s) /\ ~AtWork(s)'
        /\ \A o \in Senders \ {s} :
              stage'[o] = stage[o] /\ addressee'[o] = addressee[o] /\ startedAt'[o] = startedAt[o]
    BY <1>0, <2>1 DEF AtWork, Stop, RemindersTypeOK
  <2>. QED  BY <1>9, <2>1, <2>2
<1>8. ASSUME NEW s \in Senders, Fail(s) PROVE Spaced(u, h)'
  <2>1. Stop(s) /\ failures' = failures + 1 /\ UNCHANGED <<reminders, crowded>>
    BY <1>8 DEF Fail, Failure, reached
  <2>. QED  BY <1>0, <1>2, <2>1, SpacedKept
<1>10. ASSUME NEW s \in Senders, SenderStep(s) PROVE Spaced(u, h)'
  <2>1. ASSUME NEW v \in Users, NEW k \in Keys, Claim(s, v, k) PROVE Spaced(u, h)'
    BY <1>0, <2>1, SpacedClaim
  <2>2. ASSUME SendReminder(s) PROVE Spaced(u, h)'
    BY <2>2, SpacedSend
  <2>3. ASSUME Settle(s) \/ ReleaseClaim(s) PROVE Spaced(u, h)'
    BY <1>0, <2>3, SpacedSettled
  <2>. QED  BY <1>3, <1>4, <1>5, <1>6, <1>7, <1>10, <2>1, <2>2, <2>3 DEF SenderStep
<1>. QED
  BY <1>3, <1>4, <1>8, <1>10 DEF RemindersNext

\* Jobs that start within one cool-down send a user one reminder between them, and one
\* more for each claim made while another sender was at work on the user, before it noted
\* what it had sent, and for each failure (engagement.py:228).  A row that a dead sender
\* leaves claimed excuses no claim, and is paid for by its one failure.  Where nothing fails
\* and no senders overlap on a user this is what the plan asks
\* (2026-07-23-onboarding-retention.md:14).
THEOREM RemindersAreSpaced == RemindersSpec => []RemindersSpaced
<1>1. SpacedInv => RemindersSpaced
  <2>. SUFFICES ASSUME SpacedInv, NEW u \in Users, NEW h \in Hours
                PROVE  Cardinality(Sent(u, h)) <= 1 + crowded[u] + failures
    BY DEF RemindersSpaced, Reminded, Sent
  <2>1. RemindersTypeOK /\ Spaced(u, h)
    BY DEF SpacedInv, RemindersTyped
  <2>2. /\ Cardinality(Sent(u, h)) \in Nat /\ Cardinality(Sending(u, h)) \in Nat
        /\ crowded[u] \in Nat /\ failures \in Nat
    BY <2>1, WithinFinite DEF RemindersTypeOK
  <2>. QED  BY <2>1, <2>2 DEF Spaced, Within
<1>. QED  BY <1>1, SpacedInvInit, SpacedStep, PTL DEF RemindersSpec

-----------------------------------------------------------------------------
(* Pinned achievements.  Any two selections that are not empty both take   *)
(* the first slot, and so collide: rows that a DELETE has not seen let the *)
(* INSERT fail, unless there is nothing to insert.                         *)

FeaturedShape ==
    /\ selection \in [Selections -> Seq(Items)]
    /\ \A f \in {progress, seen, deleted, inserted} :
          DOMAIN f = Selections /\ f = [r \in Selections |-> f[r]]

\* A selection deletes all there is, or nothing, and there is only one that deletes.
DeletesAll ==
    /\ \A r \in Selections : progress[r] = "deleting" =>
          seen[r] = {} \/ \E x \in Committed : seen[r] = RowsOf(x)
    /\ \A r \in Selections : progress[r] \in {"deleted", "inserted"} => deleted[r] \in {{}, featured}
    /\ \A r, o \in Selections : r # o /\ progress[r] \in {"deleted", "inserted"}
                                      /\ progress[o] \in {"deleted", "inserted"} =>
          deleted[r] = {} \/ deleted[o] = {}

\* What is inserted collides neither with what will stay nor with what others insert.
InsertsAlone ==
    /\ \A r \in Selections : progress[r] = "inserted" =>
          inserted[r] = RowsOf(r) /\ Conflicts(r, featured \ deleted[r]) = {}
    /\ \A r, o \in Selections : r # o /\ progress[r] = "inserted" /\ progress[o] = "inserted" =>
          RowsOf(r) = {} \/ RowsOf(o) = {}

FeaturedInv == FeaturedShape /\ DeletesAll /\ InsertsAlone /\ FeaturedWhole

LEMMA RowsKnowTheirRequest ==
    ASSUME FeaturedShape, NEW r \in Selections
    PROVE  /\ \A x \in RowsOf(r) : x.by = r
           /\ RowsOf(r) # {} => \E x \in RowsOf(r) : x.slot = 1
<1>1. \A x \in RowsOf(r) : x.by = r
  BY DEF RowsOf
<1>2. ASSUME RowsOf(r) # {} PROVE \E x \in RowsOf(r) : x.slot = 1
  <2>1. Len(selection[r]) \in Nat
    BY DEF FeaturedShape
  <2>2. PICK n \in 1..Len(selection[r]) : TRUE
    BY <1>2 DEF RowsOf
  <2>3. 1 \in 1..Len(selection[r])
    BY <2>1, <2>2
  <2>4. [slot |-> 1, item |-> selection[r][1], by |-> r] \in RowsOf(r)
    BY <2>3 DEF RowsOf
  <2>. QED  BY <2>4
<1>. QED  BY <1>1, <1>2

LEMMA SelectionsCollide ==
    ASSUME FeaturedShape, NEW r \in Selections, NEW o \in Selections,
           NEW T, RowsOf(o) \subseteq T, Conflicts(r, T) = {}
    PROVE  RowsOf(r) = {} \/ RowsOf(o) = {}
BY RowsKnowTheirRequest DEF Conflicts

\* What is pinned is nothing, or a selection that is not empty.
LEMMA PinnedIsASelection ==
    ASSUME FeaturedInv
    PROVE  featured = {} \/ \E x \in Committed : featured = RowsOf(x)
BY DEF FeaturedInv, FeaturedWhole

LEMMA FeaturedInvInit == FeaturedInit => FeaturedInv
<1>. SUFFICES ASSUME FeaturedInit PROVE FeaturedInv
  OBVIOUS
<1>1. FeaturedShape
  BY DEF FeaturedInit, FeaturedShape
<1>2. \A r \in Selections : progress[r] = "new"
  BY DEF FeaturedInit
<1>3. Committed = {} /\ featured = {}
  BY <1>2 DEF FeaturedInit, Committed
<1>. QED
  BY <1>1, <1>2, <1>3 DEF FeaturedInv, DeletesAll, InsertsAlone, FeaturedWhole

\* A step of r that pins nothing.
LEMMA NothingPinned ==
    ASSUME FeaturedInv, FeaturedShape', NEW r \in Selections,
           \A o \in Selections \ {r} : /\ progress'[o] = progress[o] /\ selection'[o] = selection[o]
                                       /\ seen'[o] = seen[o] /\ deleted'[o] = deleted[o]
                                       /\ inserted'[o] = inserted[o],
           UNCHANGED featured,
           progress[r] # "committed", progress'[r] # "committed",
           progress'[r] = "deleting" => seen'[r] = featured,
           progress'[r] \in {"deleted", "inserted"} =>
              /\ deleted'[r] \in {{}, featured}
              /\ \A o \in Selections \ {r} : progress[o] \in {"deleted", "inserted"} =>
                    deleted'[r] = {} \/ deleted[o] = {},
           progress'[r] = "inserted" =>
              /\ selection' = selection
              /\ inserted'[r] = RowsOf(r) /\ Conflicts(r, featured \ deleted'[r]) = {}
              /\ \A o \in Selections \ {r} : progress[o] = "inserted" =>
                    RowsOf(r) = {} \/ RowsOf(o) = {}
    PROVE  FeaturedInv'
<1>. USE DEF FeaturedInv
<1>1. Committed' = Committed /\ r \notin Committed
  BY DEF Committed
<1>2. \A o \in Selections \ {r} : RowsOf(o)' = RowsOf(o)
  BY DEF RowsOf
<1>3. FeaturedWhole'
  BY <1>1, <1>2 DEF FeaturedWhole, Committed
<1>4. DeletesAll'
  <2>1. ASSUME NEW o \in Selections, progress'[o] = "deleting"
        PROVE  seen'[o] = {} \/ \E x \in Committed' : seen'[o] = RowsOf(x)'
    <3>1. CASE o = r
      BY <1>1, <1>2, <2>1, <3>1, PinnedIsASelection DEF Committed
    <3>2. CASE o # r
      BY <1>1, <1>2, <2>1, <3>2 DEF DeletesAll, Committed
    <3>. QED  BY <3>1, <3>2
  <2>2. \A o \in Selections : progress'[o] \in {"deleted", "inserted"} => deleted'[o] \in {{}, featured'}
    BY DEF DeletesAll
  <2>3. ASSUME NEW o \in Selections, NEW q \in Selections, o # q,
               progress'[o] \in {"deleted", "inserted"}, progress'[q] \in {"deleted", "inserted"}
        PROVE  deleted'[o] = {} \/ deleted'[q] = {}
    BY <2>3 DEF DeletesAll
  <2>. QED  BY <2>1, <2>2, <2>3 DEF DeletesAll
<1>5. InsertsAlone'
  <2>1. ASSUME NEW o \in Selections, progress'[o] = "inserted"
        PROVE  inserted'[o] = RowsOf(o)' /\ Conflicts(o, featured \ deleted[o])' = {}
    <3>1. RowsOf(o)' = RowsOf(o)
      BY <1>2, <2>1 DEF RowsOf
    <3>2. inserted'[o] = RowsOf(o) /\ Conflicts(o, featured \ deleted'[o]) = {}
      BY <2>1 DEF InsertsAlone
    <3>3. Conflicts(o, featured \ deleted[o])' = Conflicts(o, featured \ deleted'[o])
      BY <3>1 DEF Conflicts
    <3>. QED  BY <3>1, <3>2, <3>3
  <2>2. ASSUME NEW o \in Selections, NEW q \in Selections, o # q,
               progress'[o] = "inserted", progress'[q] = "inserted"
        PROVE  RowsOf(o)' = {} \/ RowsOf(q)' = {}
    <3>1. RowsOf(o)' = RowsOf(o) /\ RowsOf(q)' = RowsOf(q)
      BY <1>2, <2>2 DEF RowsOf
    <3>. QED  BY <2>2, <3>1 DEF InsertsAlone
  <2>. QED  BY <2>1, <2>2 DEF InsertsAlone
<1>. QED  BY <1>3, <1>4, <1>5

\* The steps at which a transaction ends without a commit.
LEMMA CloseStep ==
    ASSUME FeaturedInv, NEW r \in Selections, NEW from, from # "committed",
           Close(r, from, "refused"), UNCHANGED <<featured, selection>>
    PROVE  FeaturedInv'
<1>1. /\ FeaturedShape' /\ progress[r] # "committed" /\ progress'[r] = "refused"
      /\ \A o \in Selections \ {r} : /\ progress'[o] = progress[o] /\ selection'[o] = selection[o]
                                     /\ seen'[o] = seen[o] /\ deleted'[o] = deleted[o]
                                     /\ inserted'[o] = inserted[o]
  BY DEF Close, Move, FeaturedInv, FeaturedShape
<1>. QED  BY <1>1, NothingPinned

LEMMA CommitSelectionStep ==
    ASSUME FeaturedInv, NEW r \in Selections, CommitSelection(r)
    PROVE  FeaturedInv'
<1>. USE DEF FeaturedInv
<1>1. /\ progress[r] = "inserted" /\ progress'[r] = "committed" /\ selection' = selection
      /\ \A o \in Selections \ {r} : /\ progress'[o] = progress[o] /\ seen'[o] = seen[o]
                                     /\ deleted'[o] = deleted[o] /\ inserted'[o] = inserted[o]
      /\ FeaturedShape'
  BY DEF CommitSelection, Close, Move, FeaturedShape
<1>2. /\ featured' = (featured \ deleted[r]) \union RowsOf(r)
      /\ Conflicts(r, featured \ deleted[r]) = {}
  BY <1>1 DEF CommitSelection, InsertsAlone
<1>3. \A o \in Selections : RowsOf(o)' = RowsOf(o)
  BY <1>1 DEF RowsOf
<1>4. Committed' = Committed \union {r}
  BY <1>1 DEF Committed
<1>5. ASSUME deleted[r] = {}, featured # {} PROVE RowsOf(r) = {} /\ featured' = featured
  <2>1. PICK x \in Committed : featured = RowsOf(x)
    BY <1>5, PinnedIsASelection
  <2>. QED  BY <1>2, <1>5, <2>1, SelectionsCollide DEF Committed
<1>6. featured' = RowsOf(r) \/ (featured' = featured /\ featured # {})
  <2>1. deleted[r] \in {{}, featured}
    BY <1>1 DEF DeletesAll
  <2>2. CASE deleted[r] = featured \/ featured = {}
    BY <1>2, <2>2
  <2>3. CASE deleted[r] = {} /\ featured # {}
    BY <1>5, <2>3
  <2>. QED  BY <2>1, <2>2, <2>3
<1>7. FeaturedWhole'
  <2>1. \E x \in Committed' : featured' = RowsOf(x)
    BY <1>4, <1>6, PinnedIsASelection
  <2>. QED  BY <1>3, <2>1, <1>4 DEF FeaturedWhole, Committed
<1>8. ASSUME NEW o \in Selections \ {r}, progress[o] \in {"deleted", "inserted"}, deleted[o] # {}
      PROVE  featured' = featured /\ deleted[o] = featured
  <2>1. deleted[r] = {} /\ deleted[o] = featured
    BY <1>1, <1>8 DEF DeletesAll
  <2>. QED  BY <1>5, <1>8, <2>1
<1>9. DeletesAll'
  <2>1. ASSUME NEW o \in Selections, progress'[o] = "deleting"
        PROVE  seen'[o] = {} \/ \E x \in Committed' : seen'[o] = RowsOf(x)'
    <3>1. seen'[o] = seen[o] /\ progress[o] = "deleting"
      BY <1>1, <2>1
    <3>. QED  BY <1>3, <1>4, <3>1 DEF DeletesAll, Committed
  <2>2. ASSUME NEW o \in Selections, progress'[o] \in {"deleted", "inserted"}
        PROVE  deleted'[o] \in {{}, featured'}
    BY <1>1, <1>8, <2>2
  <2>3. ASSUME NEW o \in Selections, NEW q \in Selections, o # q,
               progress'[o] \in {"deleted", "inserted"}, progress'[q] \in {"deleted", "inserted"}
        PROVE  deleted'[o] = {} \/ deleted'[q] = {}
    BY <1>1, <2>3 DEF DeletesAll
  <2>. QED  BY <2>1, <2>2, <2>3 DEF DeletesAll
<1>10. InsertsAlone'
  <2>1. ASSUME NEW o \in Selections, progress'[o] = "inserted"
        PROVE  inserted'[o] = RowsOf(o)' /\ Conflicts(o, featured \ deleted[o])' = {}
    <3>1. o # r /\ progress[o] = "inserted" /\ inserted'[o] = inserted[o] /\ deleted'[o] = deleted[o]
      BY <1>1, <2>1
    <3>2. inserted[o] = RowsOf(o) /\ Conflicts(o, featured \ deleted[o]) = {}
      BY <3>1 DEF InsertsAlone
    <3>3. RowsOf(o) = {} \/ RowsOf(r) = {}
      BY <1>1, <3>1 DEF InsertsAlone
    <3>4. featured' \ deleted[o] \subseteq (featured \ deleted[o]) \union RowsOf(r)
      BY <1>2
    <3>5. Conflicts(o, featured' \ deleted[o]) = {}
      BY <3>2, <3>3, <3>4 DEF Conflicts
    <3>6. Conflicts(o, featured \ deleted[o])' = Conflicts(o, featured' \ deleted[o])
      BY <1>3, <3>1 DEF Conflicts
    <3>. QED  BY <1>3, <3>1, <3>2, <3>5, <3>6
  <2>2. ASSUME NEW o \in Selections, NEW q \in Selections, o # q,
               progress'[o] = "inserted", progress'[q] = "inserted"
        PROVE  RowsOf(o)' = {} \/ RowsOf(q)' = {}
    BY <1>1, <1>3, <2>2 DEF InsertsAlone
  <2>. QED  BY <2>1, <2>2 DEF InsertsAlone
<1>. QED  BY <1>1, <1>7, <1>9, <1>10

LEMMA EndDeleteStep ==
    ASSUME FeaturedInv, NEW r \in Selections, EndDelete(r)
    PROVE  FeaturedInv'
<1>. USE DEF FeaturedInv
<1>1. /\ progress[r] = "deleting" /\ progress'[r] = "deleted"
      /\ FeaturedShape' /\ deleted'[r] = seen[r] \intersect featured
      /\ UNCHANGED <<featured, selection, seen, inserted>>
      /\ \A o \in Selections \ {r} : progress'[o] = progress[o] /\ deleted'[o] = deleted[o]
  BY DEF EndDelete, Move, FeaturedShape
<1>2. deleted'[r] \in {{}, featured}
  <2>1. CASE seen[r] = {} \/ featured = {}
    BY <1>1, <2>1
  <2>2. CASE seen[r] # {} /\ featured # {}
    <3>1. PICK x \in Committed : seen[r] = RowsOf(x)
      BY <1>1, <2>2 DEF DeletesAll
    <3>2. PICK y \in Committed : featured = RowsOf(y)
      BY <2>2, PinnedIsASelection
    <3>3. CASE x = y
      BY <1>1, <3>1, <3>2, <3>3
    <3>4. CASE x # y
      BY <1>1, <3>1, <3>2, <3>4, RowsKnowTheirRequest DEF Committed
    <3>. QED  BY <3>3, <3>4
  <2>. QED  BY <2>1, <2>2
<1>3. ASSUME NEW o \in Selections \ {r}, progress[o] \in {"deleted", "inserted"}, deleted[o] # {}
      PROVE  deleted'[r] = {}
  <2>1. deleted[o] = featured
    BY <1>3 DEF DeletesAll
  <2>2. deleted[o] \intersect seen[r] = {}
    BY <1>3 DEF EndDelete, InProgress
  <2>. QED  BY <1>1, <2>1, <2>2
<1>. QED  BY <1>1, <1>2, <1>3, NothingPinned

LEMMA InsertRowsStep ==
    ASSUME FeaturedInv, NEW r \in Selections, InsertRows(r)
    PROVE  FeaturedInv'
<1>. USE DEF FeaturedInv
<1>1. CASE Close(r, "deleted", "refused")
  BY <1>1, CloseStep DEF InsertRows
<1>2. CASE /\ Conflicts(r, featured \ deleted[r]) = {} /\ Move(r, "deleted", "inserted")
           /\ inserted' = [inserted EXCEPT ![r] = RowsOf(r)] /\ UNCHANGED <<seen, deleted>>
  <2>1. UNCHANGED <<featured, selection>>
    BY DEF InsertRows
  <2>2. /\ progress[r] = "deleted" /\ progress'[r] = "inserted" /\ inserted'[r] = RowsOf(r)
        /\ FeaturedShape'
        /\ \A o \in Selections \ {r} : progress'[o] = progress[o] /\ inserted'[o] = inserted[o]
    BY <1>2, <2>1 DEF Move, FeaturedShape
  <2>3. ASSUME NEW o \in Selections \ {r}, progress[o] = "inserted"
        PROVE  RowsOf(r) = {} \/ RowsOf(o) = {}
    <3>1. Conflicts(r, inserted[o]) = {}
      BY <2>3 DEF InsertRows, InProgress
    <3>2. inserted[o] = RowsOf(o)
      BY <2>3 DEF InsertsAlone
    <3>. QED  BY <3>1, <3>2, SelectionsCollide
  <2>4. /\ deleted[r] \in {{}, featured}
        /\ \A o \in Selections \ {r} : progress[o] \in {"deleted", "inserted"} =>
              deleted[r] = {} \/ deleted[o] = {}
    BY <2>2 DEF DeletesAll
  <2>. QED  BY <1>2, <2>1, <2>2, <2>3, <2>4, NothingPinned
<1>. QED  BY <1>1, <1>2 DEF InsertRows

LEMMA FeaturedStep == FeaturedInv /\ [FeaturedNext]_featuredVars => FeaturedInv'
<1>. SUFFICES ASSUME FeaturedInv, [FeaturedNext]_featuredVars PROVE FeaturedInv'
  OBVIOUS
<1>1. ASSUME UNCHANGED <<featured, progress, selection, seen, deleted, inserted>>
      PROVE  FeaturedInv'
  <2>1. Committed' = Committed /\ \A r \in Selections : RowsOf(r)' = RowsOf(r)
    BY <1>1 DEF Committed, RowsOf
  <2>2. \A r \in Selections : Conflicts(r, featured \ deleted[r])' = Conflicts(r, featured \ deleted[r])
    BY <1>1, <2>1 DEF Conflicts
  <2>3. FeaturedShape'
    BY <1>1 DEF FeaturedInv, FeaturedShape
  <2>4. DeletesAll'
    BY <1>1, <2>1 DEF FeaturedInv, DeletesAll, Committed
  <2>5. InsertsAlone'
    BY <1>1, <2>1, <2>2 DEF FeaturedInv, InsertsAlone
  <2>6. FeaturedWhole'
    BY <1>1, <2>1 DEF FeaturedInv, FeaturedWhole, Committed
  <2>. QED  BY <2>3, <2>4, <2>5, <2>6 DEF FeaturedInv
<1>2. ASSUME NEW r \in Selections,
             NEW items \in {q \in SeqOf(Items, MaxFeatured) : IsInjective(q)}, NEW byCodes \in BOOLEAN,
             Ask(r, items, byCodes)
      PROVE  FeaturedInv'
  <2>1. items \in Seq(Items)
    BY DEF SeqOf
  <2>2. /\ progress[r] = "new" /\ progress'[r] = "asked" /\ FeaturedShape'
        /\ \A o \in Selections \ {r} : progress'[o] = progress[o] /\ selection'[o] = selection[o]
        /\ UNCHANGED <<featured, seen, deleted, inserted>>
    BY <1>2, <2>1 DEF Ask, Move, FeaturedInv, FeaturedShape
  <2>. QED  BY <2>2, NothingPinned
<1>3. ASSUME NEW r \in Selections, CheckSelection(r) PROVE FeaturedInv'
  <2>1. /\ progress[r] = "asked" /\ progress'[r] \in {"checked", "refused"} /\ FeaturedShape'
        /\ \A o \in Selections \ {r} : progress'[o] = progress[o]
        /\ UNCHANGED <<featured, selection, seen, deleted, inserted>>
    BY <1>3 DEF CheckSelection, Move, FeaturedInv, FeaturedShape
  <2>. QED  BY <2>1, NothingPinned
<1>4. ASSUME NEW r \in Selections, StartDelete(r) PROVE FeaturedInv'
  <2>1. /\ progress[r] = "checked" /\ progress'[r] = "deleting" /\ FeaturedShape'
        /\ seen'[r] = featured
        /\ \A o \in Selections \ {r} : progress'[o] = progress[o] /\ seen'[o] = seen[o]
        /\ UNCHANGED <<featured, selection, deleted, inserted>>
    BY <1>4 DEF StartDelete, Move, RowsToDelete, FeaturedInv, FeaturedShape
  <2>. QED  BY <2>1, NothingPinned
<1>5. ASSUME NEW r \in Selections, AbortSelection(r) PROVE FeaturedInv'
  BY <1>5, CloseStep DEF AbortSelection, InProgress
<1>6. ASSUME NEW i \in Items, ChangeEarned(i) PROVE FeaturedInv'
  BY <1>1, <1>6 DEF ChangeEarned
<1>7. CASE UNCHANGED featuredVars
  BY <1>1, <1>7 DEF featuredVars
<1>. QED
  BY <1>2, <1>3, <1>4, <1>5, <1>6, <1>7, EndDeleteStep, InsertRowsStep, CommitSelectionStep
     DEF FeaturedNext

\* What is pinned is one request's selection, whole, for any number of requests that
\* overlap and slots they fill (featured_achievements.py:183).
THEOREM PinnedIsWhole == FeaturedSpec => []FeaturedWhole
<1>1. FeaturedInv => FeaturedWhole
  BY DEF FeaturedInv
<1>. QED
  BY <1>1, FeaturedInvInit, FeaturedStep, PTL DEF FeaturedSpec

(* What is pinned fits the profile: the rows of one selection, which names   *)
(* no item twice and no more than there are slots.                           *)

SelectionsFit ==
    /\ earned \subseteq Items
    /\ progress \in [Selections -> {"new", "asked", "checked", "deleting", "deleted", "inserted",
                                    "committed", "refused"}]
    /\ \A r \in Selections :
          /\ IsInjective(selection[r]) /\ Len(selection[r]) <= MaxFeatured
          /\ seen[r] \subseteq Row /\ deleted[r] \subseteq seen[r] /\ inserted[r] \subseteq Row
          /\ progress[r] \notin {"deleted", "inserted"} => deleted[r] = {}

LEMMA RowsFit ==
    ASSUME FeaturedShape, SelectionsFit, NEW r \in Selections
    PROVE  /\ RowsOf(r) \subseteq Row
           /\ \A x, y \in RowsOf(r) : x.slot = y.slot \/ x.item = y.item => x = y
<1>1. /\ selection[r] \in Seq(Items) /\ Len(selection[r]) \in Nat /\ Len(selection[r]) <= MaxFeatured
      /\ DOMAIN selection[r] = 1..Len(selection[r]) /\ IsInjective(selection[r]) /\ MaxFeatured \in Nat
  BY FeaturedAssumption DEF FeaturedShape, SelectionsFit
<1>2. ASSUME NEW n \in 1..Len(selection[r])
      PROVE  [slot |-> n, item |-> selection[r][n], by |-> r] \in Row
  <2>1. n \in 1..MaxFeatured /\ selection[r][n] \in Items
    BY <1>1
  <2>. QED  BY <2>1 DEF Row
<1>3. ASSUME NEW x \in RowsOf(r), NEW y \in RowsOf(r), x.slot = y.slot \/ x.item = y.item
      PROVE  x = y
  <2>1. PICK n \in 1..Len(selection[r]) : x = [slot |-> n, item |-> selection[r][n], by |-> r]
    BY DEF RowsOf
  <2>2. PICK m \in 1..Len(selection[r]) : y = [slot |-> m, item |-> selection[r][m], by |-> r]
    BY DEF RowsOf
  <2>3. n = m \/ selection[r][n] = selection[r][m]
    BY <1>3, <2>1, <2>2
  <2>4. n = m
    BY <1>1, <2>3 DEF IsInjective
  <2>. QED  BY <2>1, <2>2, <2>4
<1>. QED  BY <1>2, <1>3 DEF RowsOf

LEMMA PinnedFits ==
    ASSUME FeaturedInv, SelectionsFit
    PROVE  /\ featured \subseteq Row
           /\ \A x, y \in featured : x.slot = y.slot \/ x.item = y.item => x = y
<1>1. CASE featured = {}
  BY <1>1
<1>2. CASE \E c \in Committed : featured = RowsOf(c)
  <2>1. PICK c \in Selections : featured = RowsOf(c)
    BY <1>2 DEF Committed
  <2>. QED  BY <2>1, RowsFit DEF FeaturedInv
<1>. QED  BY <1>1, <1>2, PinnedIsASelection

LEMMA SelectionsFitStep ==
    FeaturedInv /\ SelectionsFit /\ [FeaturedNext]_featuredVars => SelectionsFit'
<1>. SUFFICES ASSUME FeaturedInv, SelectionsFit, [FeaturedNext]_featuredVars PROVE SelectionsFit'
  OBVIOUS
<1>. USE DEF SelectionsFit
<1>0. FeaturedShape
  BY DEF FeaturedInv
<1>1. ASSUME NEW i \in Items, ChangeEarned(i) PROVE SelectionsFit'
  BY <1>1 DEF ChangeEarned
<1>2. ASSUME NEW r \in Selections,
             NEW items \in {q \in SeqOf(Items, MaxFeatured) : IsInjective(q)}, NEW byCodes \in BOOLEAN,
             Ask(r, items, byCodes)
      PROVE  SelectionsFit'
  <2>1. IsInjective(items) /\ Len(items) <= MaxFeatured
    <3>1. PICK m \in 0..MaxFeatured : items \in [1..m -> Items]
      BY DEF SeqOf
    <3>2. m \in Nat /\ m <= MaxFeatured
      BY <3>1, FeaturedAssumption
    <3>3. Len(items) = m
      BY <3>1, <3>2
    <3>. QED  BY <3>2, <3>3
  <2>2. ASSUME NEW o \in Selections
        PROVE  IsInjective(selection'[o]) /\ Len(selection'[o]) <= MaxFeatured
    <3>1. selection'[o] = IF o = r THEN items ELSE selection[o]
      BY <1>0, <1>2 DEF Ask, FeaturedShape
    <3>. QED  BY <2>1, <3>1
  <2>. QED  BY <1>2, <2>2 DEF Ask, Move
<1>3. ASSUME NEW r \in Selections, CheckSelection(r) PROVE SelectionsFit'
  BY <1>3 DEF CheckSelection, Move
<1>4. ASSUME NEW r \in Selections, StartDelete(r) PROVE SelectionsFit'
  <2>1. featured \subseteq Row
    BY PinnedFits
  <2>2. deleted[r] = {}
    BY <1>4 DEF StartDelete, Move
  <2>. QED  BY <1>0, <1>4, <2>1, <2>2 DEF StartDelete, Move, RowsToDelete, FeaturedShape
<1>5. ASSUME NEW r \in Selections, EndDelete(r) PROVE SelectionsFit'
  BY <1>0, <1>5 DEF EndDelete, Move, FeaturedShape
<1>6. ASSUME NEW r \in Selections, NEW from, NEW to \in {"committed", "refused"}, Close(r, from, to),
             UNCHANGED <<earned, selection>>
      PROVE  SelectionsFit'
  BY <1>0, <1>6 DEF Close, Move, FeaturedShape
<1>7. ASSUME NEW r \in Selections, InsertRows(r) PROVE SelectionsFit'
  <2>1. CASE Close(r, "deleted", "refused")
    BY <1>6, <1>7, <2>1 DEF InsertRows
  <2>2. CASE Move(r, "deleted", "inserted") /\ inserted' = [inserted EXCEPT ![r] = RowsOf(r)]
             /\ UNCHANGED <<seen, deleted>>
    <3>1. RowsOf(r) \subseteq Row
      BY <1>0, RowsFit
    <3>. QED  BY <1>0, <1>7, <2>2, <3>1 DEF InsertRows, Move, FeaturedShape
  <2>. QED  BY <1>7, <2>1, <2>2 DEF InsertRows
<1>8. ASSUME NEW r \in Selections, CommitSelection(r) PROVE SelectionsFit'
  BY <1>6, <1>8 DEF CommitSelection
<1>9. ASSUME NEW r \in Selections, AbortSelection(r) PROVE SelectionsFit'
  BY <1>6, <1>9 DEF AbortSelection
<1>10. CASE UNCHANGED featuredVars
  BY <1>10 DEF featuredVars
<1>. QED
  BY <1>1, <1>2, <1>3, <1>4, <1>5, <1>7, <1>8, <1>9, <1>10 DEF FeaturedNext

\* No slot of a profile is filled twice and no achievement pinned twice, for any number of
\* requests that overlap (featured_achievements.py:183).
THEOREM PinnedIsTyped == FeaturedSpec => []FeaturedTypeOK
<1>1. FeaturedInit => SelectionsFit
  BY FeaturedAssumption DEF FeaturedInit, SelectionsFit, IsInjective
<1>2. FeaturedInv /\ SelectionsFit => FeaturedTypeOK
  BY PinnedFits DEF SelectionsFit, FeaturedTypeOK, FeaturedInv, FeaturedShape
<1>. QED  BY <1>1, <1>2, FeaturedInvInit, FeaturedStep, SelectionsFitStep, PTL DEF FeaturedSpec

-----------------------------------------------------------------------------
(* The owner.  Before the claim nobody has a role, so that no request gets  *)
(* past its actor and nobody is blocked; after it no request that is        *)
(* checked has the owner as its target.                                     *)

StaffShape == /\ owner \in {NoPerson, AllowedOwner}
              /\ rows \in [Persons -> PersonRow]
              /\ calls \in [StaffCalls -> Call]
              /\ tries \in [Persons -> Nat]

NobodyActs ==
    owner = NoPerson =>
        /\ \A p \in Persons : ~rows[p].blocked /\ ~rows[p].active
        /\ \A r \in StaffCalls : calls[r].step \in {"idle", "admitted"}

OthersTargeted == \A r \in StaffCalls : calls[r].step = "checked" => calls[r].target # owner

StaffInv == StaffShape /\ NobodyActs /\ OthersTargeted /\ OwnerUntouchable

LEMMA NoCallIsCall == NoCall \in Call
BY StaffAssumption DEF NoCall, Call, PersonRow, Nobody, StaffRoles, ActorRoles, StaffOps

LEMMA StaffInvInit == StaffInit => StaffInv
BY StaffAssumption, NoCallIsCall
   DEF StaffInit, StaffInv, StaffShape, NobodyActs, OthersTargeted, OwnerUntouchable, PersonRow,
       Nobody, StaffRoles, NoCall

\* A step that changes one call, and leaves it where it acts on no one.
LEMMA CallMoves ==
    ASSUME StaffInv, NEW r \in StaffCalls, NEW c \in Call, calls' = [calls EXCEPT ![r] = c],
           c.step \in {"idle", "admitted"} \/ (owner # NoPerson /\ c.step # "checked"),
           UNCHANGED <<owner, rows>>, tries' \in [Persons -> Nat]
    PROVE  StaffInv'
<1>1. StaffShape'
  BY DEF StaffInv, StaffShape
<1>2. NobodyActs'
  BY DEF StaffInv, StaffShape, NobodyActs
<1>3. OthersTargeted'
  BY DEF StaffInv, StaffShape, OthersTargeted
<1>4. OwnerUntouchable'
  BY DEF StaffInv, OwnerUntouchable
<1>. QED  BY <1>1, <1>2, <1>3, <1>4 DEF StaffInv

\* Only calls that are neither idle nor admitted say that there is an owner.
LEMMA OwnerKnown ==
    ASSUME StaffInv, NEW r \in StaffCalls, calls[r].step \notin {"idle", "admitted"}
    PROVE  owner # NoPerson
BY DEF StaffInv, NobodyActs

LEMMA StaffStep == StaffInv /\ [StaffNext]_staffVars => StaffInv'
<1>. SUFFICES ASSUME StaffInv, [StaffNext]_staffVars PROVE StaffInv'
  OBVIOUS
<1>0. /\ owner \in {NoPerson, AllowedOwner} /\ rows \in [Persons -> PersonRow]
      /\ calls \in [StaffCalls -> Call] /\ tries \in [Persons -> Nat]
  BY DEF StaffInv, StaffShape
<1>1. CASE ReadClaim
  BY <1>1 DEF ReadClaim, StaffInv, StaffShape, NobodyActs, OthersTargeted, OwnerUntouchable
<1>2. CASE InsertClaim
  <2>1. CASE owner = NoPerson
    <3>1. StaffShape'
      BY <1>2, <2>1 DEF InsertClaim, StaffInv, StaffShape
    <3>2. owner' # NoPerson /\ owner' \in Persons
      BY <1>2, <2>1, StaffAssumption DEF InsertClaim
    <3>3. NobodyActs'
      BY <3>2 DEF NobodyActs
    <3>4. OthersTargeted'
      BY <1>2, <2>1 DEF InsertClaim, StaffInv, NobodyActs, OthersTargeted
    <3>5. OwnerUntouchable'
      BY <1>2, <2>1, <3>2 DEF InsertClaim, StaffInv, NobodyActs, OwnerUntouchable
    <3>. QED  BY <3>1, <3>3, <3>4, <3>5 DEF StaffInv
  <2>2. CASE owner # NoPerson
    <3>1. UNCHANGED <<owner, rows, calls, tries>>
      BY <1>2, <2>2 DEF InsertClaim
    <3>. QED
      BY <3>1 DEF StaffInv, StaffShape, NobodyActs, OthersTargeted, OwnerUntouchable
  <2>. QED  BY <2>1, <2>2
<1>3. ASSUME NEW r \in StaffCalls, NEW u \in Persons, NEW op \in StaffOps,
             NEW grant \in StaffRoles, NEW on \in SUBSET Persons, Admit(r, u, op, grant, on)
      PROVE  StaffInv'
  <2>. DEFINE c == [NoCall EXCEPT !.step = "admitted", !.by = u, !.op = op, !.grant = grant,
                                  !.bulk = ~Single(on), !.left = on]
  <2>1. c \in Call /\ c.step = "admitted"
    BY NoCallIsCall DEF Call, NoCall
  <2>2. calls' = [calls EXCEPT ![r] = c] /\ UNCHANGED <<owner, rows, tries>>
    BY <1>3 DEF Admit, GoesOn
  <2>. QED  BY <1>0, <2>1, <2>2, CallMoves
<1>4. ASSUME NEW r \in StaffCalls, NEW u \in Persons, TurnAway(r, u) PROVE StaffInv'
  <2>. DEFINE c == [NoCall EXCEPT !.step = "barred", !.by = u, !.seen = tries[u]]
  <2>1. c \in Call /\ c.step = "barred"
    BY <1>0, NoCallIsCall DEF Call, NoCall
  <2>2. owner # NoPerson
    BY <1>4 DEF TurnAway, StaffInv, NobodyActs
  <2>3. calls' = [calls EXCEPT ![r] = c] /\ UNCHANGED <<owner, rows, tries>>
    BY <1>4 DEF TurnAway, GoesOn
  <2>. QED  BY <1>0, <2>1, <2>2, <2>3, CallMoves
<1>5. ASSUME NEW r \in StaffCalls, RecordAttempt(r) PROVE StaffInv'
  <2>1. calls' = [calls EXCEPT ![r] = NoCall] /\ UNCHANGED <<owner, rows>>
    BY <1>5 DEF RecordAttempt, GoesOn
  <2>2. NoCall.step = "idle"
    BY DEF NoCall
  <2>3. tries' \in [Persons -> Nat]
    BY <1>0, <1>5 DEF RecordAttempt, Call
  <2>. QED  BY <2>1, <2>2, <2>3, NoCallIsCall, CallMoves
<1>6. ASSUME NEW r \in StaffCalls, Resolve(r) PROVE StaffInv'
  <2>. DEFINE u == calls[r].by
  <2>1. calls[r] \in Call /\ u \in Persons /\ UNCHANGED <<owner, rows, tries>>
    BY <1>0, <1>6 DEF Call, Resolve
  <2>2. CASE u = owner
    <3>. DEFINE c == [calls[r] EXCEPT !.step = "resolved", !.role = "owner"]
    <3>1. c \in Call /\ c.step = "resolved" /\ owner # NoPerson
      BY <2>1, <2>2, StaffAssumption DEF Call, ActorRoles
    <3>2. calls' = [calls EXCEPT ![r] = c]
      BY <1>6, <2>2 DEF Resolve, GoesOn
    <3>. QED  BY <1>0, <2>1, <3>1, <3>2, CallMoves
  <2>3. CASE u # owner /\ rows[u].active
    <3>. DEFINE c == [calls[r] EXCEPT !.step = "resolved", !.role = rows[u].role]
    <3>1. c \in Call /\ c.step = "resolved"
      BY <1>0, <2>1 DEF Call, ActorRoles, PersonRow
    <3>2. owner # NoPerson
      BY <2>1, <2>3 DEF StaffInv, NobodyActs
    <3>3. calls' = [calls EXCEPT ![r] = c]
      BY <1>6, <2>3 DEF Resolve, GoesOn
    <3>. QED  BY <1>0, <2>1, <3>1, <3>2, <3>3, CallMoves
  <2>4. CASE u # owner /\ ~rows[u].active
    <3>1. calls' = [calls EXCEPT ![r] = NoCall] /\ NoCall.step = "idle"
      BY <1>6, <2>4 DEF Resolve, GoesOn, NoCall
    <3>. QED  BY <1>0, <2>1, <3>1, NoCallIsCall, CallMoves
  <2>. QED  BY <2>2, <2>3, <2>4
<1>7. ASSUME NEW r \in StaffCalls, NEW target \in Persons, Check(r, target) PROVE StaffInv'
  <2>1. calls[r] \in Call /\ owner # NoPerson /\ UNCHANGED <<owner, rows, tries>>
    BY <1>0, <1>7, OwnerKnown DEF Check
  <2>2. CASE calls[r].op = "message"
    <3>. DEFINE c == [calls[r] EXCEPT !.step = "pending", !.left = @ \ {target},
                                      !.target = target, !.read = @]
    <3>1. c \in Call /\ c.step = "pending"
      BY <2>1 DEF Call
    <3>2. calls' = [calls EXCEPT ![r] = c]
      BY <1>7, <2>1, <2>2 DEF Check, GoesOn, Call
    <3>. QED  BY <1>0, <2>1, <3>1, <3>2, CallMoves
  <2>3. CASE calls[r].op # "message"
    <3>. DEFINE c == [calls[r] EXCEPT !.step = "checked", !.left = @ \ {target},
                                      !.target = target, !.read = rows[target]]
    <3>1. c \in Call /\ c.target = target
      BY <1>0, <2>1 DEF Call
    <3>2. calls' = [calls EXCEPT ![r] = c]
      BY <1>7, <2>1, <2>3 DEF Check, GoesOn, Call
    <3>3. target # owner
      BY <1>7, <2>3 DEF Check, MutableTarget
    <3>4. StaffShape' /\ NobodyActs' /\ OwnerUntouchable'
      BY <2>1, <3>1, <3>2 DEF StaffInv, StaffShape, NobodyActs, OwnerUntouchable
    <3>5. OthersTargeted'
      BY <1>0, <2>1, <3>1, <3>2, <3>3 DEF StaffInv, OthersTargeted
    <3>. QED  BY <3>4, <3>5 DEF StaffInv
  <2>. QED  BY <2>2, <2>3
<1>8. ASSUME NEW r \in StaffCalls, NEW target \in Persons, SkipTarget(r, target) PROVE StaffInv'
  <2>. DEFINE c == [calls[r] EXCEPT !.left = @ \ {target}]
  <2>1. calls[r] \in Call /\ owner # NoPerson /\ UNCHANGED <<owner, rows, tries>>
    BY <1>0, <1>8, OwnerKnown DEF SkipTarget
  <2>2. c \in Call /\ c.step = "resolved"
    BY <1>8, <2>1 DEF Call, SkipTarget
  <2>3. calls' = [calls EXCEPT ![r] = c]
    BY <1>8 DEF SkipTarget, GoesOn
  <2>. QED  BY <1>0, <2>1, <2>2, <2>3, CallMoves
<1>9. ASSUME NEW r \in StaffCalls PROVE NextTarget(calls[r]) \in Call /\ NextTarget(calls[r]).step = "resolved"
  BY <1>0, NoCallIsCall DEF NextTarget, Call
<1>10. ASSUME NEW r \in StaffCalls, Operate(r) PROVE StaffInv'
  <2>. DEFINE c == calls[r]
  <2>1. c \in Call /\ c.step = "checked" /\ c.target \in Persons /\ c.target # owner
    BY <1>0, <1>10 DEF Operate, Call, StaffInv, OthersTargeted
  <2>2. owner # NoPerson /\ owner \in Persons
    BY <1>0, <2>1, OwnerKnown, StaffAssumption
  <2>3. /\ rows' = [rows EXCEPT ![c.target] = Applied(c, rows[c.target])]
        /\ calls' = [calls EXCEPT ![r] = NextTarget(c)] /\ UNCHANGED <<owner, tries>>
    BY <1>10 DEF Operate, GoesOn
  <2>4. Applied(c, rows[c.target]) \in PersonRow
    BY <1>0, <2>1 DEF Applied, PersonRow, Written, Call
  <2>5. StaffShape' /\ NobodyActs'
    BY <1>0, <1>9, <2>2, <2>3, <2>4 DEF StaffShape, NobodyActs
  <2>6. OthersTargeted'
    BY <1>0, <1>9, <2>3 DEF StaffInv, OthersTargeted
  <2>7. OwnerUntouchable'
    BY <1>0, <2>1, <2>2, <2>3 DEF StaffInv, OwnerUntouchable
  <2>. QED  BY <2>5, <2>6, <2>7 DEF StaffInv
<1>11. ASSUME NEW r \in StaffCalls, Send(r) PROVE StaffInv'
  <2>1. owner # NoPerson /\ UNCHANGED <<owner, rows, tries>>
    BY <1>11, OwnerKnown DEF Send
  <2>2. calls' = [calls EXCEPT ![r] = NextTarget(calls[r])]
    BY <1>11 DEF Send, GoesOn
  <2>. QED  BY <1>0, <1>9, <2>1, <2>2, CallMoves
<1>12. ASSUME NEW r \in StaffCalls, End(r) PROVE StaffInv'
  <2>1. calls' = [calls EXCEPT ![r] = NoCall] /\ NoCall.step = "idle"
        /\ UNCHANGED <<owner, rows, tries>>
    BY <1>12 DEF End, GoesOn, NoCall
  <2>. QED  BY <1>0, <2>1, NoCallIsCall, CallMoves
<1>13. CASE UNCHANGED staffVars
  BY <1>13 DEF staffVars, StaffInv, StaffShape, NobodyActs, OthersTargeted, OwnerUntouchable
<1>. QED
  BY <1>1, <1>2, <1>3, <1>4, <1>5, <1>6, <1>7, <1>8, <1>10, <1>11, <1>12, <1>13 DEF StaffNext

\* Nobody blocks the owner or puts the owner on the staff, for any persons and requests
\* and whenever the claim comes among them (OwnerUntouchable).
THEOREM OwnerIsUntouchable == StaffSpec => []OwnerUntouchable
<1>1. StaffInv => OwnerUntouchable
  BY DEF StaffInv
<1>. QED  BY StaffInvInit, StaffStep, <1>1, PTL DEF StaffSpec

Undelivered == {r \in StaffCalls : calls[r].step = "pending"}

\* A delivery of a message under way is pending; a claim under way was asked for, and an
\* attempt is only recorded below the bound.
StaffTyped ==
    /\ StaffShape
    /\ claims \in Nat /\ asked \in 0..MaxCalls /\ claims <= asked
    /\ letters \in [{"pending", "sent", "failed"} -> Nat]
    /\ Cardinality(Undelivered) <= letters["pending"]
    /\ tries \in [Persons -> 0..MaxTries]

LEMMA UndeliveredFinite == IsFiniteSet(Undelivered) /\ Cardinality(Undelivered) \in Nat
<1>1. IsFiniteSet(Undelivered)
  BY StaffAssumption, FS_Subset DEF Undelivered
<1>. QED  BY <1>1, FS_CardinalityType

\* A call that goes on as c, when no letter is written.
LEMMA CallTyped ==
    ASSUME StaffTyped, NEW r \in StaffCalls, NEW c \in Call, calls' = [calls EXCEPT ![r] = c],
           c.step # "pending", UNCHANGED <<letters, claims, owner>>,
           rows' \in [Persons -> PersonRow], tries' \in [Persons -> 0..MaxTries],
           asked' \in 0..MaxCalls, asked <= asked'
    PROVE  StaffTyped'
<1>. USE DEF StaffTyped
<1>1. StaffShape'
  <2>1. tries' \in [Persons -> Nat]
    BY StaffAssumption
  <2>. QED  BY <2>1 DEF StaffShape
<1>2. Undelivered' \subseteq Undelivered
  BY DEF Undelivered, StaffShape
<1>3. IsFiniteSet(Undelivered) /\ Cardinality(Undelivered) \in Nat
  BY UndeliveredFinite
<1>4. Cardinality(Undelivered') <= Cardinality(Undelivered) /\ Cardinality(Undelivered') \in Nat
  BY <1>2, <1>3, FS_Subset, FS_CardinalityType
<1>5. letters' \in [{"pending", "sent", "failed"} -> Nat] /\ letters'["pending"] = letters["pending"]
      /\ letters["pending"] \in Nat
  OBVIOUS
<1>6. Cardinality(Undelivered') <= letters'["pending"]
  BY <1>3, <1>4, <1>5
<1>7. claims' \in Nat /\ asked' \in 0..MaxCalls /\ claims' <= asked'
  BY StaffAssumption
<1>. QED  BY <1>1, <1>5, <1>6, <1>7

LEMMA StaffTypedInit == StaffInit => StaffTyped
<1>. SUFFICES ASSUME StaffInit PROVE StaffTyped
  OBVIOUS
<1>1. StaffShape
  BY StaffInvInit DEF StaffInv
<1>2. Undelivered = {}
  BY DEF StaffInit, Undelivered, NoCall
<1>3. Cardinality(Undelivered) = 0
  BY <1>2, FS_EmptySet
<1>4. letters \in [{"pending", "sent", "failed"} -> Nat] /\ letters["pending"] = 0
  BY DEF StaffInit
<1>5. claims \in Nat /\ asked \in 0..MaxCalls /\ claims <= asked
  BY StaffAssumption DEF StaffInit
<1>6. tries \in [Persons -> 0..MaxTries]
  BY StaffAssumption DEF StaffInit
<1>. QED  BY <1>1, <1>3, <1>4, <1>5, <1>6 DEF StaffTyped

LEMMA NextTargetIsCall ==
    ASSUME NEW c \in Call
    PROVE  NextTarget(c) \in Call /\ NextTarget(c).step = "resolved"
BY NoCallIsCall DEF NextTarget, Call

LEMMA AppliedIsRow ==
    ASSUME NEW c \in Call, NEW now \in PersonRow
    PROVE  Applied(c, now) \in PersonRow
<1>1. now.blocked \in BOOLEAN /\ now.active \in BOOLEAN /\ now.role \in StaffRoles
  BY Zenon DEF PersonRow
<1>2. c.grant \in StaffRoles
  BY DEF Call
<1>. DEFINE b == Written(c.op = "block", c.read.blocked, now.blocked)
            o == Written(c.grant, c.read.role, now.role)
            a == Written(TRUE, c.read.active, now.active)
            n == Written(FALSE, c.read.active, now.active)
<1>3. b \in BOOLEAN /\ a \in BOOLEAN /\ n \in BOOLEAN
  <2>1. (c.op = "block") \in BOOLEAN
    BY Zenon
  <2>. QED  BY <1>1, <2>1, Zenon DEF Written
<1>4. o \in StaffRoles
  BY <1>1, <1>2 DEF Written
<1>5. Applied(c, now) \in {[now EXCEPT !.blocked = b], [now EXCEPT !.role = o, !.active = a],
                           [now EXCEPT !.active = n]}
  BY DEF Applied
<1>. HIDE DEF b, o, a, n
<1>6. [now EXCEPT !.blocked = b] \in PersonRow
  BY <1>3 DEF PersonRow
<1>7. [now EXCEPT !.role = o, !.active = a] \in PersonRow
  BY <1>3, <1>4 DEF PersonRow
<1>8. [now EXCEPT !.active = n] \in PersonRow
  BY <1>3 DEF PersonRow
<1>. QED  BY <1>5, <1>6, <1>7, <1>8

LEMMA StaffTypedStep == StaffTyped /\ [StaffNext]_staffVars => StaffTyped'
<1>. SUFFICES ASSUME StaffTyped, [StaffNext]_staffVars PROVE StaffTyped'
  OBVIOUS
<1>0. /\ owner \in {NoPerson, AllowedOwner} /\ rows \in [Persons -> PersonRow]
      /\ calls \in [StaffCalls -> Call]
      /\ letters \in [{"pending", "sent", "failed"} -> Nat] /\ letters["pending"] \in Nat
      /\ tries \in [Persons -> 0..MaxTries] /\ asked \in 0..MaxCalls /\ claims \in Nat
      /\ claims <= asked /\ MaxCalls \in Nat /\ MaxTries \in Nat
  BY StaffAssumption DEF StaffTyped, StaffShape
<1>1. CASE ReadClaim
  <2>1. StaffShape' /\ Undelivered' = Undelivered
    BY <1>1 DEF ReadClaim, StaffTyped, StaffShape, Undelivered
  <2>2. claims' \in Nat /\ asked' \in 0..MaxCalls /\ claims' <= asked'
    BY <1>0, <1>1 DEF ReadClaim
  <2>. QED  BY <1>1, <2>1, <2>2 DEF ReadClaim, StaffTyped
<1>2. CASE InsertClaim
  <2>1. StaffShape' /\ Undelivered' = Undelivered
    BY <1>2 DEF InsertClaim, StaffTyped, StaffShape, Undelivered
  <2>2. claims' \in Nat /\ asked' \in 0..MaxCalls /\ claims' <= asked'
    BY <1>0, <1>2 DEF InsertClaim
  <2>. QED  BY <1>2, <2>1, <2>2 DEF InsertClaim, StaffTyped
<1>3. ASSUME NEW r \in StaffCalls, NEW u \in Persons, NEW op \in StaffOps, NEW grant \in StaffRoles,
             NEW on \in SUBSET Persons, Admit(r, u, op, grant, on)
      PROVE  StaffTyped'
  <2>0. PICK several \in BOOLEAN : several = ~Single(on)
    BY Zenon DEF Single
  <2>. DEFINE c == [NoCall EXCEPT !.step = "admitted", !.by = u, !.op = op, !.grant = grant,
                             !.bulk = several, !.left = on]
  <2>1. c \in Call /\ c.step = "admitted"
    BY NoCallIsCall DEF Call
  <2>2. calls' = [calls EXCEPT ![r] = c]
    BY <1>3, <2>0 DEF Admit, GoesOn
  <2>. HIDE DEF c
  <2>3. asked' \in 0..MaxCalls /\ asked <= asked'
    BY <1>0, <1>3 DEF Admit
  <2>4. UNCHANGED <<rows, tries, letters, claims, owner>>
    BY <1>3 DEF Admit
  <2>5. /\ rows' \in [Persons -> PersonRow] /\ tries' \in [Persons -> 0..MaxTries]
        /\ asked' \in 0..MaxCalls /\ asked <= asked' /\ UNCHANGED <<letters, claims, owner>>
    BY <1>0, <2>3, <2>4
  <2>6. c.step # "pending"
    BY <2>1
  <2>. QED  BY <2>1, <2>2, <2>5, <2>6, CallTyped
<1>4. ASSUME NEW r \in StaffCalls, NEW u \in Persons, TurnAway(r, u) PROVE StaffTyped'
  <2>. DEFINE c == [NoCall EXCEPT !.step = "barred", !.by = u, !.seen = tries[u]]
  <2>0. tries[u] \in Nat
    BY <1>0
  <2>1. c \in Call /\ c.step = "barred"
    BY <2>0, NoCallIsCall DEF Call
  <2>2. calls' = [calls EXCEPT ![r] = c]
    BY <1>4 DEF TurnAway, GoesOn
  <2>. HIDE DEF c
  <2>3. UNCHANGED <<rows, tries, asked, letters, claims, owner>>
    BY <1>4 DEF TurnAway
  <2>4. /\ rows' \in [Persons -> PersonRow] /\ tries' \in [Persons -> 0..MaxTries]
        /\ asked' \in 0..MaxCalls /\ asked <= asked' /\ UNCHANGED <<letters, claims, owner>>
    BY <1>0, <2>3
  <2>5. c.step # "pending"
    BY <2>1
  <2>. QED  BY <2>1, <2>2, <2>4, <2>5, CallTyped
<1>5. ASSUME NEW r \in StaffCalls, RecordAttempt(r) PROVE StaffTyped'
  <2>1. calls[r] \in Call /\ calls[r].seen \in Nat /\ calls[r].by \in Persons
    BY <1>0 DEF Call
  <2>2. tries' \in [Persons -> 0..MaxTries]
    BY <1>0, <1>5, <2>1 DEF RecordAttempt
  <2>3. calls' = [calls EXCEPT ![r] = NoCall] /\ NoCall.step # "pending"
        /\ UNCHANGED <<owner, claims, rows, letters, asked>>
    BY <1>5 DEF RecordAttempt, GoesOn, NoCall
  <2>4. /\ rows' \in [Persons -> PersonRow] /\ tries' \in [Persons -> 0..MaxTries]
        /\ asked' \in 0..MaxCalls /\ asked <= asked' /\ UNCHANGED <<letters, claims, owner>>
    BY <1>0, <2>2, <2>3
  <2>. QED  BY <2>3, <2>4, NoCallIsCall, CallTyped
<1>6. ASSUME NEW r \in StaffCalls, Resolve(r) PROVE StaffTyped'
  <2>. DEFINE u == calls[r].by
              lead == [calls[r] EXCEPT !.step = "resolved", !.role = "owner"]
              act == [calls[r] EXCEPT !.step = "resolved", !.role = rows[u].role]
  <2>1. u \in Persons /\ calls[r] \in Call /\ rows[u].role \in StaffRoles
    BY <1>0 DEF Call, PersonRow
  <2>2. lead \in Call /\ act \in Call /\ lead.step = "resolved" /\ act.step = "resolved"
    BY <2>1 DEF Call, ActorRoles
  <2>3. \E c \in {lead, act, NoCall} : calls' = [calls EXCEPT ![r] = c]
    BY <1>6 DEF Resolve, GoesOn
  <2>. HIDE DEF lead, act
  <2>4. NoCall.step = "idle"
    BY DEF NoCall
  <2>5. UNCHANGED <<owner, claims, rows, letters, tries, asked>>
    BY <1>6 DEF Resolve
  <2>6. /\ rows' \in [Persons -> PersonRow] /\ tries' \in [Persons -> 0..MaxTries]
        /\ asked' \in 0..MaxCalls /\ asked <= asked' /\ UNCHANGED <<letters, claims, owner>>
    BY <1>0, <2>5
  <2>7. PICK c \in {lead, act, NoCall} : calls' = [calls EXCEPT ![r] = c]
    BY <2>3
  <2>8. c \in Call /\ c.step # "pending"
    BY <2>2, <2>4, NoCallIsCall
  <2>. QED  BY <2>6, <2>7, <2>8, CallTyped
<1>7. ASSUME NEW r \in StaffCalls, NEW target \in Persons, Check(r, target) PROVE StaffTyped'
  <2>. DEFINE c == calls[r]
              sent == [c EXCEPT !.step = "pending", !.left = c.left \ {target}, !.target = target]
              checked == [c EXCEPT !.step = "checked", !.left = c.left \ {target}, !.target = target,
                                   !.read = rows[target]]
  <2>1. c \in Call /\ rows[target] \in PersonRow /\ c.step = "resolved"
    BY <1>0, <1>7 DEF Check
  <2>2. /\ sent \in Call /\ checked \in Call
        /\ checked.step = "checked" /\ sent.step = "pending"
    BY <2>1 DEF Call
  <2>3. CASE c.op = "message"
    <3>1. [c EXCEPT !.step = "pending", !.left = c.left \ {target}, !.target = target, !.read = c.read] = sent
      BY <2>1 DEF Call
    <3>2. calls' = [calls EXCEPT ![r] = sent] /\ Delivery /\ UNCHANGED <<owner, claims, rows, tries, asked>>
      BY <1>7, <2>3, <3>1 DEF Check, GoesOn
    <3>. HIDE DEF sent
    <3>3. /\ letters' \in [{"pending", "sent", "failed"} -> Nat]
          /\ letters'["pending"] = letters["pending"] + 1
      BY <1>0, <3>2 DEF Delivery
    <3>4. Undelivered' = Undelivered \union {r} /\ r \notin Undelivered
      BY <1>0, <2>1, <2>2, <3>2 DEF Undelivered
    <3>5. IsFiniteSet(Undelivered) /\ Cardinality(Undelivered) \in Nat
      BY UndeliveredFinite
    <3>6. Cardinality(Undelivered') = Cardinality(Undelivered) + 1
      BY <3>4, <3>5, FS_AddElement
    <3>7. Cardinality(Undelivered') <= letters'["pending"]
      BY <1>0, <3>3, <3>5, <3>6 DEF StaffTyped
    <3>8. StaffShape'
      BY <1>0, <2>2, <3>2 DEF StaffTyped, StaffShape
    <3>. QED  BY <1>0, <3>2, <3>3, <3>7, <3>8 DEF StaffTyped
  <2>4. CASE c.op # "message"
    <3>1. calls' = [calls EXCEPT ![r] = checked] /\ UNCHANGED letters
      BY <1>7, <2>4 DEF Check, GoesOn
    <3>. HIDE DEF checked
    <3>2. UNCHANGED <<rows, tries, asked, letters, claims, owner>>
      BY <1>7, <3>1 DEF Check
    <3>3. /\ rows' \in [Persons -> PersonRow] /\ tries' \in [Persons -> 0..MaxTries]
        /\ asked' \in 0..MaxCalls /\ asked <= asked' /\ UNCHANGED <<letters, claims, owner>>
      BY <1>0, <3>2
    <3>4. checked \in Call /\ checked.step # "pending"
      BY <2>2
    <3>. QED  BY <3>1, <3>3, <3>4, CallTyped
  <2>. QED  BY <2>3, <2>4
<1>8. ASSUME NEW r \in StaffCalls, NEW target \in Persons, SkipTarget(r, target) PROVE StaffTyped'
  <2>. DEFINE c == [calls[r] EXCEPT !.left = @ \ {target}]
  <2>1. c \in Call /\ c.step = "resolved"
    BY <1>0, <1>8 DEF Call, SkipTarget
  <2>2. calls' = [calls EXCEPT ![r] = c]
    BY <1>8 DEF SkipTarget, GoesOn
  <2>. HIDE DEF c
  <2>3. UNCHANGED <<rows, tries, asked, letters, claims, owner>>
    BY <1>8 DEF SkipTarget
  <2>4. /\ rows' \in [Persons -> PersonRow] /\ tries' \in [Persons -> 0..MaxTries]
        /\ asked' \in 0..MaxCalls /\ asked <= asked' /\ UNCHANGED <<letters, claims, owner>>
    BY <1>0, <2>3
  <2>5. c.step # "pending"
    BY <2>1
  <2>. QED  BY <2>1, <2>2, <2>4, <2>5, CallTyped
<1>9. ASSUME NEW r \in StaffCalls, Operate(r) PROVE StaffTyped'
  <2>1. calls[r] \in Call /\ calls[r].target \in Persons
    BY <1>0 DEF Call
  <2>2. rows' \in [Persons -> PersonRow]
    <3>1. Applied(calls[r], rows[calls[r].target]) \in PersonRow
      BY <1>0, <2>1, AppliedIsRow
    <3>2. rows' = [rows EXCEPT ![calls[r].target] = Applied(calls[r], rows[calls[r].target])]
      BY <1>9 DEF Operate
    <3>. QED  BY <1>0, <3>1, <3>2
  <2>3. calls' = [calls EXCEPT ![r] = NextTarget(calls[r])] /\ UNCHANGED <<owner, claims, letters, tries, asked>>
    BY <1>9 DEF Operate, GoesOn
  <2>4. /\ rows' \in [Persons -> PersonRow] /\ tries' \in [Persons -> 0..MaxTries]
        /\ asked' \in 0..MaxCalls /\ asked <= asked' /\ UNCHANGED <<letters, claims, owner>>
    BY <1>0, <2>2, <2>3
  <2>5. NextTarget(calls[r]) \in Call /\ NextTarget(calls[r]).step # "pending"
    BY <2>1, NextTargetIsCall
  <2>. QED  BY <2>3, <2>4, <2>5, CallTyped
<1>10. ASSUME NEW r \in StaffCalls, Send(r) PROVE StaffTyped'
  <2>. DEFINE c == NextTarget(calls[r])
  <2>1. c \in Call /\ c.step = "resolved"
    BY <1>0, NextTargetIsCall
  <2>2. PICK status \in {"sent", "failed"} : Finished(status)
    BY <1>10 DEF Send
  <2>3. calls' = [calls EXCEPT ![r] = c] /\ UNCHANGED <<owner, claims, rows, tries, asked>>
        /\ calls[r].step = "pending"
    BY <1>10 DEF Send, GoesOn
  <2>. HIDE DEF c
  <2>4. Undelivered' = Undelivered \ {r} /\ r \in Undelivered
    BY <1>0, <2>1, <2>3 DEF Undelivered
  <2>5. IsFiniteSet(Undelivered) /\ Cardinality(Undelivered) \in Nat
    BY UndeliveredFinite
  <2>6. Cardinality(Undelivered') = Cardinality(Undelivered) - 1
    BY <2>4, <2>5, FS_RemoveElement
  <2>7. letters["pending"] >= 1
    <3>1. Cardinality(Undelivered') \in Nat
      <4>1. IsFiniteSet(Undelivered')
        BY <2>4, <2>5, FS_RemoveElement
      <4>. QED  BY <4>1, FS_CardinalityType
    <3>. QED  BY <1>0, <2>5, <2>6, <3>1 DEF StaffTyped
  <2>8. /\ letters' \in [{"pending", "sent", "failed"} -> Nat]
        /\ letters'["pending"] = letters["pending"] - 1
    BY <1>0, <2>2, <2>7 DEF Finished
  <2>9. Cardinality(Undelivered') <= letters'["pending"]
    BY <1>0, <2>5, <2>6, <2>8 DEF StaffTyped
  <2>10. StaffShape'
    BY <1>0, <2>1, <2>3 DEF StaffTyped, StaffShape
  <2>. QED  BY <1>0, <2>3, <2>8, <2>9, <2>10 DEF StaffTyped
<1>11. ASSUME NEW r \in StaffCalls, End(r) PROVE StaffTyped'
  <2>1. calls' = [calls EXCEPT ![r] = NoCall] /\ NoCall.step # "pending"
        /\ UNCHANGED <<owner, claims, rows, letters, tries, asked>>
    BY <1>11 DEF End, GoesOn, NoCall
  <2>2. /\ rows' \in [Persons -> PersonRow] /\ tries' \in [Persons -> 0..MaxTries]
        /\ asked' \in 0..MaxCalls /\ asked <= asked' /\ UNCHANGED <<letters, claims, owner>>
    BY <1>0, <2>1
  <2>. QED  BY <2>1, <2>2, NoCallIsCall, CallTyped
<1>12. CASE UNCHANGED staffVars
  BY <1>12 DEF staffVars, StaffTyped, StaffShape, Undelivered
<1>. QED
  BY <1>1, <1>2, <1>3, <1>4, <1>5, <1>6, <1>7, <1>8, <1>9, <1>10, <1>11, <1>12 DEF StaffNext

\* Deliveries are counted without one getting lost under the counter, claims and attempts
\* stay within their bounds, and every call is one of the code's (app/repositories/user_control/messaging.py:7).
THEOREM StaffIsTyped == StaffSpec => []StaffTypeOK
<1>1. StaffTyped => StaffTypeOK
  BY StaffAssumption DEF StaffTyped, StaffShape, StaffTypeOK
<1>. QED  BY <1>1, StaffTypedInit, StaffTypedStep, PTL DEF StaffSpec

-----------------------------------------------------------------------------
(* The settings.  A request that nobody has outrun goes by the values of   *)
(* the row, which are the expected ones, and what it got is the row, so    *)
(* that it writes what it makes.                                           *)

WellMade(q) ==
    /\ q.kind \in {"set", "next", "shift"}
    /\ q.field \in Choosable
    /\ DOMAIN q.to \subseteq Fields

SettingsInv ==
    /\ DOMAIN change = SettingRequests
    /\ \A r \in SettingRequests : WellMade(change[r])
    /\ SettingsAddUp

LEMMA NoChangeIsWellMade == WellMade(NoChange)
<1>1. NoChange.kind = "set" /\ NoChange.field = Theme /\ NoChange.to = <<>>
  BY DEF NoChange
<1>2. DOMAIN <<>> \subseteq Fields
  OBVIOUS
<1>. QED  BY <1>1, <1>2, SettingsAssumption DEF WellMade

\* A request sets attributes of the row.
LEMMA MadeInRow ==
    ASSUME NEW q, NEW row, WellMade(q)
    PROVE  DOMAIN Made(q, row) \subseteq Fields
<1>1. CASE q.kind = "set"
  BY <1>1 DEF Made, WellMade
<1>2. CASE q.kind = "next"
  BY <1>2 DEF Made, WellMade, Fields
<1>3. CASE q.kind = "shift"
  BY <1>3 DEF Made, Shifted, Fields
<1>. QED  BY <1>1, <1>2, <1>3 DEF WellMade

\* What a request makes depends on the attributes that it sets.
LEMMA MadeOf ==
    ASSUME NEW q, NEW row, NEW other, WellMade(q),
           q.kind # "set" => \A f \in DOMAIN Made(q, row) : row[f] = other[f]
    PROVE  Made(q, row) = Made(q, other)
<1>1. CASE q.kind = "set"
  BY <1>1 DEF Made
<1>2. CASE q.kind = "next"
  <2>1. DOMAIN Made(q, row) = {q.field}
    BY <1>2 DEF Made
  <2>2. row[q.field] = other[q.field]
    BY <1>2, <2>1
  <2>. QED  BY <1>2, <2>2 DEF Made
<1>3. CASE q.kind = "shift"
  <2>1. DOMAIN Made(q, row) = Clock
    BY <1>3 DEF Made, Shifted
  <2>2. row["report_hour"] = other["report_hour"] /\ row["report_minute"] = other["report_minute"]
    BY <1>3, <2>1 DEF Clock
  <2>. QED  BY <1>3, <2>2 DEF Made, Shifted
<1>. QED  BY <1>1, <1>2, <1>3 DEF WellMade

LEMMA SettingsInvInit == SettingsInit => SettingsInv
<1>. SUFFICES ASSUME SettingsInit PROVE SettingsInv
  OBVIOUS
<1>1. \A r \in SettingRequests : change[r] = NoChange
  BY DEF SettingsInit
<1>2. SettingsAddUp
  BY DEF SettingsInit, SettingsAddUp
<1>. QED  BY <1>1, <1>2, NoChangeIsWellMade DEF SettingsInit, SettingsInv

\* A request that begins, reads or gives up leaves the row and the histories.
LEMMA ChangeMoves ==
    ASSUME SettingsInv, NEW r \in SettingRequests, NEW q, WellMade(q),
           change' = [change EXCEPT ![r] = q], UNCHANGED <<settings, expected, outrun>>
    PROVE  SettingsInv'
<1>1. DOMAIN change' = SettingRequests
  BY DEF SettingsInv
<1>2. ASSUME NEW s \in SettingRequests PROVE WellMade(change'[s])
  <2>1. change'[s] = IF s = r THEN q ELSE change[s]
    BY DEF SettingsInv
  <2>. QED  BY <2>1 DEF SettingsInv
<1>3. SettingsAddUp'
  BY DEF SettingsInv, SettingsAddUp
<1>. QED  BY <1>1, <1>2, <1>3 DEF SettingsInv, WellMade

LEMMA SettingsStep == SettingsInv /\ [SettingsNext]_settingsVars => SettingsInv'
<1>. SUFFICES ASSUME SettingsInv, [SettingsNext]_settingsVars PROVE SettingsInv'
  OBVIOUS
<1>1. ASSUME NEW r \in SettingRequests, NEW q, WellMade(q), Submit(r, q)
      PROVE  SettingsInv'
  BY <1>1, ChangeMoves DEF Submit
<1>2. ASSUME NEW r \in SettingRequests, NEW to, DOMAIN to \subseteq Fields, Setting(r, to)
      PROVE  SettingsInv'
  <2>. DEFINE q == [NoChange EXCEPT !.step = "read", !.to = to]
  <2>1. q.kind = "set" /\ q.field = Theme /\ q.to = to
    BY DEF NoChange
  <2>2. WellMade(q)
    BY <1>2, <2>1, SettingsAssumption DEF WellMade
  <2>3. Submit(r, q)
    BY <1>2 DEF Setting
  <2>. QED  BY <1>1, <2>2, <2>3
<1>3. ASSUME NEW r \in SettingRequests,
             \/ UpdateSettings(r) \/ UpdateGroup(r) \/ SetPaused(r) \/ UpdateReportTheme(r)
             \/ SetReportTime(r)
      PROVE  SettingsInv'
  <2>1. ASSUME NEW f \in Fields, NEW v, Setting(r, [g \in {f} |-> v]) PROVE SettingsInv'
    <3>1. DOMAIN [g \in {f} |-> v] \subseteq Fields
      OBVIOUS
    <3>. QED  BY <1>2, <2>1, <3>1
  <2>2. Theme \in Fields /\ "is_paused" \in Fields /\ PanelFields \subseteq Choosable /\ Choosable \subseteq Fields
    BY SettingsAssumption DEF Fields
  <2>3. ASSUME NEW fields, fields \subseteq Choosable, NEW themes, Patch(r, fields, themes)
        PROVE  SettingsInv'
    <3>1. ASSUME NEW f \in fields, NEW v, NEW w,
                 Setting(r, [g \in {f, Theme} |-> IF g = Theme THEN v ELSE w])
          PROVE  SettingsInv'
      <4>1. DOMAIN [g \in {f, Theme} |-> IF g = Theme THEN v ELSE w] \subseteq Fields
        BY <2>2, <2>3
      <4>. QED  BY <1>2, <3>1, <4>1
    <3>. QED  BY <2>1, <2>2, <2>3, <3>1 DEF Patch
  <2>4. CASE SetReportTime(r)
    <3>1. PICK h \in ValuesOf("report_hour"), m \in ValuesOf("report_minute") :
              Setting(r, [f \in Clock |-> IF f = "report_hour" THEN h ELSE m])
      BY <2>4 DEF SetReportTime
    <3>2. DOMAIN [f \in Clock |-> IF f = "report_hour" THEN h ELSE m] \subseteq Fields
      BY DEF Fields
    <3>. QED  BY <1>2, <3>1, <3>2
  <2>5. CASE SetPaused(r) \/ UpdateReportTheme(r)
    BY <2>1, <2>2, <2>5 DEF SetPaused, UpdateReportTheme
  <2>6. CASE UpdateSettings(r) \/ UpdateGroup(r)
    BY <2>2, <2>3, <2>6 DEF UpdateSettings, UpdateGroup
  <2>. QED  BY <1>3, <2>4, <2>5, <2>6
<1>4. ASSUME NEW r \in SettingRequests, Press(r) PROVE SettingsInv'
  <2>1. ASSUME NEW f \in Choosable,
               Submit(r, [NoChange EXCEPT !.step = "half", !.kind = "next", !.field = f,
                                          !.read = settings])
        PROVE  SettingsInv'
    <3>. DEFINE q == [NoChange EXCEPT !.step = "half", !.kind = "next", !.field = f,
                                      !.read = settings]
    <3>1. q.kind = "next" /\ q.field = f /\ q.to = NoChange.to
      BY DEF NoChange
    <3>2. WellMade(q)
      BY <3>1, NoChangeIsWellMade DEF WellMade
    <3>. QED  BY <1>1, <2>1, <3>2
  <2>2. ASSUME NEW by, Submit(r, [NoChange EXCEPT !.step = "half", !.kind = "shift", !.by = by,
                                                  !.read = settings])
        PROVE  SettingsInv'
    <3>. DEFINE q == [NoChange EXCEPT !.step = "half", !.kind = "shift", !.by = by,
                                      !.read = settings]
    <3>1. q.kind = "shift" /\ q.field = NoChange.field /\ q.to = NoChange.to
      BY DEF NoChange
    <3>2. WellMade(q)
      BY <3>1, NoChangeIsWellMade DEF WellMade
    <3>. QED  BY <1>1, <2>2, <3>2
  <2>. QED  BY <1>4, <2>1, <2>2 DEF Press
<1>5. ASSUME NEW r \in SettingRequests, ReadExtras(r) PROVE SettingsInv'
  <2>. DEFINE q == [change[r] EXCEPT !.step = "read",
                       !.read["report_minute"] = settings["report_minute"],
                       !.read[Theme] = settings[Theme]]
  <2>1. change' = [change EXCEPT ![r] = q] /\ UNCHANGED <<settings, expected, outrun>>
    BY <1>5 DEF ReadExtras
  <2>2. q.kind = change[r].kind /\ q.field = change[r].field /\ q.to = change[r].to
    OBVIOUS
  <2>3. WellMade(q)
    BY <2>2 DEF SettingsInv, WellMade
  <2>. QED  BY <2>1, <2>3, ChangeMoves
<1>6. ASSUME NEW r \in SettingRequests, GetGroup(r) PROVE SettingsInv'
  <2>. DEFINE q == [change[r] EXCEPT !.step = "found", !.found = settings]
  <2>1. change' = [change EXCEPT ![r] = q] /\ UNCHANGED <<settings, expected, outrun>>
    BY <1>6 DEF GetGroup
  <2>2. q.kind = change[r].kind /\ q.field = change[r].field /\ q.to = change[r].to
    OBVIOUS
  <2>3. WellMade(q)
    BY <2>2 DEF SettingsInv, WellMade
  <2>. QED  BY <2>1, <2>3, ChangeMoves
<1>7. ASSUME NEW r \in SettingRequests, GiveUp(r) PROVE SettingsInv'
  BY <1>7, NoChangeIsWellMade, ChangeMoves DEF GiveUp
<1>8. ASSUME NEW r \in SettingRequests, CommitSettings(r) PROVE SettingsInv'
  <2>. DEFINE q == change[r]
              new == Made(q, Base(q))
              wanted == Made(q, expected)
              lost == Outrun(q, new) \/ (q.kind # "set" /\ outrun \intersect DOMAIN new # {})
  <2>1. /\ settings' = Updated(q, new)
        /\ expected' = [f \in Fields |-> IF f \in DOMAIN new THEN wanted[f] ELSE expected[f]]
        /\ outrun' = IF lost THEN outrun \union DOMAIN new ELSE outrun \ DOMAIN new
        /\ change' = [change EXCEPT ![r] = NoChange]
    BY <1>8 DEF CommitSettings
  <2>2. WellMade(q)
    BY DEF SettingsInv
  <2>3. DOMAIN new \subseteq Fields
    BY <2>2, MadeInRow
  <2>4. ASSUME NEW f \in Fields, f \notin outrun' PROVE settings'[f] = expected'[f]
    <3>1. CASE f \notin DOMAIN new
      <4>1. settings'[f] = settings[f] /\ expected'[f] = expected[f] /\ f \notin outrun
        BY <2>1, <2>4, <3>1 DEF Updated
      <4>. QED  BY <4>1 DEF SettingsInv, SettingsAddUp
    <3>2. CASE f \in DOMAIN new
      <4>1. ~lost
        BY <2>1, <2>4, <3>2
      <4>2. ASSUME NEW g \in DOMAIN new PROVE q.found[g] = settings[g]
        BY <4>1, <4>2 DEF Outrun
      <4>3. ASSUME q.kind # "set", NEW g \in DOMAIN new PROVE Base(q)[g] = expected[g]
        <5>1. Base(q)[g] = settings[g] /\ g \notin outrun
          BY <4>1, <4>3 DEF Outrun
        <5>2. g \in Fields
          BY <2>3, <4>3
        <5>3. settings[g] = expected[g]
          BY <5>1, <5>2 DEF SettingsInv, SettingsAddUp
        <5>. QED  BY <5>1, <5>3
      <4>4. q.kind # "set" => \A g \in DOMAIN new : Base(q)[g] = expected[g]
        BY <4>3
      <4>5. new = wanted
        BY <2>2, <4>4, MadeOf
      <4>6. settings'[f] = Written(new[f], q.found[f], settings[f]) /\ expected'[f] = wanted[f]
        BY <2>1, <3>2 DEF Updated
      <4>7. Written(new[f], q.found[f], settings[f]) = new[f]
        <5>1. q.found[f] = settings[f]
          BY <3>2, <4>2
        <5>2. \A v : Written(v, settings[f], settings[f]) = v
          BY DEF Written
        <5>. QED  BY <5>1, <5>2
      <4>. QED  BY <4>5, <4>6, <4>7
    <3>. QED  BY <3>1, <3>2
  <2>5. DOMAIN change' = SettingRequests
    BY <2>1 DEF SettingsInv
  <2>6. ASSUME NEW s \in SettingRequests PROVE WellMade(change'[s])
    <3>1. change'[s] = IF s = r THEN NoChange ELSE change[s]
      BY <2>1 DEF SettingsInv
    <3>. QED  BY <3>1, NoChangeIsWellMade DEF SettingsInv
  <2>. QED  BY <2>4, <2>5, <2>6 DEF SettingsInv, SettingsAddUp, WellMade
<1>9. CASE UNCHANGED settingsVars
  BY <1>9 DEF settingsVars, SettingsInv, SettingsAddUp, WellMade
<1>. QED  BY <1>3, <1>4, <1>5, <1>6, <1>7, <1>8, <1>9 DEF SettingsNext

\* Requests that overlap on a group set what they were asked to and nothing else, but where
\* one was outrun on the same attribute, for any settings and requests (SettingsAddUp).
THEOREM SettingsDoAddUp == SettingsSpec => []SettingsAddUp
<1>1. SettingsInv => SettingsAddUp
  BY DEF SettingsInv
<1>. QED  BY SettingsInvInit, SettingsStep, <1>1, PTL DEF SettingsSpec

(* The values of the settings.                                             *)

AnyValue == UNION {ValuesOf(f) : f \in Fields}
Assigned(F) == {a \in [F -> AnyValue] : \A f \in F : a[f] \in ValuesOf(f)}

\* A row of the group, and what a request sets of it.
Settings == Assigned(Fields)
Assignments == UNION {Assigned(F) : F \in SUBSET Fields}

Change == [step : {"idle", "half", "read", "found"}, kind : {"set", "next", "shift"}, to : Assignments,
           field : Choosable, by : Int, read : Settings, found : Settings]

SettingsTyped ==
    /\ settings \in Settings
    /\ change \in [SettingRequests -> Change]
    /\ submitted \in 0..MaxSettings
    /\ outrun \subseteq Fields

LEMMA AssignedOf ==
    ASSUME NEW F \in SUBSET Fields, NEW a, a = [f \in F |-> a[f]], \A f \in F : a[f] \in ValuesOf(f)
    PROVE  a \in Assigned(F) /\ a \in Assignments
<1>1. a \in [F -> AnyValue]
  BY DEF AnyValue
<1>2. a \in Assigned(F)
  BY <1>1 DEF Assigned
<1>. QED  BY <1>2 DEF Assignments

LEMMA AssignmentsOf ==
    ASSUME NEW to \in Assignments
    PROVE  /\ DOMAIN to \subseteq Fields /\ to = [f \in DOMAIN to |-> to[f]]
           /\ \A f \in DOMAIN to : to[f] \in ValuesOf(f)
<1>1. PICK F \in SUBSET Fields : to \in Assigned(F)
  BY DEF Assignments
<1>2. to \in [F -> AnyValue] /\ \A f \in F : to[f] \in ValuesOf(f)
  BY <1>1 DEF Assigned
<1>. QED  BY <1>2

LEMMA SettingsOf ==
    ASSUME NEW row \in Settings
    PROVE  DOMAIN row = Fields /\ row = [f \in Fields |-> row[f]] /\ \A f \in Fields : row[f] \in ValuesOf(f)
BY DEF Settings, Assigned

\* A row may have whatever the menu offers.
LEMMA OfferedIsValue ==
    ASSUME NEW f \in Choosable
    PROVE  Offered(f) \subseteq ValuesOf(f)
<1>1. f \notin {"report_hour", "report_minute"}
  BY SettingsAssumption DEF Clock
<1>. QED  BY <1>1 DEF ValuesOf

LEMMA ClockValues ==
    /\ ValuesOf("report_hour") = 0..(DayHours - 1)
    /\ ValuesOf("report_minute") = 0..(HourMinutes - 1)
    /\ "report_hour" \in Fields /\ "report_minute" \in Fields /\ Theme \in Fields
    /\ Theme \in Choosable /\ Theme \notin Clock /\ "is_paused" \in Choosable
BY SettingsAssumption DEF ValuesOf, Fields, Clock

LEMMA PremiumIsValue == Premium \subseteq ValuesOf(Theme)
<1>1. Theme \notin {"report_hour", "report_minute"}
  BY ClockValues DEF Clock
<1>. QED  BY <1>1 DEF ValuesOf

LEMMA FirstRowIsSettings == FirstRow \in Settings
<1>1. ASSUME NEW f \in Fields PROVE FirstRow[f] \in ValuesOf(f)
  <2>1. CASE f \in Clock
    <3>1. FirstRow[f] = 0
      BY <2>1 DEF FirstRow
    <3>2. DayHours - 1 \in Nat /\ HourMinutes - 1 \in Nat
      BY SettingsAssumption
    <3>3. f = "report_hour" \/ f = "report_minute"
      BY <2>1 DEF Clock
    <3>. QED  BY <3>1, <3>2, <3>3, ClockValues
  <2>2. CASE f \notin Clock
    <3>1. f \in Choosable
      BY <2>2 DEF Fields
    <3>2. 1 \in DOMAIN MenuOrder[f]
      BY <3>1, SettingsAssumption
    <3>3. FirstRow[f] = MenuOrder[f][1]
      BY <2>2 DEF FirstRow
    <3>4. FirstRow[f] \in Offered(f)
      BY <3>2, <3>3 DEF Offered
    <3>. QED  BY <3>1, <3>4, OfferedIsValue
  <2>. QED  BY <2>1, <2>2
<1>2. FirstRow = [f \in Fields |-> FirstRow[f]]
  BY DEF FirstRow
<1>. QED  BY <1>1, <1>2, AssignedOf DEF Settings

LEMMA NoChangeIsChange == NoChange \in Change
<1>1. <<>> = [f \in {} |-> <<>>[f]]
  OBVIOUS
<1>2. <<>> \in Assignments
  BY <1>1, AssignedOf
<1>. QED  BY <1>2, FirstRowIsSettings, ClockValues DEF NoChange, Change

\* The menu goes round: behind the last value comes the first.
LEMMA NextOffered ==
    ASSUME NEW f \in Choosable, NEW v
    PROVE  NextOf(f, v) \in Offered(f)
<1>. DEFINE at == {i \in DOMAIN MenuOrder[f] : MenuOrder[f][i] = v}
            i == IF at = {} THEN 1 ELSE CHOOSE j \in at : TRUE
            n == Len(MenuOrder[f])
<1>1. MenuOrder[f] \in Seq(Offered(f)) /\ n \in Nat /\ n > 0 /\ DOMAIN MenuOrder[f] = 1..n
  BY SettingsAssumption
<1>2. i \in Nat
  <2>1. CASE at = {}
    BY <2>1
  <2>2. CASE at # {}
    <3>1. i \in at
      BY <2>2
    <3>2. i \in 1..n
      BY <1>1, <3>1
    <3>. QED  BY <1>1, <3>2
  <2>. QED  BY <2>1, <2>2
<1>3. NextOf(f, v) = MenuOrder[f][(i % n) + 1]
  BY DEF NextOf
<1>. HIDE DEF i, n
<1>4. (i % n) \in 0..(n - 1)
  BY <1>1, <1>2
<1>5. (i % n) + 1 \in DOMAIN MenuOrder[f]
  BY <1>1, <1>4
<1>. QED  BY <1>3, <1>5 DEF Offered

\* A time of the day, and the day goes round too.
LEMMA ShiftedIsTime ==
    ASSUME NEW row \in Settings, NEW by \in Int
    PROVE  Shifted(row, by) \in Assignments
<1>. DEFINE minutes == row["report_hour"] * HourMinutes + row["report_minute"] + by
            day == DayHours * HourMinutes
            moment == minutes % day
            to == [f \in Clock |-> IF f = "report_hour" THEN moment \div HourMinutes
                                                        ELSE moment % HourMinutes]
<1>1. HourMinutes \in Nat /\ HourMinutes > 0 /\ DayHours \in Nat /\ DayHours > 0
  BY SettingsAssumption
<1>2. row["report_hour"] \in Int /\ row["report_minute"] \in Int
  BY <1>1, SettingsOf, ClockValues
<1>3. row["report_hour"] * HourMinutes \in Int
  BY <1>1, <1>2
<1>4. minutes \in Int
  BY <1>2, <1>3
<1>5. day \in Nat /\ day > 0
  BY <1>1
<1>. HIDE DEF minutes
<1>6. moment \in 0..(day - 1)
  <2>. HIDE DEF day
  <2>. QED  BY <1>4, <1>5
<1>. HIDE DEF moment
<1>7. moment % HourMinutes \in 0..(HourMinutes - 1)
  BY <1>1, <1>5, <1>6
<1>8. moment \div HourMinutes \in 0..(DayHours - 1)
  <2>. DEFINE k == moment \div HourMinutes
              m == moment % HourMinutes
  <2>1. moment = HourMinutes * k + m /\ k \in Nat /\ m \in Nat
    <3>1. moment \in Nat
      <4>. HIDE DEF day
      <4>. QED  BY <1>5, <1>6
    <3>. QED  BY <1>1, <3>1
  <2>. HIDE DEF k, m
  <2>2. HourMinutes * k < HourMinutes * DayHours
    <3>1. moment < day /\ day = HourMinutes * DayHours /\ HourMinutes * k \in Nat /\ day \in Nat
      BY <1>1, <1>5, <1>6, <2>1
    <3>. HIDE DEF day
    <3>. QED  BY <2>1, <3>1
  <2>3. k < DayHours
    <3>1. SUFFICES ASSUME k >= DayHours PROVE FALSE
      BY <1>1, <2>1
    <3>2. HourMinutes * k >= HourMinutes * DayHours
      BY <1>1, <2>1, <3>1
    <3>3. HourMinutes * k \in Nat /\ HourMinutes * DayHours \in Nat
      BY <1>1, <2>1
    <3>. QED  BY <2>2, <3>2, <3>3
  <2>. QED  BY <1>1, <2>1, <2>3 DEF k
<1>9. \A f \in Clock : to[f] \in ValuesOf(f)
  BY <1>7, <1>8, ClockValues DEF Clock
<1>10. to = [f \in Clock |-> to[f]] /\ Clock \in SUBSET Fields
  BY DEF Fields
<1>11. Shifted(row, by) = to
  BY DEF Shifted, moment, minutes
<1>. HIDE DEF to
<1>. QED  BY <1>9, <1>10, <1>11, AssignedOf

LEMMA MadeIsPart ==
    ASSUME NEW q \in Change, NEW row \in Settings
    PROVE  Made(q, row) \in Assignments
<1>0. q.kind \in {"set", "next", "shift"} /\ q.to \in Assignments /\ q.field \in Choosable /\ q.by \in Int
  BY DEF Change
<1>1. CASE q.kind = "set"
  BY <1>0, <1>1 DEF Made
<1>2. CASE q.kind = "next"
  <2>. DEFINE to == [f \in {q.field} |-> NextOf(f, row[f])]
  <2>1. Made(q, row) = to
    BY <1>2 DEF Made
  <2>2. \A f \in {q.field} : to[f] \in ValuesOf(f)
    BY <1>0, NextOffered, OfferedIsValue
  <2>3. to = [f \in {q.field} |-> to[f]] /\ {q.field} \in SUBSET Fields
    BY <1>0 DEF Fields
  <2>. HIDE DEF to
  <2>. QED  BY <2>1, <2>2, <2>3, AssignedOf
<1>3. CASE q.kind = "shift"
  BY <1>0, <1>3, ShiftedIsTime DEF Made
<1>. QED  BY <1>0, <1>1, <1>2, <1>3

LEMMA SettingsTypedStep == SettingsTyped /\ [SettingsNext]_settingsVars => SettingsTyped'
<1>. SUFFICES ASSUME SettingsTyped, [SettingsNext]_settingsVars PROVE SettingsTyped'
  OBVIOUS
<1>0. /\ settings \in Settings /\ change \in [SettingRequests -> Change]
      /\ submitted \in 0..MaxSettings /\ MaxSettings \in Nat /\ outrun \subseteq Fields
  BY SettingsAssumption DEF SettingsTyped
<1>1. ASSUME NEW r \in SettingRequests, NEW q \in Change, Submit(r, q)
      PROVE  SettingsTyped'
  <2>1. change' \in [SettingRequests -> Change] /\ UNCHANGED <<settings, outrun>>
    BY <1>0, <1>1 DEF Submit
  <2>2. submitted' \in 0..MaxSettings
    BY <1>0, <1>1 DEF Submit
  <2>. QED  BY <1>0, <2>1, <2>2 DEF SettingsTyped
<1>2. ASSUME NEW r \in SettingRequests, NEW F \in SUBSET Fields, NEW to, to = [f \in F |-> to[f]],
             \A f \in F : to[f] \in ValuesOf(f), Setting(r, to)
      PROVE  SettingsTyped'
  <2>1. to \in Assignments
    BY <1>2, AssignedOf
  <2>2. [NoChange EXCEPT !.step = "read", !.to = to] \in Change
    BY <2>1, NoChangeIsChange DEF Change
  <2>. QED  BY <1>1, <1>2, <2>2 DEF Setting
<1>3. ASSUME NEW r \in SettingRequests, NEW f \in Fields, NEW v \in ValuesOf(f),
             Setting(r, [g \in {f} |-> v])
      PROVE  SettingsTyped'
  <2>. DEFINE to == [g \in {f} |-> v]
  <2>1. to = [g \in {f} |-> to[g]] /\ \A g \in {f} : to[g] \in ValuesOf(g)
    OBVIOUS
  <2>. HIDE DEF to
  <2>2. Setting(r, to)
    BY <1>3 DEF to
  <2>. QED  BY <1>2, <2>1, <2>2
<1>4. ASSUME NEW r \in SettingRequests, NEW fields \in SUBSET Choosable,
             NEW themes \in SUBSET ValuesOf(Theme), Patch(r, fields, themes)
      PROVE  SettingsTyped'
  <2>0. Theme \in Fields /\ fields \subseteq Fields
    BY ClockValues DEF Fields
  <2>1. CASE \E v \in themes : Setting(r, [g \in {Theme} |-> v])
    BY <1>3, <2>0, <2>1
  <2>2. CASE \E f \in fields \ {Theme} : \E w \in ValuesOf(f) : Setting(r, [g \in {f} |-> w])
    BY <1>3, <2>0, <2>2
  <2>3. CASE \E f \in fields \ {Theme}, v \in themes : \E w \in ValuesOf(f) :
                Setting(r, [g \in {f, Theme} |-> IF g = Theme THEN v ELSE w])
    <3>1. PICK f \in fields \ {Theme}, v \in themes : \E w \in ValuesOf(f) :
                  Setting(r, [g \in {f, Theme} |-> IF g = Theme THEN v ELSE w])
      BY <2>3
    <3>2. PICK w \in ValuesOf(f) : Setting(r, [g \in {f, Theme} |-> IF g = Theme THEN v ELSE w])
      BY <3>1
    <3>. DEFINE to == [g \in {f, Theme} |-> IF g = Theme THEN v ELSE w]
    <3>3. to = [g \in {f, Theme} |-> to[g]] /\ \A g \in {f, Theme} : to[g] \in ValuesOf(g)
      OBVIOUS
    <3>4. {f, Theme} \in SUBSET Fields
      BY <2>0
    <3>. HIDE DEF to
    <3>5. Setting(r, to)
      BY <3>2 DEF to
    <3>. QED  BY <1>2, <3>3, <3>4, <3>5
  <2>. QED  BY <1>4, <2>1, <2>2, <2>3 DEF Patch
<1>5. ASSUME NEW r \in SettingRequests,
             UpdateSettings(r) \/ UpdateGroup(r) \/ SetPaused(r) \/ UpdateReportTheme(r)
      PROVE  SettingsTyped'
  <2>1. PanelFields \in SUBSET Choosable /\ "is_paused" \in Fields /\ Theme \in Fields
    BY SettingsAssumption DEF Fields
  <2>2. Offered(Theme) \in SUBSET ValuesOf(Theme) /\ Premium \subseteq ValuesOf(Theme)
    BY ClockValues, OfferedIsValue, PremiumIsValue
  <2>3. CASE UpdateSettings(r)
    BY <1>4, <2>3 DEF UpdateSettings
  <2>4. CASE UpdateGroup(r)
    BY <1>4, <2>1, <2>2, <2>4 DEF UpdateGroup
  <2>5. CASE SetPaused(r)
    BY <1>3, <2>1, <2>5 DEF SetPaused
  <2>6. CASE UpdateReportTheme(r)
    BY <1>3, <2>1, <2>2, <2>6 DEF UpdateReportTheme
  <2>. QED  BY <1>5, <2>3, <2>4, <2>5, <2>6
<1>6. ASSUME NEW r \in SettingRequests, SetReportTime(r) PROVE SettingsTyped'
  <2>1. PICK h \in ValuesOf("report_hour"), m \in ValuesOf("report_minute") :
            Setting(r, [f \in Clock |-> IF f = "report_hour" THEN h ELSE m])
    BY <1>6 DEF SetReportTime
  <2>. DEFINE to == [f \in Clock |-> IF f = "report_hour" THEN h ELSE m]
  <2>2. to = [f \in Clock |-> to[f]] /\ \A f \in Clock : to[f] \in ValuesOf(f)
    BY DEF Clock
  <2>3. Clock \in SUBSET Fields
    BY DEF Fields
  <2>. HIDE DEF to
  <2>4. Setting(r, to)
    BY <2>1 DEF to
  <2>. QED  BY <1>2, <2>2, <2>3, <2>4
<1>7. ASSUME NEW r \in SettingRequests, Press(r) PROVE SettingsTyped'
  <2>1. ASSUME NEW f \in Choosable
        PROVE  [NoChange EXCEPT !.step = "half", !.kind = "next", !.field = f, !.read = settings] \in Change
    BY <1>0, NoChangeIsChange DEF Change
  <2>2. ASSUME NEW by \in Shifts
        PROVE  [NoChange EXCEPT !.step = "half", !.kind = "shift", !.by = by, !.read = settings] \in Change
    <3>1. by \in Int
      BY SettingsAssumption
    <3>. QED  BY <1>0, <3>1, NoChangeIsChange DEF Change
  <2>. QED  BY <1>1, <1>7, <2>1, <2>2 DEF Press
<1>8. ASSUME NEW r \in SettingRequests, NEW q \in Change, change' = [change EXCEPT ![r] = q],
             UNCHANGED <<settings, submitted, outrun>>
      PROVE  SettingsTyped'
  BY <1>0, <1>8 DEF SettingsTyped
<1>9. ASSUME NEW r \in SettingRequests, ReadExtras(r) PROVE SettingsTyped'
  <2>. DEFINE read == [change[r].read EXCEPT !["report_minute"] = settings["report_minute"],
                                            ![Theme] = settings[Theme]]
              q == [change[r] EXCEPT !.step = "read", !.read = read]
  <2>1. change[r] \in Change /\ change[r].read \in Settings
    BY <1>0 DEF Change
  <2>2. DOMAIN read = Fields /\ read = [f \in Fields |-> read[f]]
    BY <2>1, SettingsOf
  <2>3. ASSUME NEW f \in Fields PROVE read[f] \in ValuesOf(f)
    <3>1. read[f] = settings[f] \/ read[f] = change[r].read[f]
      BY <2>1, SettingsOf
    <3>. QED  BY <1>0, <2>1, <3>1, SettingsOf
  <2>. HIDE DEF read
  <2>4. read \in Settings
    BY <2>2, <2>3, AssignedOf DEF Settings
  <2>5. q \in Change
    BY <2>1, <2>4 DEF Change
  <2>6. change' = [change EXCEPT ![r] = q] /\ UNCHANGED <<settings, submitted, outrun>>
    BY <1>0, <1>9 DEF ReadExtras, read
  <2>. HIDE DEF q
  <2>. QED  BY <1>8, <2>5, <2>6
<1>10. ASSUME NEW r \in SettingRequests, GetGroup(r) PROVE SettingsTyped'
  <2>. DEFINE q == [change[r] EXCEPT !.step = "found", !.found = settings]
  <2>1. q \in Change
    BY <1>0 DEF Change
  <2>2. change' = [change EXCEPT ![r] = q] /\ UNCHANGED <<settings, submitted, outrun>>
    BY <1>0, <1>10 DEF GetGroup
  <2>. HIDE DEF q
  <2>. QED  BY <1>8, <2>1, <2>2
<1>11. ASSUME NEW r \in SettingRequests, GiveUp(r) PROVE SettingsTyped'
  BY <1>8, <1>11, NoChangeIsChange DEF GiveUp
<1>12. ASSUME NEW r \in SettingRequests, CommitSettings(r) PROVE SettingsTyped'
  <2>. DEFINE q == change[r]
              new == Made(q, Base(q))
  <2>1. q \in Change /\ q.read \in Settings /\ q.found \in Settings
    BY <1>0 DEF Change
  <2>2. Base(q) \in Settings
    BY <2>1 DEF Base
  <2>3. new \in Assignments
    BY <2>1, <2>2, MadeIsPart
  <2>4. settings' = Updated(q, new) /\ outrun' \subseteq outrun \union DOMAIN new
        /\ change' = [change EXCEPT ![r] = NoChange] /\ UNCHANGED submitted
    BY <1>12 DEF CommitSettings
  <2>. HIDE DEF q, new
  <2>5. DOMAIN new \subseteq Fields /\ \A f \in DOMAIN new : new[f] \in ValuesOf(f)
    BY <2>3, AssignmentsOf
  <2>6. ASSUME NEW f \in Fields PROVE Updated(q, new)[f] \in ValuesOf(f)
    <3>1. Updated(q, new)[f] \in {settings[f]} \union {new[g] : g \in {f} \intersect DOMAIN new}
      BY DEF Updated, Written
    <3>. QED  BY <1>0, <2>5, <3>1, SettingsOf
  <2>7. Updated(q, new) = [f \in Fields |-> Updated(q, new)[f]]
    BY DEF Updated
  <2>8. settings' \in Settings
    BY <2>4, <2>6, <2>7, AssignedOf DEF Settings
  <2>9. change' \in [SettingRequests -> Change]
    BY <1>0, <2>4, NoChangeIsChange
  <2>. QED  BY <1>0, <2>4, <2>5, <2>8, <2>9 DEF SettingsTyped
<1>13. CASE UNCHANGED settingsVars
  BY <1>13 DEF settingsVars, SettingsTyped
<1>. QED  BY <1>5, <1>6, <1>7, <1>9, <1>10, <1>11, <1>12, <1>13 DEF SettingsNext

\* The row of a group keeps values that the menu, the list of themes or the clock of a day
\* has, whatever a button adds to the time (app/bot/routers/settings.py:342).
THEOREM SettingsAreTyped == SettingsSpec => []SettingsTypeOK
<1>1. SettingsInit => SettingsTyped
  BY NoChangeIsChange, FirstRowIsSettings, SettingsAssumption DEF SettingsInit, SettingsTyped
<1>2. SettingsTyped => SettingsTypeOK
  <2>. SUFFICES ASSUME SettingsTyped PROVE SettingsTypeOK
    OBVIOUS
  <2>1. \A f \in Fields : settings[f] \in ValuesOf(f)
    BY SettingsOf DEF SettingsTyped
  <2>2. \A r \in SettingRequests : change[r].step \in {"idle", "half", "read", "found"}
    BY DEF SettingsTyped, Change
  <2>. QED  BY <2>1, <2>2 DEF SettingsTyped, SettingsTypeOK
<1>. QED  BY <1>1, <1>2, SettingsTypedStep, PTL DEF SettingsSpec

-----------------------------------------------------------------------------
(* The composition.  A behaviour of it is one of every part: of the one at   *)
(* work, and of the others in which nothing happens.                         *)

LEMMA MembersPartsRun ==
    MembersSpec => /\ StreakSpec /\ AchievementSpec /\ FeaturedSpec /\ StatusSpec /\ ControlSpec
                   /\ RemindersSpec /\ StaffSpec /\ SettingsSpec /\ RulesSpec
<1>1. MembersInit => /\ StreakInit /\ AchievementInit /\ FeaturedInit /\ StatusInit /\ ControlInit
                     /\ RemindersInit /\ StaffInit /\ SettingsInit /\ RulesInit
  BY DEF MembersInit
<1>2. ASSUME [MembersNext]_membersVars
      PROVE  /\ [StreakNext]_streakVars /\ [AchievementNext]_achievementVars
             /\ [FeaturedNext]_featuredVars /\ [StatusNext]_statusVars
             /\ [ControlNext]_controlVars /\ [RemindersNext]_remindersVars
             /\ [StaffNext]_staffVars /\ [SettingsNext]_settingsVars /\ [RulesNext]_ruleVars
  BY <1>2 DEF MembersNext, membersVars
<1>. QED
  BY <1>1, <1>2, PTL
     DEF MembersSpec, StreakSpec, AchievementSpec, FeaturedSpec, StatusSpec, ControlSpec,
         RemindersSpec, StaffSpec, SettingsSpec, RulesSpec

\* Whatever part is at work, its state is what the code can hold: no slot of a profile twice,
\* no value of a setting that the menu does not know, no delivery lost under its counter.
THEOREM MembersAreTyped == MembersSpec => []MembersTypeOK
<1>. DEFINE PartTypeOK == part \in Parts
<1>1. MembersInit => PartTypeOK
  BY DEF MembersInit
<1>2. PartTypeOK /\ [MembersNext]_membersVars => PartTypeOK'
  BY DEF MembersNext, membersVars
<1>3. PartTypeOK /\ StreakTypeOK /\ AchievementTypeOK /\ FeaturedTypeOK /\ StatusTypeOK
      /\ ControlTypeOK /\ RemindersTypeOK /\ StaffTypeOK /\ SettingsTypeOK /\ RulesTypeOK
         => MembersTypeOK
  BY DEF MembersTypeOK
<1>. HIDE DEF PartTypeOK
<1>. QED
  BY <1>1, <1>2, <1>3, MembersPartsRun, StreaksAreTyped, AchievementsAreTyped, PinnedIsTyped,
     StatusIsTyped, ControlIsTyped, RemindersAreTyped, StaffIsTyped, SettingsAreTyped,
     RulesAreTyped, PTL DEF MembersSpec

\* All that Members.cfg checks of states, for the composition it runs: streaks and their
\* gaps, unlocks and pins, the rights of the bot and of administrators, the audit log,
\* reminders, settings and the XP of messages.  Each conjunct has the exceptions of its own
\* definition, and no more: entries that commit out of order and a set_role that missed a
\* remove_role, a message that missed a change of the bot's status, a reminder claimed while
\* another is being sent, a level that an adjustment or a weekly reward had not seen, and a
\* setting switched on a value that had changed.
THEOREM MembersAreSafe ==
    MembersSpec =>
       [](/\ StreakIsEarned /\ GapsArePaid /\ UnlocksSettled /\ FeaturedWhole /\ PrivilegeKept
          /\ AuditExplainsAccess /\ RemindersSpaced /\ DeliveredOnce /\ OwnerUntouchable
          /\ SettingsAddUp /\ XpIsEarned)
<1>. QED
  BY MembersPartsRun, StreaksAreEarned, GapsAreAlwaysPaid, UnlocksAreSettled, PinnedIsWhole,
     PrivilegeIsKept, AccessIsExplained, RemindersAreSpaced, MessagesAreDeliveredOnce,
     OwnerIsUntouchable, SettingsDoAddUp, XpIsAlwaysEarned, PTL

=============================================================================
