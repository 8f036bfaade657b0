-------------------------- MODULE FeaturedAchievements --------------------------
(***************************************************************************)
(* The achievements a user has pinned to his profile                       *)
(* (app/repositories/featured_achievements.py): a request replaces them    *)
(* all, in a transaction that checks that they are earned, deletes the     *)
(* rows of the user and inserts those of the selection, from slot 1 on.    *)
(*                                                                         *)
(* Nothing locks the user, so that requests overlap.  DELETE finds the     *)
(* rows committed when it starts, waits for one that another transaction   *)
(* has deleted, and passes over it once it is gone; INSERT waits for a row *)
(* with the same slot or achievement that another has inserted or is       *)
(* deleting, and fails when there is one.                                  *)
(***************************************************************************)
EXTENDS Naturals, FiniteSets, Sequences, SequencesExt

CONSTANTS
    Selections,           \* each is made once
    Items,              \* achievements with their scope
    MaxFeatured         \* MAX_FEATURED_ACHIEVEMENTS

ASSUME FeaturedAssumption == MaxFeatured \in Nat

VARIABLES
    earned,             \* the items with a row in one of the tables of achievements
    featured,           \* the rows committed, each with the request that inserted it
    progress,           \* where a request stands
    selection,          \* the items it asks for
    seen,               \* the rows its DELETE found
    deleted, inserted   \* the rows it has deleted and inserted so far

featuredVars == <<earned, featured, progress, selection, seen, deleted, inserted>>

Row == [slot : 1..MaxFeatured, item : Items, by : Selections]
RowsOf(r) == {[slot |-> n, item |-> selection[r][n], by |-> r] : n \in 1..Len(selection[r])}
InProgress(r) == progress[r] \in {"checked", "deleting", "deleted", "inserted"}

FeaturedTypeOK ==
    /\ earned \subseteq Items
    /\ featured \subseteq Row
    /\ \A x, y \in featured : x.slot = y.slot \/ x.item = y.item => x = y
    /\ progress \in [Selections -> {"new", "asked", "checked", "deleting", "deleted", "inserted",
                                  "committed", "refused"}]
    /\ \A r \in Selections :
          /\ selection[r] \in Seq(Items) /\ IsInjective(selection[r])
          /\ Len(selection[r]) <= MaxFeatured
          /\ seen[r] \subseteq Row /\ deleted[r] \subseteq seen[r] /\ inserted[r] \subseteq Row

FeaturedInit ==
    /\ earned \in SUBSET Items
    /\ featured = {}
    /\ progress = [r \in Selections |-> "new"]
    /\ selection = [r \in Selections |-> << >>]
    /\ seen = [r \in Selections |-> {}]
    /\ deleted = [r \in Selections |-> {}]
    /\ inserted = [r \in Selections |-> {}]

Move(r, from, to) == progress[r] = from /\ progress' = [progress EXCEPT ![r] = to]

\* The end of a transaction, or of a request that had none.
Close(r, from, to) ==
    /\ Move(r, from, to)
    /\ seen' = [seen EXCEPT ![r] = {}]
    /\ deleted' = [deleted EXCEPT ![r] = {}]
    /\ inserted' = [inserted EXCEPT ![r] = {}]

\* An achievement is earned; a reset deletes one that was not taken over yet.
ChangeEarned(i) ==
    /\ earned' = IF i \in earned THEN earned \ {i} ELSE earned \union {i}
    /\ UNCHANGED <<featured, progress, selection, seen, deleted, inserted>>

\* The request, without repetitions.  set_featured_codes looks the codes up first, in
\* a transaction of its own.
Ask(r, items, byCodes) ==
    /\ byCodes => ToSet(items) \subseteq earned
    /\ Move(r, "new", "asked")
    /\ selection' = [selection EXCEPT ![r] = items]
    /\ UNCHANGED <<earned, featured, seen, deleted, inserted>>

\* _source_for_identity for each item
CheckSelection(r) ==
    /\ IF ToSet(selection[r]) \subseteq earned
         THEN Move(r, "asked", "checked") ELSE Move(r, "asked", "refused")
    /\ UNCHANGED <<earned, featured, selection, seen, deleted, inserted>>

\* Faulty: only the slots to fill are cleared.
SlotsOfSelection(r) == {x \in featured : x.slot <= Len(selection[r])}

\* The WHERE of the DELETE
RowsToDelete(r) == featured

StartDelete(r) ==
    /\ Move(r, "checked", "deleting")
    /\ seen' = [seen EXCEPT ![r] = RowsToDelete(r)]
    /\ UNCHANGED <<earned, featured, selection, deleted, inserted>>

EndDelete(r) ==
    /\ \A o \in Selections \ {r} : InProgress(o) => deleted[o] \intersect seen[r] = {}
    /\ Move(r, "deleting", "deleted")
    /\ deleted' = [deleted EXCEPT ![r] = seen[r] \intersect featured]
    /\ UNCHANGED <<earned, featured, selection, seen, inserted>>

\* Faulty: a slot may be taken twice.
SameItems(r, T) == {x \in T : \E y \in RowsOf(r) : x.item = y.item}

\* The rows of T that an INSERT of r would collide with: the primary key and
\* uq_featured_achievement_identity.
Conflicts(r, T) == {x \in T : \E y \in RowsOf(r) : x.slot = y.slot \/ x.item = y.item}

InsertRows(r) ==
    LET there == Conflicts(r, featured \ deleted[r]) IN
    /\ \A o \in Selections \ {r} :
          InProgress(o) => Conflicts(r, inserted[o]) = {} /\ there \intersect deleted[o] = {}
    /\ IF there = {}
         THEN /\ Move(r, "deleted", "inserted")
              /\ inserted' = [inserted EXCEPT ![r] = RowsOf(r)]
              /\ UNCHANGED <<seen, deleted>>
         ELSE Close(r, "deleted", "refused")
    /\ UNCHANGED <<earned, featured, selection>>

CommitSelection(r) ==
    /\ Close(r, "inserted", "committed")
    /\ featured' = (featured \ deleted[r]) \union inserted[r]
    /\ UNCHANGED <<earned, selection>>

\* The process dies, a statement fails, or it is chosen to end a deadlock.
AbortSelection(r) ==
    /\ InProgress(r)
    /\ Close(r, progress[r], "refused")
    /\ UNCHANGED <<earned, featured, selection>>

FeaturedNext ==
    \/ \E i \in Items : ChangeEarned(i)
    \/ \E r \in Selections :
          \/ \E items \in {q \in SeqOf(Items, MaxFeatured) : IsInjective(q)}, byCodes \in BOOLEAN :
                Ask(r, items, byCodes)
          \/ CheckSelection(r) \/ StartDelete(r) \/ EndDelete(r)
          \/ InsertRows(r) \/ CommitSelection(r) \/ AbortSelection(r)

FeaturedSpec == FeaturedInit /\ [][FeaturedNext]_featuredVars

-----------------------------------------------------------------------------
(* Properties. *)

Committed == {r \in Selections : progress[r] = "committed"}

\* What is pinned is the whole selection of one request, in its order: requests that
\* overlap never leave a mixture, although the DELETE of one does not see the rows of
\* the other (featured_achievements.py:183).
FeaturedWhole ==
    IF Committed = {} THEN featured = {} ELSE \E r \in Committed : featured = RowsOf(r)

=================================================================================
