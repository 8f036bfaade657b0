----------------------------- MODULE WrittenRows -----------------------------
(***************************************************************************)
(* What a commit of SQLAlchemy's session does to a row that it has read    *)
(* and nothing locks: the UPDATE names the attributes that differ from     *)
(* what was read, and leaves the others of the row as they are by then.    *)
(***************************************************************************)

\* One attribute at the commit.
Written(new, read, now) == IF new # read THEN new ELSE now

=============================================================================
