---------------------------- MODULE VersionedRows ----------------------------
(* Task rows with a version column (src/infra/platform/db/optimistic.py), written by
   sessions that share one SQLite database.  A session's first UPDATE takes the write
   lock and holds it until its commit or rollback; readers see committed rows.  An
   update writes every column of the row as the session loaded it, so a row is
   abstracted to the set of edits it shows.                                       *)
EXTENDS Naturals, FiniteSets

CONSTANTS None, Rows

VARIABLES rows,     \* the committed rows
          writer,   \* the session holding the write lock, or None
          dirty     \* the rows as the writer's transaction sees them

dbVars == <<rows, writer, dirty>>

FirstRow == [version |-> 1, content |-> {}]

InitRows == /\ rows = [r \in Rows |-> FirstRow]
            /\ writer = None
            /\ dirty = rows

MayWrite(s) == writer \in {None, s}

(* The row with id r as session s finds it when it runs its UPDATE. *)
Seen(s, r) == IF writer = s THEN dirty[r] ELSE rows[r]

(* Mutant: UPDATE ... WHERE id = r. *)
RowExists(s, r, expected) == TRUE

(* UPDATE ... WHERE id = r AND version = expected finds a row. *)
VersionMatches(s, r, expected) == Seen(s, r).version = expected

UpdateWithVersionCheck(s, r, expected, content) ==
    /\ writer' = s
    /\ dirty' = [IF writer = s THEN dirty ELSE rows
                   EXCEPT ![r] = [version |-> expected + 1, content |-> content]]
    /\ rows' = rows

Commit == rows' = dirty /\ writer' = None /\ dirty' = dirty

(* Session s gives up its transaction, if it has one. *)
Rollback(s) == /\ writer' = IF writer = s THEN None ELSE writer
               /\ dirty' = IF writer = s THEN rows ELSE dirty
               /\ rows' = rows
=============================================================================
