------------------------------- MODULE DbSession -------------------------------
(* The one SQLAlchemy session all services of the desktop process share: opened by
   build_services with autoflush=False and never closed.  The library is external;
   this module states what the services rely on.

   db is the committed database and ws what the session's own statements see.  A
   service that fails after writing and does not roll back leaves ws different from
   db, and the next commit of any service makes the difference permanent.

   A row handed to session.add is written at the next flush, and until then no
   query returns it: unflushed holds the keys of such rows.  Two of them with one
   unique key (clash) make the next flush fail; the database then undoes the whole
   transaction, and a session nobody rolls back refuses every later statement
   (PendingRollbackError) until the process is restarted.                        *)
EXTENDS FiniteSets

VARIABLES db, ws, unflushed, clash, session

sessionVars == <<db, ws, unflushed, clash, session>>

SessionOpen(tables) == /\ db = tables
                       /\ ws = tables
                       /\ unflushed = {}
                       /\ clash = FALSE
                       /\ session = "ACTIVE"

Committed(tables) == /\ db' = tables
                     /\ ws' = tables
                     /\ unflushed' = {}
                     /\ clash' = FALSE
                     /\ UNCHANGED session

Undone == /\ ws' = db
          /\ unflushed' = {}
          /\ clash' = FALSE
          /\ UNCHANGED db

(* session.rollback() in an except clause. *)
Rollback == Undone /\ UNCHANGED session

(* A failed flush that no except clause answers. *)
FlushFails == Undone /\ session' = "INACTIVE"

(* try: ...; session.commit()  except: session.rollback(); raise *)
CommitOrRollback(tables) == IF clash THEN Rollback ELSE Committed(tables)

(* session.commit() outside a try block. *)
BareCommit(tables) == IF clash THEN FlushFails ELSE Committed(tables)

(* An exception leaves the writes made so far in the open transaction. *)
LeftOpen(tables, rows, doubled) == /\ ws' = tables
                                   /\ unflushed' = rows
                                   /\ clash' = doubled
                                   /\ UNCHANGED <<db, session>>

(* The process dies, or is closed, and a new one opens its session. *)
Reopened == /\ ws' = db
            /\ unflushed' = {}
            /\ clash' = FALSE
            /\ session' = "ACTIVE"
            /\ UNCHANGED db
=============================================================================
