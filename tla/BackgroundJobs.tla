--------------------------- MODULE BackgroundJobs ---------------------------
(* Jobs of the dashboard on the thread pool (src/ui/platform/shared/async_job.py): its
   refresh, and the manual shift of a task followed by a recalculation of the project;
   beside them the task dialog on the UI thread.  A worker has a database session of its
   own.  A handle has a slot of Refreshes or Shifts while it lives.                  *)
EXTENDS VersionedRows, Sequences

CONSTANTS UI,           \* the session of the UI thread
          Edits,        \* saves the user may make in the task dialog
          Leaves,       \* the tasks without successors, which alone may be shifted
          Refreshes,    \* slots for refresh jobs
          Shifts,       \* slots for manual shift jobs
          MaxActs       \* bound on the saves tried, the shift jobs and the doubled retries

Jobs == Refreshes \cup Shifts

ASSUME JobAssumption == /\ Refreshes \cap Shifts = {} /\ Refreshes # {}
                        /\ UI \notin Jobs /\ None \notin Jobs \cup {UI}
                        /\ Leaves \subseteq Rows
                        /\ MaxActs \in Nat

VARIABLES ui,         \* the task dialog
          job,        \* the handles and their runnables
          questions,  \* failed jobs whose retry question is open, the front one first
          inflight,   \* _dashboard_refresh_inflight
          pending,    \* _dashboard_refresh_pending
          levelable,  \* the leveling buttons are enabled
          shown,      \* versions of the rows the dashboard shows
          last,       \* outcome of the refresh delivered last
          announced,  \* versions of the rows when tasks_changed was last emitted
          started,    \* shift jobs started
          doubled     \* retries that ran beside a refresh that was pending

viewVars == <<inflight, pending, shown, last, doubled>>
vars == <<dbVars, ui, job, questions, viewVars, levelable, announced, started>>

NoVersions == [r \in Rows |-> 0]
Versions(f) == [r \in Rows |-> f[r].version]
NoJob == [at |-> "free", dialog |-> FALSE, cancelled |-> FALSE, row |-> None,
          loaded |-> None, todo |-> {}, outcome |-> None]
Idle == [at |-> "idle", edit |-> None, row |-> None, opened |-> None]

Working(j) == job[j].at \in {"loaded", "recalculating", "written"}
Cancellable(j) == /\ job[j].dialog /\ ~job[j].cancelled
                  /\ Working(j) \/ job[j].at \in {"queued", "returned"}
Asking == questions # <<>>

EditsMade == (UNION {rows[r].content : r \in Rows}) \cap Edits
MayAct == started + doubled + Cardinality(EditsMade) < MaxActs

(* The user reaches the window: no modal dialog, progress dialog or question covers it. *)
WindowFree == ui.at = "idle" /\ ~Asking /\ \A j \in Jobs : ~Cancellable(j)

(* The UI thread is in its event loop, perhaps that of a dialog, and not in a save. *)
EventLoop == ui.at \in {"idle", "dialog"}

FreeSlots(slots, jobs) == {j \in slots : jobs[j].at = "free"}
Slot(slots, jobs) == CHOOSE j \in FreeSlots(slots, jobs) : TRUE

Queued(dialog) == [NoJob EXCEPT !.at = "queued", !.dialog = dialog]

InitJobs == /\ ui = Idle
            /\ job = [j \in Jobs |-> NoJob] /\ questions = <<>>
            /\ inflight = FALSE /\ pending = FALSE
            /\ levelable = TRUE
            /\ shown = Versions(rows) /\ last = "success"
            /\ announced = NoVersions
            /\ started = 0 /\ doubled = 0

Init == InitRows /\ InitJobs

-----------------------------------------------------------------------------
(* Refreshing the dashboard: what a step on the UI thread makes of the view, given the
   jobs as the step leaves them.                                                   *)

(* Mutant: a request during a refresh is forgotten. *)
RequestDropped(jobs, dialog) ==
    IF inflight
    THEN job' = jobs /\ UNCHANGED <<pending, inflight>>
    ELSE /\ job' = [jobs EXCEPT ![Slot(Refreshes, jobs)] = Queued(dialog)]
         /\ inflight' = TRUE /\ pending' = pending

(* run_refresh_dashboard_async *)
RequestRefresh(jobs, dialog) ==
    IF inflight
    THEN job' = jobs /\ pending' = TRUE /\ inflight' = inflight
    ELSE /\ job' = [jobs EXCEPT ![Slot(Refreshes, jobs)] = Queued(dialog)]
         /\ inflight' = TRUE /\ pending' = pending

(* Mutant: the end of a refresh clears the pending flag and starts nothing. *)
PendingForgotten(jobs, j) == pending' = FALSE /\ inflight' = FALSE /\ job' = jobs

(* The _set_busy(False) of the refresh job j: a pending refresh starts at once, with the
   progress setting of the one that ended. *)
RefreshDone(jobs, j) ==
    /\ pending' = FALSE
    /\ inflight' = pending
    /\ job' = IF pending
              THEN [jobs EXCEPT ![Slot(Refreshes, jobs)] = Queued(job[j].dialog)]
              ELSE jobs

Finish(j) ==
    LET jobs == [job EXCEPT ![j] = NoJob]
    IN  IF j \in Refreshes
        THEN RefreshDone(jobs, j) /\ levelable' = levelable
        ELSE job' = jobs /\ levelable' = TRUE /\ UNCHANGED <<inflight, pending>>

-----------------------------------------------------------------------------
(* The user.                                                                       *)

(* refresh_dashboard from its button, which is disabled during a refresh *)
PressRefresh ==
    /\ WindowFree /\ ~inflight
    /\ RequestRefresh(job, TRUE)
    /\ UNCHANGED <<questions, dbVars, ui, levelable, shown, last, announced, started, doubled>>

(* run_manual_shift_conflict_async *)
StartShift(r) ==
    /\ WindowFree /\ levelable
    /\ MayAct /\ FreeSlots(Shifts, job) # {}
    /\ job' = [job EXCEPT ![Slot(Shifts, job)] = [Queued(TRUE) EXCEPT !.row = r]]
    /\ levelable' = FALSE
    /\ started' = started + 1
    /\ UNCHANGED <<questions, dbVars, ui, viewVars, announced>>

(* _request_cancel: the progress dialog hides and the job is only asked to stop. *)
RequestCancel(j) ==
    /\ EventLoop /\ Cancellable(j)
    /\ job' = [job EXCEPT ![j].cancelled = TRUE]
    /\ UNCHANGED <<questions, dbVars, ui, viewVars, levelable, announced, started>>

OpenDialog(r) ==
    /\ WindowFree /\ MayAct /\ Edits \ EditsMade # {}
    /\ ui' = [at |-> "dialog", edit |-> CHOOSE e \in Edits \ EditsMade : TRUE,
              row |-> r, opened |-> rows[r]]
    /\ UNCHANGED <<questions, dbVars, job, viewVars, levelable, announced, started>>

CloseDialog ==
    /\ ui.at = "dialog" /\ ~Asking
    /\ ui' = Idle
    /\ UNCHANGED <<questions, dbVars, job, viewVars, levelable, announced, started>>

-----------------------------------------------------------------------------
(* Saving the dialog: update_task on the UI thread.                                 *)

UnchangedSinceOpened == rows[ui.row].version = ui.opened.version

(* The row is read again and must be the one the dialog was opened on. *)
SaveDialog ==
    /\ ui.at = "dialog" /\ ~Asking
    /\ IF UnchangedSinceOpened
       THEN ui' = [ui EXCEPT !.at = "saving", !.opened.version = rows[ui.row].version]
       ELSE ui' = Idle
    /\ UNCHANGED <<questions, dbVars, job, viewVars, levelable, announced, started>>

FlushSave ==
    /\ ui.at = "saving" /\ MayWrite(UI)
    /\ IF VersionMatches(UI, ui.row, ui.opened.version)
       THEN /\ UpdateWithVersionCheck(UI, ui.row, ui.opened.version,
                                      ui.opened.content \cup {ui.edit})
            /\ ui' = [ui EXCEPT !.at = "flushed"]
       ELSE Rollback(UI) /\ ui' = Idle
    /\ UNCHANGED <<questions, job, viewVars, levelable, announced, started>>

(* The other session keeps the lock for longer than the driver waits. *)
SaveLockedOut ==
    /\ ui.at = "saving" /\ ~MayWrite(UI)
    /\ ui' = Idle
    /\ UNCHANGED <<questions, dbVars, job, viewVars, levelable, announced, started>>

CommitSave ==
    /\ ui.at = "flushed"
    /\ Commit
    /\ ui' = [ui EXCEPT !.at = "committed"]
    /\ UNCHANGED <<questions, job, viewVars, levelable, announced, started>>

(* The audit entry is written in a transaction of its own; then tasks_changed is emitted,
   whose subscriber refreshes the dashboard. *)
AnnounceSave ==
    /\ ui.at = "committed" /\ MayWrite(UI)
    /\ announced' = Versions(rows)
    /\ ui' = Idle
    /\ RequestRefresh(job, FALSE)
    /\ UNCHANGED <<questions, dbVars, levelable, shown, last, started, doubled>>

(* The audit entry fails: the save stays and nobody is told. *)
AuditLockedOut ==
    /\ ui.at = "committed" /\ ~MayWrite(UI)
    /\ ui' = Idle
    /\ UNCHANGED <<questions, dbVars, job, viewVars, levelable, announced, started>>

-----------------------------------------------------------------------------
(* The worker threads.                                                             *)

Return(j, outcome) ==
    job' = [job EXCEPT ![j].at = "returned", ![j].outcome = outcome,
                       ![j].loaded = IF j \in Refreshes /\ outcome = "success" THEN @ ELSE None,
                       ![j].todo = {}]

(* The first raise_if_cancelled, then the reads: a refresh reads everything it shows, a
   shift the task it moves. *)
BeginWork(j) ==
    /\ job[j].at = "queued"
    /\ IF job[j].cancelled
       THEN Return(j, "cancelled")
       ELSE job' = [job EXCEPT ![j].at = "loaded", ![j].loaded = rows,
                               ![j].todo = IF j \in Shifts THEN {job[j].row} ELSE {}]
    /\ UNCHANGED <<questions, dbVars, ui, viewVars, levelable, announced, started>>

(* The tasks are written in the order of the schedule, each under its version. *)
WriteRow(j) ==
    /\ Working(j) /\ job[j].todo # {}
    /\ MayWrite(j)
    /\ LET r == CHOOSE r \in job[j].todo : TRUE
           read == job[j].loaded[r]
       IN  IF VersionMatches(j, r, read.version)
           THEN /\ UpdateWithVersionCheck(j, r, read.version, read.content \cup {j})
                /\ job' = [job EXCEPT ![j].todo = @ \ {r}]
           ELSE Rollback(j) /\ Return(j, "failure")
    /\ UNCHANGED <<questions, ui, viewVars, levelable, announced, started>>

(* The shift is committed; recalculate_project_schedule loads the project and writes all
   its tasks in a second transaction. *)
CommitShift(j) ==
    /\ j \in Shifts /\ job[j].at = "loaded" /\ job[j].todo = {}
    /\ Commit
    /\ job' = [job EXCEPT ![j].at = "recalculating", ![j].loaded = dirty, ![j].todo = Rows]
    /\ UNCHANGED <<questions, ui, viewVars, levelable, announced, started>>

CommitRecalculation(j) ==
    /\ job[j].at = "recalculating" /\ job[j].todo = {}
    /\ Commit
    /\ job' = [job EXCEPT ![j].at = "written", ![j].loaded = None]
    /\ UNCHANGED <<questions, ui, viewVars, levelable, announced, started>>

(* The work is over; only now the token is asked again. *)
EndWork(j) ==
    /\ job[j].at = IF j \in Shifts THEN "written" ELSE "loaded"
    /\ Return(j, IF job[j].cancelled THEN "cancelled" ELSE "success")
    /\ UNCHANGED <<questions, dbVars, ui, viewVars, levelable, announced, started>>

(* Any exception of the work, a database that stays locked among them. *)
FailWork(j) ==
    /\ Working(j) \/ job[j].at = "queued"
    /\ Rollback(j)
    /\ Return(j, "failure")
    /\ UNCHANGED <<questions, ui, viewVars, levelable, announced, started>>

-----------------------------------------------------------------------------
(* The UI thread handles the signal of a job.                                       *)

Delivered(j, outcome) ==
    EventLoop /\ job[j].at = "returned" /\ job[j].outcome = outcome

(* on_success shows the result, which also enables the leveling buttons. *)
ShowRefresh(j) ==
    /\ j \in Refreshes /\ Delivered(j, "success")
    /\ shown' = Versions(job[j].loaded) /\ last' = "success"
    /\ RefreshDone([job EXCEPT ![j] = NoJob], j)
    /\ levelable' = TRUE
    /\ UNCHANGED <<questions, dbVars, ui, announced, started, doubled>>

(* on_success of a shift emits tasks_changed. *)
AnnounceShift(j) ==
    /\ j \in Shifts /\ Delivered(j, "success")
    /\ announced' = Versions(rows)
    /\ RequestRefresh([job EXCEPT ![j] = NoJob], FALSE)
    /\ levelable' = TRUE
    /\ UNCHANGED <<questions, dbVars, ui, shown, last, started, doubled>>

HandleCancelled(j) ==
    /\ Delivered(j, "cancelled")
    /\ last' = IF j \in Refreshes THEN "cancelled" ELSE last
    /\ Finish(j)
    /\ UNCHANGED <<questions, dbVars, ui, shown, announced, started, doubled>>

(* _handle_failure while the tab shows: the user is asked whether to retry. *)
AskRetry(j) ==
    /\ Delivered(j, "failure")
    /\ questions' = <<j>> \o questions
    /\ job' = [job EXCEPT ![j].at = "asking", ![j].cancelled = FALSE]
    /\ last' = IF j \in Refreshes THEN "failure" ELSE last
    /\ UNCHANGED <<dbVars, ui, inflight, pending, shown, doubled, levelable,
                   announced, started>>

(* _handle_failure while another tab shows: on_error, which clears the dashboard. *)
ReportFailure(j) ==
    /\ Delivered(j, "failure")
    /\ IF j \in Refreshes
       THEN shown' = NoVersions /\ last' = "failure"
       ELSE UNCHANGED <<shown, last>>
    /\ Finish(j)
    /\ UNCHANGED <<questions, dbVars, ui, announced, started, doubled>>

(* Questions open on top of each other; the front one is answered. *)
Answered(j) == /\ EventLoop /\ Asking /\ j = Head(questions)
               /\ questions' = Tail(questions)

AnswerClose(j) ==
    /\ Answered(j)
    /\ Finish(j)
    /\ UNCHANGED <<dbVars, ui, shown, last, announced, started, doubled>>

(* _finish, then start again on the same handle with a fresh token.  _finish has already
   started the pending refresh. *)
RetryRefresh(j) ==
    /\ j \in Refreshes /\ Answered(j)
    /\ pending => MayAct /\ FreeSlots(Refreshes, job) # {}
    /\ LET again == [job EXCEPT ![j] = Queued(job[j].dialog)]
       IN  job' = IF pending
                  THEN [again EXCEPT ![Slot(Refreshes, again)] = Queued(job[j].dialog)]
                  ELSE again
    /\ inflight' = TRUE /\ pending' = FALSE
    /\ doubled' = IF pending THEN doubled + 1 ELSE doubled
    /\ UNCHANGED <<dbVars, ui, levelable, shown, last, announced, started>>

RetryShift(j) ==
    /\ j \in Shifts /\ Answered(j)
    /\ MayAct
    /\ job' = [job EXCEPT ![j] = [Queued(TRUE) EXCEPT !.row = job[j].row]]
    /\ levelable' = FALSE
    /\ started' = started + 1
    /\ UNCHANGED <<dbVars, ui, viewVars, announced>>

-----------------------------------------------------------------------------
UserStep ==
    \/ PressRefresh
    \/ \E r \in Leaves : StartShift(r)
    \/ \E r \in Rows : OpenDialog(r)
    \/ \E j \in Jobs : RequestCancel(j) \/ AnswerClose(j)
    \/ \E j \in Jobs : RetryRefresh(j) \/ RetryShift(j)
    \/ CloseDialog
    \/ SaveDialog

SaveStep == FlushSave \/ SaveLockedOut \/ CommitSave \/ AnnounceSave \/ AuditLockedOut

WorkStep(j) == \/ BeginWork(j)
               \/ WriteRow(j)
               \/ CommitShift(j)
               \/ CommitRecalculation(j)
               \/ EndWork(j)

HandleSignal(j) == \/ ShowRefresh(j)
                   \/ AnnounceShift(j)
                   \/ HandleCancelled(j)
                   \/ AskRetry(j)
                   \/ ReportFailure(j)

Next == \/ UserStep
        \/ SaveStep
        \/ \E j \in Jobs : WorkStep(j) \/ FailWork(j) \/ HandleSignal(j)

(* The pool runs every job it was given, and the event loop handles every signal and
   finishes every save.  Nothing obliges the user to act or a job to fail. *)
Fairness == /\ WF_vars(SaveStep)
            /\ \A j \in Jobs : WF_vars(WorkStep(j)) /\ WF_vars(HandleSignal(j))

Spec == Init /\ [][Next]_vars /\ Fairness

-----------------------------------------------------------------------------
Outcomes == {None, "success", "failure", "cancelled"}
RowStates == [version : Nat, content : SUBSET (Edits \cup Shifts)]
Tables == [Rows -> RowStates]

ASSUME NoneAssumption == None \notin Tables /\ None \notin {"success", "failure", "cancelled"}

JobRows == [at : {"free", "queued", "loaded", "recalculating", "written", "returned", "asking"},
            dialog : BOOLEAN, cancelled : BOOLEAN, row : Rows \cup {None},
            loaded : Tables \cup {None}, todo : SUBSET Rows, outcome : Outcomes]

TypeOK ==
    /\ rows \in Tables /\ dirty \in Tables
    /\ writer \in Jobs \cup {None, UI}
    /\ ui \in [at : {"idle", "dialog", "saving", "flushed", "committed"},
               edit : Edits \cup {None}, row : Rows \cup {None},
               opened : RowStates \cup {None}]
    /\ job \in [Jobs -> JobRows]
    /\ questions \in Seq(Jobs)
    /\ {inflight, pending, levelable} \subseteq BOOLEAN
    /\ shown \in [Rows -> Nat] /\ announced \in [Rows -> Nat]
    /\ last \in Outcomes \ {None}
    /\ started \in 0..MaxActs /\ doubled \in 0..MaxActs

AtLeast(v, w) == \A r \in Rows : v[r] >= w[r]
UpToDate == AtLeast(shown, announced)
UnderWay == {j \in Refreshes : job[j].at # "free"}

(* A refresh that has not read yet, or has read what was announced last. *)
WillShow(j) == \/ job[j].at = "queued"
               \/ job[j].loaded # None /\ AtLeast(Versions(job[j].loaded), announced)

(* RefreshOwed: every variable keeps its type.  As long as no retry ran beside another
   refresh, at most one refresh is
   under way and the inflight flag says so; and when the dashboard is behind a change that
   was announced, the last refresh was cancelled or failed, or a refresh is pending, has
   yet to read, or carries that change.  A request that comes between the read of a
   refresh and its end is not lost. *)
RefreshOwed ==
    TypeOK /\ (doubled = 0 =>
        /\ Cardinality(UnderWay) = IF inflight THEN 1 ELSE 0
        /\ pending => inflight
        /\ \/ UpToDate
           \/ last # "success"
           \/ pending
           \/ \E j \in UnderWay : \/ WillShow(j)
                                  \/ job[j].outcome \in {"failure", "cancelled"}
                                  \/ job[j].cancelled)

(* DashboardCatchesUp: the dashboard comes to show every announced change for good,
   unless its last refresh was cancelled or failed, a failed job still waits for an
   answer, or a retry ran beside a refresh. *)
DashboardCatchesUp ==
    <>[](UpToDate \/ last # "success" \/ Asking \/ doubled > 0)

Abstract == INSTANCE AtomicEdits WITH
                Edits <- Edits \cup Shifts,
                content <- [r \in Rows |-> rows[r].content]

(* ImplementsAtomicEdits: whatever the dialog, two shifts and their recalculations do at
   the same time, and whichever of their steps fails, no committed edit is overwritten by
   a session that had not read it, and a recalculation writes all tasks or none. *)
ImplementsAtomicEdits == Abstract!Spec
=============================================================================
