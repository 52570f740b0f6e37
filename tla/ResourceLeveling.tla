-------------------------- MODULE ResourceLeveling --------------------------
(* One resource on the tasks of a project: the check of its load when it is assigned
   (TaskAssignmentMixin), and the levelling of conflicts (ResourceLevelingMixin) as the
   dashboard runs it, in worker threads with sessions of their own.

   A run shows a dialog over the window.  Cancel hides it and the run goes on, with the
   dependencies it read at its start, while the window edits tasks, dependencies and
   assignments again and may start another run.  A run commits one shift at a time; the
   version of the row refuses a shift whose task was written since the run read it.    *)
EXTENDS TaskSchedule

CONSTANTS Runs,             \* jobs of the dashboard that level the project
          Plans,            \* the tasks the project may start with: start and duration
          Staffing,         \* and their allocations of the resource
          Percentages,      \* percentages an assignment may be given
          Capacity, Strict, \* of the resource; the policy on over-allocation
          Priority,         \* value of a task's priority, lower is more urgent
          MaxIterations, MaxShift

ASSUME LevelingAssumption ==
    /\ Plans \subseteq [Tasks -> [start : StartDates, duration : Durations]]
    /\ Staffing \subseteq [Tasks -> 0..100] /\ Percentages \subseteq 1..100 /\ Capacity \in Nat \ {0} /\ Strict \in BOOLEAN
    /\ Priority \in [Tasks -> Nat] /\ MaxIterations \in Nat \ {0} /\ MaxShift \in Nat \ {0}

VARIABLES assigned,   \* task |-> allocation of the resource, 0 for none
          progressed, \* the tasks with a percentage complete above 0
          leveling,   \* run |-> what it is about to do and what it has read
          checking    \* the assignment that was checked and is not committed yet

levelVars == <<calendar, task, deps, edits, assigned, progressed, leveling, checking>>

Idle == [phase |-> "idle", hidden |-> FALSE]
NotChecking == [task |-> None]

-----------------------------------------------------------------------------
(* Load and conflicts (build_resource_conflicts).                                *)

WorksOn(rows, t, d) == /\ rows[t] # None /\ assigned[t] > 0
                       /\ rows[t].start # None /\ rows[t].end # None
                       /\ d \in rows[t].start..rows[t].end

LoadOf(rows, d) == SumFunctionOnSet(assigned, {t \in Tasks : WorksOn(rows, t, d)})

DatesOf(rows) == UNION {rows[t].start..rows[t].end :
                          t \in {u \in Existing(rows) : rows[u].start # None /\ rows[u].end # None}}

Conflicts(rows) == {d \in DatesOf(rows) : IsWorkingDay(d) /\ LoadOf(rows, d) > Capacity}

(* The conflict with the highest load, then the most tasks, then the first. *)
TopConflict ==
    LET entries(d) == Cardinality({t \in Tasks : WorksOn(task, t, d)})
        loadiest == {d \in Conflicts(task) : \A e \in Conflicts(task) : LoadOf(task, d) >= LoadOf(task, e)}
    IN  Min({d \in loadiest : \A e \in loadiest : entries(d) >= entries(e)})

(* Mutant: the map of successors is read the other way round. *)
HasPredecessor(t, links) == \E d \in links : d.succ = t

HasSuccessor(t, links) == \E d \in links : d.pred = t

(* choose_auto_level_task: only a task without successors and without progress. *)
Movable(d, links) == {t \in Tasks : /\ WorksOn(task, t, d)
                                    /\ ~HasSuccessor(t, links)
                                    /\ task[t].actualStart = None /\ task[t].actualEnd = None
                                    /\ t \notin progressed}

(* The least urgent, then the one that starts last; equals are decided by their ids. *)
Chosen(d, links) ==
    LET movable == Movable(d, links)
        least == {t \in movable : \A u \in movable : Priority[t] >= Priority[u]}
    IN  {t \in least : \A u \in least : task[t].start >= task[u].start}

(* _shift_task_for_leveling *)
Shifted(row, days) ==
    LET start == AddWorkingDays(row.start, days + 1)
    IN  [row EXCEPT !.start = start,
                    !.end = IF Days(row) = 0 THEN start ELSE AddWorkingDays(start, Days(row))]

-----------------------------------------------------------------------------
(* The window.                                                                   *)

(* A visible dialog keeps the user from the window, whose thread does one thing at a time. *)
WindowFree == /\ \A r \in Runs : leveling[r] = Idle \/ leveling[r].hidden
              /\ checking = NotChecking

(* The rows of S are written: a shift of one of them that waits for its commit is refused. *)
WhenWritten(S) == [r \in Runs |->
    IF leveling[r].phase = "writing" /\ leveling[r].task \in S
    THEN [phase |-> "refused", hidden |-> leveling[r].hidden] ELSE leveling[r]]

(* A recalculation writes every row, or none when there is no schedule. *)
WhenRecalculated(links) == WhenWritten(IF Recalculable(task, links) THEN Tasks ELSE {})

(* Mutant: the load of the other tasks is left out. *)
FitsAlone(rows, t, allocation) == allocation <= Capacity

(* _check_resource_overallocation counts Monday to Friday, whatever the calendar. *)
Fits(rows, t, allocation) ==
    (Strict /\ rows[t].start # None /\ rows[t].end # None /\ \E u \in Tasks : assigned[u] > 0) =>
        \A d \in rows[t].start..rows[t].end :
            d % 7 < 5 => SumFunctionOnSet(assigned, {u \in Tasks \ {t} : WorksOn(rows, u, d)})
                           + allocation <= Capacity

(* An assignment is checked and then committed: shifts may be committed in between. *)
CheckLoad(t, allocation) ==
    /\ WindowFree /\ task[t] # None
    /\ Fits(task, t, allocation)
    /\ checking' = [task |-> t, allocation |-> allocation, rows |-> task]
    /\ UNCHANGED <<vars, assigned, progressed, leveling>>

AssignLoad ==
    /\ checking # NotChecking
    /\ assigned' = [assigned EXCEPT ![checking.task] = checking.allocation]
    /\ checking' = NotChecking
    /\ UNCHANGED <<vars, progressed, leveling>>

(* Progress without dates; the other operations of TaskSchedule are unchanged. *)
SetProgress(t) == /\ WindowFree /\ task[t] # None /\ t \notin progressed
                  /\ progressed' = progressed \cup {t} /\ leveling' = WhenWritten({t})
                  /\ UNCHANGED <<vars, assigned, checking>>

EditTask(t) ==
    /\ WindowFree /\ TaskStep(t) /\ leveling' = WhenWritten({t})
    /\ assigned' = [u \in Tasks |-> IF task'[u] = None THEN 0 ELSE assigned[u]]
    /\ progressed' = {u \in progressed : task'[u] # None}
    /\ UNCHANGED checking

EditNetwork ==
    /\ WindowFree
    /\ \/ \E p, s \in Tasks, type \in Types, lag \in Lags : AddDependency(p, s, type, lag)
       \/ \E d \in deps : RemoveDependency(d)
       \/ RecalculateSchedule
    /\ leveling' = WhenRecalculated(deps')
    /\ UNCHANGED <<assigned, progressed, checking>>

(* A run commits between the dependency and its recalculation, which is then refused. *)
LinkTasks(p, s, type, lag) ==
    /\ WindowFree /\ \E r \in Runs : leveling[r] # Idle
    /\ task[p] # None /\ task[s] # None /\ DependencyValid(p, s)
    /\ deps' = deps \cup {[pred |-> p, succ |-> s, type |-> type, lag |-> lag]}
    /\ UNCHANGED <<calendar, task, edits, assigned, progressed, leveling, checking>>

UnlinkTasks(d) ==
    /\ WindowFree /\ \E r \in Runs : leveling[r] # Idle
    /\ deps' = deps \ {d} /\ Edit
    /\ UNCHANGED <<calendar, task, assigned, progressed, leveling, checking>>

EditCalendar == /\ WindowFree /\ ChangeCalendar
                /\ UNCHANGED <<assigned, progressed, leveling, checking>>

(* Cancel: the token is not read again before the run is over. *)
Cancel(r) == /\ leveling[r] # Idle /\ ~leveling[r].hidden
             /\ leveling' = [leveling EXCEPT ![r].hidden = TRUE]
             /\ UNCHANGED <<vars, assigned, progressed, checking>>

-----------------------------------------------------------------------------
(* The runs.                                                                     *)

Reading(hidden, left, known) ==
    [phase |-> "reading", hidden |-> hidden, left |-> left, known |-> known]

(* The row is written as it was read, but for its dates. *)
AboutToShift(run, t, days) ==
    [phase |-> "writing", hidden |-> run.hidden, left |-> run.left, known |-> run.known,
     task |-> t, row |-> Shifted(task[t], days)]

(* A refresh of the dashboard enables the buttons though a hidden run goes on. *)
Start(r, run) == /\ WindowFree /\ leveling[r] = Idle /\ Edit
                 /\ leveling' = [leveling EXCEPT ![r] = run]
                 /\ UNCHANGED <<calendar, task, deps, assigned, progressed, checking>>

(* resolve_resource_conflict_manual *)
StartManualShift(r, t, days) ==
    /\ task[t] # None /\ task[t].start # None
    /\ task[t].actualStart = None /\ task[t].actualEnd = None
    /\ ~HasSuccessor(t, deps)
    /\ Start(r, AboutToShift(Reading(FALSE, 1, deps), t, days))

(* auto_level_resources: the dependencies are read once, tasks and loads in every round. *)
StartLeveling(r) ==
    /\ Existing(task) # {}
    /\ Start(r, Reading(FALSE, MaxIterations, deps))

LevelingGoesOn(run) == /\ run.left > 0 /\ Conflicts(task) # {}
                       /\ Movable(TopConflict, run.known) # {}

ChooseTask(r, t) ==
    /\ leveling[r].phase = "reading" /\ LevelingGoesOn(leveling[r])
    /\ t \in Chosen(TopConflict, leveling[r].known)
    /\ leveling' = [leveling EXCEPT ![r] = AboutToShift(@, t, 1)]
    /\ UNCHANGED <<vars, assigned, progressed, checking>>

CommitShift(r) ==
    LET run == leveling[r]
    IN  /\ run.phase = "writing"
        /\ task' = [task EXCEPT ![run.task] = run.row]
        /\ leveling' = [WhenWritten({run.task}) EXCEPT ![r] = Reading(run.hidden, run.left - 1, run.known)]
        /\ UNCHANGED <<calendar, deps, edits, assigned, progressed, checking>>

EndLoop(r) ==
    /\ leveling[r].phase = "reading" /\ ~LevelingGoesOn(leveling[r])
    /\ leveling' = [leveling EXCEPT ![r] = [phase |-> "leveled", hidden |-> leveling[r].hidden]]
    /\ UNCHANGED <<vars, assigned, progressed, checking>>

(* The dashboard recalculates before it shows the result. *)
RecalculateAfter(r) ==
    /\ leveling[r].phase = "leveled"
    /\ task' = Recalculated(task, deps)
    /\ leveling' = [WhenRecalculated(deps) EXCEPT ![r] = Idle]
    /\ UNCHANGED <<calendar, deps, edits, assigned, progressed, checking>>

(* A refused or failing commit, or the end of the process: what was committed stays. *)
RunLost(r) == /\ leveling[r] # Idle
              /\ leveling' = [leveling EXCEPT ![r] = Idle]
              /\ UNCHANGED <<vars, assigned, progressed, checking>>

RunStep(r) == \/ Cancel(r) \/ StartLeveling(r) \/ CommitShift(r)
              \/ EndLoop(r) \/ RecalculateAfter(r) \/ RunLost(r)
              \/ \E t \in Tasks : \/ ChooseTask(r, t)
                                  \/ \E days \in 1..MaxShift : StartManualShift(r, t, days)

(* The tasks and the allocations are made by create_task and assign_resource. *)
LevelInit ==
    /\ CalendarInit
    /\ \E plan \in Plans :
          task = [t \in Tasks |-> [start |-> plan[t].start, end |-> EndOf(plan[t].start, plan[t].duration),
                                  duration |-> plan[t].duration,
                                  actualStart |-> None, actualEnd |-> None]]
    /\ deps = {} /\ edits = 0
    /\ assigned \in Staffing /\ progressed = {}
    /\ leveling = [r \in Runs |-> Idle] /\ checking = NotChecking

LevelNext ==
    \/ \E t \in Tasks : \/ \E a \in Percentages : CheckLoad(t, a)
                        \/ SetProgress(t) \/ EditTask(t)
    \/ \E p, s \in Tasks, type \in Types, lag \in Lags : LinkTasks(p, s, type, lag)
    \/ \E d \in deps : UnlinkTasks(d)
    \/ AssignLoad \/ EditNetwork \/ EditCalendar
    \/ \E r \in Runs : RunStep(r)

LevelSpec == LevelInit /\ [][LevelNext]_levelVars

-----------------------------------------------------------------------------
(* Properties.                                                                   *)

(* The dependency as the stored dates have it. *)
HonouredByRows(rows, d) ==
    LET p == rows[d.pred]  s == rows[d.succ]
    IN  (p.start # None /\ p.end # None /\ s.start # None /\ s.end # None) =>
        Honoured(d, [es |-> p.start, ef |-> p.end], [es |-> s.start, ef |-> s.end])

(* LevelingKeepsDependencies: a shift, automatic or by hand, breaks no dependency its run
   has read that the stored dates honour, though it looks at no predecessor and the tasks,
   the dependencies and other runs may have changed since it read them. *)
LevelingKeepsDependencies ==
    [][\A r \in Runs : (leveling[r].phase = "writing" /\ leveling'[r].phase = "reading") =>
         \A d \in deps \cap leveling[r].known :
             HonouredByRows(task, d) => HonouredByRows(task', d)]_levelVars

(* StrictPolicyHolds: under the strict policy an assignment makes no new conflict in the
   schedule it was checked against ("Resource would be over-allocated"). *)
StrictPolicyHolds ==
    [][assigned' # assigned /\ checking # NotChecking =>
         \A rows \in {checking.rows} : Conflicts(rows)' \subseteq Conflicts(rows)]_levelVars
=============================================================================
