---------------------------- MODULE TaskSchedule ----------------------------
(* The tasks of one project, the dependencies between them (TaskService) and the
   critical path method over them (SchedulingEngine).

   The schedule is a function of the rows and the dependencies: the forward pass is
   written as a recursion over predecessors and the backward pass as one over
   successors; the code visits the tasks in a topological order, and the order among
   independent tasks makes no difference.  Adding or removing a dependency commits it
   and then recalculates the project; an edit of a task does not recalculate.      *)
EXTENDS WorkCalendar

CONSTANTS Tasks, Types, Lags, Durations, StartDates, ActualDates,
          ProjectStart, ProjectEnd,   \* the dates of the project, each may be None
          MaxEdits                    \* bound on the edits of rows and the calendar

ASSUME ScheduleAssumption ==
    /\ IsFiniteSet(Tasks) /\ None \notin Tasks
    /\ Types \subseteq {"FS", "SS", "FF", "SF"} /\ Lags \subseteq Int
    /\ Durations \subseteq Nat \cup {None}
    /\ StartDates \subseteq Int \cup {None} /\ ActualDates \subseteq Int
    /\ {ProjectStart, ProjectEnd} \subseteq Int \cup {None} /\ MaxEdits \in Nat

VARIABLES task,    \* the rows of the tasks, None for one that does not exist
          deps,    \* the dependencies
          edits

vars == <<calendar, task, deps, edits>>

Dates == Int \cup {None}
Rows == [start : Dates, end : Dates, duration : Durations, actualStart : Dates, actualEnd : Dates]
Dependencies == [pred : Tasks, succ : Tasks, type : Types, lag : Lags]
EarlyDates == [es : Int, ef : Int]

(* None is not a day, a row or a pair of dates. *)
ASSUME ScheduleRowsAssumption == None \notin Int /\ None \notin Rows /\ None \notin EarlyDates

(* TypeOK: rows have the shape of Task, dependencies that of TaskDependency. *)
TypeOK == /\ calendar \in Calendars
          /\ task \in [Tasks -> Rows \cup {None}]
          /\ deps \subseteq Dependencies
          /\ edits \in 0..MaxEdits

Existing(rows) == {t \in Tasks : rows[t] # None}
Days(row) == IF row.duration = None THEN 0 ELSE row.duration

(* None is not a date: what is compared with it is false, as "if a and b and ..." is. *)
Before(a, b) == a # None /\ b # None /\ a < b

-----------------------------------------------------------------------------
(* Dependencies and cycles.                                                      *)

Links == {<<d.pred, d.succ>> : d \in deps}

(* What _find_path visits: the least set with the source that is closed under links. *)
Closed(S, links) == \A l \in links : l[1] \in S => l[2] \in S
Reachable(s, links) == {t \in Tasks : \A S \in SUBSET Tasks : s \in S /\ Closed(S, links) => t \in S}

(* get_dependency_diagnostics: what is refused before anything is stored. *)
DependencyValid(p, s) == /\ p # s
                         /\ <<p, s>> \notin Links
                         /\ p \notin Reachable(s, Links)

-----------------------------------------------------------------------------
(* The forward pass.  An early date is a pair of start and finish, or None.        *)

(* The start a dependency asks for.  SS, FF and SF count the day of the predecessor
   as the first day of a lag; FS starts on the working day after it. *)
FinishingBy(fin, duration) == IF duration > 0 THEN AddWorkingDays(fin, -(duration - 1)) ELSE fin

(* Mutant: a finish-to-start successor starts on the day its predecessor ends. *)
SameDayCandidate(d, early, duration) ==
    CASE d.type = "FS" -> AddWorkingDays(early.ef, d.lag + 1)
      [] d.type = "SS" -> AddWorkingDays(early.es, d.lag)
      [] d.type = "FF" -> FinishingBy(AddWorkingDays(early.ef, d.lag), duration)
      [] d.type = "SF" -> FinishingBy(AddWorkingDays(early.es, d.lag), duration)

Candidate(d, early, duration) ==
    CASE d.type = "FS" -> AddWorkingDays(early.ef, d.lag + 2)
      [] d.type = "SS" -> AddWorkingDays(early.es, d.lag)
      [] d.type = "FF" -> FinishingBy(AddWorkingDays(early.ef, d.lag), duration)
      [] d.type = "SF" -> FinishingBy(AddWorkingDays(early.es, d.lag), duration)

From(es, duration) ==
    [es |-> es, ef |-> IF duration = 0 THEN es ELSE AddWorkingDays(es, duration)]

(* Mutant: a stored start is moved like the finish of a predecessor. *)
PlannedAfter(row, candidates) ==
    IF candidates # {} THEN From(Max(candidates), Days(row))
    ELSE IF row.start # None THEN From(AddWorkingDays(row.start, 2), Days(row)) ELSE None

(* The start is the latest candidate; without one it is the stored start. *)
Planned(row, candidates) ==
    IF candidates # {} THEN From(Max(candidates), Days(row))
    ELSE IF row.start # None THEN From(row.start, Days(row)) ELSE None

(* _apply_actual_constraints *)
ApplyActuals(row, early) ==
    IF row.actualEnd # None
    THEN [es |-> IF row.actualStart # None THEN row.actualStart
                 ELSE FinishingBy(row.actualEnd, Days(row)),
          ef |-> row.actualEnd]
    ELSE IF row.actualStart # None /\ (early = None \/ Before(early.es, row.actualStart))
         THEN From(row.actualStart, Days(row))
         ELSE early

(* run_forward_pass *)
Early(rows, links) ==
    LET early[t \in Existing(rows)] ==
          LET candidates == {Candidate(d, early[d.pred], Days(rows[t])) :
                               d \in {e \in links : e.succ = t /\ early[e.pred] # None}}
          IN  ApplyActuals(rows[t], Planned(rows[t], candidates))
    IN  [t \in Existing(rows) |-> early[t]]

(* A project with tasks but without a date raises a ValidationError. *)
Computable(early) == \E t \in DOMAIN early : early[t] # None
ProjectFinish(early) == Max({early[t].ef : t \in {u \in DOMAIN early : early[u] # None}})

-----------------------------------------------------------------------------
(* The backward pass, the result and the recalculation.                          *)

(* Mutant: the lag is forgotten on the way back. *)
LateFinishNoLag(d, late) == IF d.type = "FS" THEN AddWorkingDays(late.ls, -1) ELSE late.lf

(* run_backward_pass: bounds on the finish win over bounds on the start. *)
LateFinish(d, late) == IF d.type = "FS" THEN AddWorkingDays(late.ls, -(d.lag + 1))
                                        ELSE AddWorkingDays(late.lf, -d.lag)
LateStart(d, late) == IF d.type = "SS" THEN AddWorkingDays(late.ls, -d.lag)
                                       ELSE AddWorkingDays(late.lf, -d.lag)

Late(rows, links, finish) ==
    LET late[t \in Existing(rows)] ==
          LET days == Days(rows[t])
              out == {d \in links : d.pred = t}
              finishes == {LateFinish(d, late[d.succ]) : d \in {e \in out : e.type \in {"FS", "FF"}}}
              starts == {LateStart(d, late[d.succ]) : d \in {e \in out : e.type \in {"SS", "SF"}}}
              by(fin) == [ls |-> FinishingBy(fin, days), lf |-> fin]
          IN  IF out = {} THEN by(finish)
              ELSE IF finishes # {} THEN by(Min(finishes))
              ELSE LET ls == Min(starts)
                   IN  [ls |-> ls, lf |-> IF days > 0 THEN AddWorkingDays(ls, days - 1) ELSE ls]
    IN  [t \in Existing(rows) |-> late[t]]

(* build_schedule_result *)
TotalFloat(early, late) ==
    IF early = None THEN None
    ELSE IF late.ls < early.es THEN 0
    ELSE Max({0, WorkingDaysBetween(early.es, late.ls) - 1})

WithDates(row, early) ==
    [row EXCEPT !.start = IF row.actualStart # None THEN @ ELSE IF early = None THEN None ELSE early.es,
                !.end = IF row.actualEnd # None THEN @ ELSE IF early = None THEN None ELSE early.ef]

Scheduled(rows, early) ==
    [t \in Tasks |-> IF rows[t] = None THEN None ELSE WithDates(rows[t], early[t])]

(* build_project_dependency_graph: a topological order exists. *)
Acyclic(links) ==
    \A d \in links : d.pred \notin Reachable(d.succ, {<<e.pred, e.succ>> : e \in links})

Recalculable(rows, links) == Acyclic(links) /\ Computable(Early(rows, links))

(* recalculate_project_schedule: every row is written, or an error is raised. *)
Recalculated(rows, links) ==
    IF Recalculable(rows, links) THEN Scheduled(rows, Early(rows, links)) ELSE rows

-----------------------------------------------------------------------------
(* The operations.                                                               *)

Edit == edits < MaxEdits /\ edits' = edits + 1

(* _validate_task_within_project_dates *)
WithinProject(start, end) ==
    \A d \in {start, end} : ~Before(d, ProjectStart) /\ ~Before(ProjectEnd, d)

EndOf(start, duration) == IF start # None /\ duration # None THEN AddWorkingDays(start, duration) ELSE None

CreateTask(t, start, duration) ==
    /\ task[t] = None /\ Edit
    /\ WithinProject(start, EndOf(start, duration))
    /\ task' = [task EXCEPT ![t] = [start |-> start, end |-> EndOf(start, duration),
                                    duration |-> duration, actualStart |-> None, actualEnd |-> None]]
    /\ UNCHANGED <<calendar, deps>>

(* None leaves a field as it is; the end follows when start and duration are known. *)
Given(new, old) == IF new # None THEN new ELSE old

UpdateTask(t, start, duration) ==
    LET row == task[t]
        newStart == Given(start, row.start)
        newDuration == Given(duration, row.duration)
        newEnd == Given(EndOf(newStart, newDuration), row.end)
    IN  /\ row # None /\ Edit
        /\ WithinProject(newStart, newEnd)
        /\ task' = [task EXCEPT ![t] = [row EXCEPT !.start = newStart, !.end = newEnd,
                                                   !.duration = newDuration]]
        /\ UNCHANGED <<calendar, deps>>

UpdateProgress(t, actualStart, actualEnd) ==
    LET row == task[t]
        newStart == Given(actualStart, row.actualStart)
        newEnd == Given(actualEnd, row.actualEnd)
    IN  /\ row # None /\ Edit
        /\ ~Before(actualEnd, newStart)
        /\ WithinProject(newStart, newEnd)
        /\ task' = [task EXCEPT ![t] = [row EXCEPT !.actualStart = newStart, !.actualEnd = newEnd]]
        /\ UNCHANGED <<calendar, deps>>

DeleteTask(t) ==
    /\ task[t] # None /\ Edit
    /\ task' = [task EXCEPT ![t] = None]
    /\ deps' = {d \in deps : d.pred # t /\ d.succ # t}
    /\ UNCHANGED calendar

(* The dependency is committed first: when the recalculation then fails the caller gets
   the error and the dependency stays. *)
AddDependency(p, s, type, lag) ==
    /\ task[p] # None /\ task[s] # None
    /\ DependencyValid(p, s)
    /\ deps' = deps \cup {[pred |-> p, succ |-> s, type |-> type, lag |-> lag]}
    /\ task' = Recalculated(task, deps')
    /\ UNCHANGED <<calendar, edits>>

RemoveDependency(d) ==
    /\ deps' = deps \ {d}
    /\ task' = Recalculated(task, deps')
    /\ Edit /\ UNCHANGED calendar

(* The calendar tab, a new baseline and the preview of conflicts recalculate. *)
RecalculateSchedule ==
    /\ task' = Recalculated(task, deps)
    /\ UNCHANGED <<calendar, deps, edits>>

ChangeCalendar == CalendarNext /\ Edit /\ UNCHANGED <<task, deps>>

Init == /\ CalendarInit
        /\ task = [t \in Tasks |-> None]
        /\ deps = {} /\ edits = 0

TaskStep(t) ==
    \/ \E start \in StartDates, duration \in Durations : CreateTask(t, start, duration)
    \/ \E start \in StartDates, duration \in Durations : UpdateTask(t, start, duration)
    \/ \E a, b \in ActualDates \cup {None} : UpdateProgress(t, a, b)
    \/ DeleteTask(t)

Next == \/ \E t \in Tasks : TaskStep(t)
        \/ \E p, s \in Tasks, type \in Types, lag \in Lags : AddDependency(p, s, type, lag)
        \/ \E d \in deps : RemoveDependency(d)
        \/ RecalculateSchedule
        \/ ChangeCalendar

Spec == Init /\ [][Next]_vars

-----------------------------------------------------------------------------
(* Properties.                                                                   *)

(* CalendarExact: the arithmetic the passes are made of agrees with counting working days,
   whatever the week and the holidays (stated of a project without tasks: the calendar
   is all it depends on). *)
CalendarExact == Existing(task) = {} => AddWorkingDaysExact /\ FinishAndStartInverse

(* NoCycle: however tasks and dependencies come and go, the dependencies have a
   topological order, so a recalculation never fails with SCHEDULE_CYCLE;
   get_dependency_diagnostics looks only at the dependency it is asked about. *)
NoCycle == Acyclic(deps)

(* DependenciesResolve: the tasks of a dependency exist, though tasks are deleted. *)
DependenciesResolve == \A d \in deps : task[d.pred] # None /\ task[d.succ] # None

(* NetworkSound: what the two passes take for granted of the rows and dependencies. *)
NetworkSound == TypeOK /\ NoCycle /\ DependenciesResolve

(* What a dependency promises, counted in working days. *)
Honoured(d, p, s) ==
    CASE d.type = "FS" -> WorkingDaysBetween(p.ef + 1, s.es) > d.lag
      [] d.type = "SS" -> s.es >= p.es /\ WorkingDaysBetween(p.es, s.es) >= d.lag
      [] d.type = "FF" -> s.ef >= p.ef /\ WorkingDaysBetween(p.ef, s.ef) >= d.lag
      [] d.type = "SF" -> s.ef >= p.es /\ WorkingDaysBetween(p.es, s.ef) >= d.lag

(* DependenciesHonoured: in the schedule of any rows every dependency with a lag of at
   least 0 is honoured, over weekends, holidays, milestones and started tasks, unless
   the successor has really finished. *)
DependenciesHonoured ==
    LET early == Early(task, deps)
    IN  \A d \in deps : (/\ d.lag >= 0 /\ early[d.pred] # None
                         /\ task[d.succ].actualEnd = None)
                        => Honoured(d, early[d.pred], early[d.succ])

(* RecalculationStable: a recalculation of what a recalculation wrote changes nothing;
   it is run by the calendar tab, by baselines and by previews of conflicts, and the
   dates it writes are the dates the next one starts from. *)
RecalculationStable ==
    LET once == Recalculated(task, deps) IN Recalculated(once, deps) = once

Plain == \A d \in deps : d.type = "FS" /\ d.lag >= 0
Unstarted == \A t \in Existing(task) : task[t].actualStart = None /\ task[t].actualEnd = None

(* FloatExact: with finish-to-start links, in a project that ends on a working day, a
   task that starts on its latest start leaves the finish of the project where it was,
   and one that starts a working day later moves it. *)
FloatExact ==
    LET early == Early(task, deps)
        finish == ProjectFinish(early)
        late == Late(task, deps, finish)
        FinishWith(t, start) == ProjectFinish(Early([task EXCEPT ![t].actualStart = start], deps))
    IN  (Plain /\ Unstarted /\ Computable(early) /\ IsWorkingDay(finish)) =>
        \A t \in Existing(task) : early[t] # None =>
            /\ FinishWith(t, late[t].ls) = finish
            /\ FinishWith(t, NextWorkingDay(late[t].ls + 1)) > finish
=============================================================================
