------------------------------ MODULE Timesheets ------------------------------
(* TimesheetService: time entries on work allocations (task assignments), the
   monthly periods of a resource that freeze them, and the operations of other
   services that remove allocations together with their entries.

   Every operation is one database transaction of one user: all checks come before
   the first write, or an exception rolls back.  A date is a number of days; a
   period is a calendar month, here DaysPerMonth days.                           *)
EXTENDS Integers, FiniteSetsExt

CONSTANTS Absent,
          Resources, BookedTasks,
          Allocations, Entries,  \* allocations and entries that may be created
          EntryDates, DaysPerMonth,
          Hours,                 \* hours an entry may carry or a user may log
          MaxHours               \* bound on the hours of one allocation

ASSUME TimeAssumption == /\ EntryDates \subseteq Nat
                         /\ DaysPerMonth \in Nat \ {0}
                         /\ Hours \subseteq Nat
                         /\ MaxHours \in Nat
                         /\ Absent \notin Resources \cup BookedTasks \cup Allocations \cup Entries

VARIABLES allocation, entry, period

timeVars == <<allocation, entry, period>>

PeriodStatuses == {"OPEN", "SUBMITTED", "APPROVED", "REJECTED", "LOCKED"}
Frozen == {"SUBMITTED", "APPROVED", "LOCKED"}

(* _timesheet_period_bounds: the first and the last day of the month of a date. *)
PeriodStart(d) == d - (d % DaysPerMonth)
PeriodEnd(d) == PeriodStart(d) + DaysPerMonth - 1
PeriodStarts == {PeriodStart(d) : d \in EntryDates}

AllocationRows == [task : BookedTasks, resource : Resources, hours : Nat]
EntryRows == [allocation : Allocations, date : EntryDates, hours : Nat \ {0}]
PeriodRows == [status : PeriodStatuses, locked : BOOLEAN]

(* Absent stands for a row that is not there. *)
ASSUME RowsAssumption == Absent \notin AllocationRows \cup EntryRows \cup PeriodRows

(* TimeTypeOK: rows have the shapes the domain classes declare; logged hours are never
   negative and no entry is empty. *)
TimeTypeOK ==
    /\ allocation \in [Allocations -> AllocationRows \cup {Absent}]
    /\ entry \in [Entries -> EntryRows \cup {Absent}]
    /\ period \in [Resources \X PeriodStarts -> PeriodRows \cup {Absent}]

TimeInit == /\ allocation = [a \in Allocations |-> Absent]
            /\ entry = [e \in Entries |-> Absent]
            /\ period = [p \in Resources \X PeriodStarts |-> Absent]

Live == {e \in Entries : entry[e] # Absent}
EntriesOf(a) == {e \in Live : entry[e].allocation = a}
SumHours(rows, S) == SumFunction([e \in S |-> rows[e].hours])

(* list_time_entries_for_resource_period *)
PeriodEntries(r, start) ==
    {e \in Live : /\ allocation[entry[e].allocation].resource = r
                  /\ start <= entry[e].date /\ entry[e].date <= PeriodEnd(start)}

(* _ensure_timesheet_period_editable *)
Editable(r, d) == LET p == period[r, PeriodStart(d)]
                  IN  p # Absent => p.status \notin Frozen

-----------------------------------------------------------------------------
(* Allocations: TaskService and ResourceService *)

AssignResource(a, t, r) ==
    /\ allocation[a] = Absent
    /\ allocation' = [allocation EXCEPT ![a] = [task |-> t, resource |-> r, hours |-> 0]]
    /\ UNCHANGED <<entry, period>>

(* set_assignment_hours: the aggregate may be edited while there is no entry. *)
SetAssignmentHours(a, h) ==
    /\ allocation[a] # Absent
    /\ EntriesOf(a) = {}
    /\ allocation' = [allocation EXCEPT ![a].hours = h]
    /\ UNCHANGED <<entry, period>>

(* Deletes allocations and their entries; periods stay, and nothing asks whether
   they are frozen. *)
RemoveAllocations(S) ==
    /\ allocation' = [a \in Allocations |-> IF a \in S THEN Absent ELSE allocation[a]]
    /\ entry' = [e \in Entries |->
                    IF e \in Live /\ entry[e].allocation \in S THEN Absent ELSE entry[e]]
    /\ UNCHANGED period

UnassignResource(a) == allocation[a] # Absent /\ RemoveAllocations({a})

AllocationsWhere(Test(_)) == {a \in Allocations : allocation[a] # Absent /\ Test(allocation[a])}

TaskDeleted(t) == RemoveAllocations(AllocationsWhere(LAMBDA row : row.task = t))

DeleteResource(r) == RemoveAllocations(AllocationsWhere(LAMBDA row : row.resource = r))

-----------------------------------------------------------------------------
(* Time entries *)

(* _sync_work_allocation_hours_from_entries after the entries became rows. *)
HoursSynced(rows, a) ==
    SumHours(rows, {e \in Entries : rows[e] # Absent /\ rows[e].allocation = a})

WriteEntries(rows, a) ==
    /\ HoursSynced(rows, a) <= MaxHours
    /\ entry' = rows
    /\ allocation' = [allocation EXCEPT ![a].hours = HoursSynced(rows, a)]
    /\ UNCHANGED period

(* _validate_time_entry_hours *)
ValidHours(h) == h > 0

NeedsSeed(a) == EntriesOf(a) = {} /\ allocation[a].hours > 0

(* Mutant: hours logged before the first entry are forgotten. *)
NotSeeded(a, s, legacy) == entry

(* _seed_legacy_hours_entry: the rows with an opening entry s for the hours logged
   without one.  The legacy date is the task's start, or today: any date. *)
Seeded(a, s, legacy) ==
    [entry EXCEPT ![s] = [allocation |-> a, date |-> legacy, hours |-> allocation[a].hours]]

InitializeTimesheet(a, s, legacy) ==
    /\ allocation[a] # Absent
    /\ NeedsSeed(a)
    /\ Editable(allocation[a].resource, legacy)
    /\ entry[s] = Absent
    /\ WriteEntries(Seeded(a, s, legacy), a)

AddWorkEntry(a, e, d, h, s, legacy) ==
    /\ allocation[a] # Absent
    /\ entry[e] = Absent
    /\ ValidHours(h)
    /\ Editable(allocation[a].resource, d)
    /\ LET row == [allocation |-> a, date |-> d, hours |-> h]
       IN  \/ /\ NeedsSeed(a)
              /\ Editable(allocation[a].resource, legacy)
              /\ entry[s] = Absent /\ s # e
              /\ WriteEntries([Seeded(a, s, legacy) EXCEPT ![e] = row], a)
           \/ /\ ~NeedsSeed(a)
              /\ WriteEntries([entry EXCEPT ![e] = row], a)

(* Mutant: only the new period is checked. *)
UpdateCheckingTargetOnly(e, d, h) ==
    /\ entry[e] # Absent
    /\ ValidHours(h)
    /\ Editable(allocation[entry[e].allocation].resource, d)
    /\ WriteEntries([entry EXCEPT ![e].date = d, ![e].hours = h], entry[e].allocation)

(* A moved entry is checked against its old and its new period. *)
UpdateTimeEntry(e, d, h) ==
    /\ entry[e] # Absent
    /\ LET a == entry[e].allocation
           r == allocation[a].resource
       IN  /\ Editable(r, entry[e].date)
           /\ d # entry[e].date => Editable(r, d)
           /\ ValidHours(h)
           /\ WriteEntries([entry EXCEPT ![e].date = d, ![e].hours = h], a)

(* Mutant: the aggregate of the allocation is not recomputed. *)
DeleteWithoutSync(e) ==
    /\ entry[e] # Absent
    /\ Editable(allocation[entry[e].allocation].resource, entry[e].date)
    /\ entry' = [entry EXCEPT ![e] = Absent]
    /\ UNCHANGED <<allocation, period>>

DeleteTimeEntry(e) ==
    /\ entry[e] # Absent
    /\ LET a == entry[e].allocation
       IN  /\ Editable(allocation[a].resource, entry[e].date)
           /\ WriteEntries([entry EXCEPT ![e] = Absent], a)

-----------------------------------------------------------------------------
(* Periods *)

StatusOf(p) == IF period[p] = Absent THEN "OPEN" ELSE period[p].status

SetPeriod(p, status, locked) ==
    /\ period' = [period EXCEPT ![p] = [status |-> status, locked |-> locked]]
    /\ UNCHANGED <<allocation, entry>>

(* submit_timesheet_period creates the period if there is none. *)
SubmitPeriod(p) == /\ PeriodEntries(p[1], p[2]) # {}
                   /\ StatusOf(p) \notin Frozen
                   /\ SetPeriod(p, "SUBMITTED", FALSE)

ApprovePeriod(p) == /\ StatusOf(p) = "SUBMITTED"
                    /\ SetPeriod(p, "APPROVED", TRUE)

RejectPeriod(p) == /\ StatusOf(p) = "SUBMITTED"
                   /\ SetPeriod(p, "REJECTED", FALSE)

(* lock_timesheet_period overrides every status but APPROVED. *)
LockPeriod(p) == /\ StatusOf(p) # "APPROVED"
                 /\ SetPeriod(p, "LOCKED", TRUE)

UnlockPeriod(p) == /\ StatusOf(p) = "LOCKED"
                   /\ SetPeriod(p, "OPEN", FALSE)

-----------------------------------------------------------------------------
TimeNext ==
    \/ \E a \in Allocations :
          \/ \E t \in BookedTasks, r \in Resources : AssignResource(a, t, r)
          \/ \E h \in Hours : SetAssignmentHours(a, h)
          \/ UnassignResource(a)
          \/ \E s \in Entries, d \in EntryDates : InitializeTimesheet(a, s, d)
          \/ \E e, s \in Entries, d, legacy \in EntryDates, h \in Hours :
                AddWorkEntry(a, e, d, h, s, legacy)
    \/ \E t \in BookedTasks : TaskDeleted(t)
    \/ \E r \in Resources : DeleteResource(r)
    \/ \E e \in Entries :
          \/ \E d \in EntryDates, h \in Hours : UpdateTimeEntry(e, d, h)
          \/ DeleteTimeEntry(e)
    \/ \E p \in Resources \X PeriodStarts :
          \/ SubmitPeriod(p)
          \/ ApprovePeriod(p)
          \/ RejectPeriod(p)
          \/ LockPeriod(p)
          \/ UnlockPeriod(p)

TimeSpec == TimeInit /\ [][TimeNext]_timeVars

-----------------------------------------------------------------------------
(* Properties *)

(* HoursMatchEntries: the hours an allocation shows are the sum of its entries as
   soon as it has one (_sync_work_allocation_hours_from_entries after every edit). *)
HoursMatchEntries ==
    \A a \in Allocations :
        allocation[a] # Absent /\ EntriesOf(a) # {} =>
            allocation[a].hours = SumHours(entry, EntriesOf(a))

(* EntriesHaveAllocations: no entry outlives its allocation, whichever service
   removed the allocation; queries dereference it without a check. *)
EntriesHaveAllocations == \A e \in Live : allocation[entry[e].allocation] # Absent

(* LockStampMatches: locked_at is set exactly in the approved and the locked status,
   over every order of submit, decide, lock and unlock. *)
LockStampMatches ==
    \A p \in DOMAIN period : period[p] # Absent =>
        (period[p].locked <=> period[p].status \in {"APPROVED", "LOCKED"})

(* TimesheetsAgree: after any sequence of edits, decisions, locks and removals rows are
   well formed and agree with each other, and the hours follow the entries. *)
TimesheetsAgree == TimeTypeOK /\ EntriesHaveAllocations /\ LockStampMatches /\ HoursMatchEntries

(* The entries of allocations that exist before and after the step. *)
Kept(a) == allocation[a] # Absent /\ allocation'[a] # Absent

(* FrozenEntriesStay: while an allocation exists, no operation adds, changes, moves
   or removes one of its entries in a submitted, approved or locked period. *)
FrozenEntriesStay ==
    [][\A a \in Allocations, e \in Entries : Kept(a) =>
          LET r == allocation[a].resource
              Touches(rows) == /\ rows[e] # Absent
                               /\ rows[e].allocation = a
                               /\ ~Editable(r, rows[e].date)
          IN  Touches(entry) \/ Touches(entry') => entry'[e] = entry[e]]_timeVars

(* LoggingNeverLosesHours: adding the first entries keeps the hours that were
   logged on the allocation before it had any (legacy seeding). *)
LoggingNeverLosesHours ==
    [][\A a \in Allocations :
          Kept(a) /\ (\E e \in Entries : /\ entry[e] = Absent
                                         /\ entry'[e] # Absent
                                         /\ entry'[e].allocation = a)
            => allocation'[a].hours >= allocation[a].hours]_timeVars
=============================================================================
