------------------------------ MODULE Preventive ------------------------------
(* The engine of preventive maintenance (MaintenancePreventiveGenerationService) and
   the completion of its work by MaintenanceWorkOrderService, for one plan.

   A calendar plan keeps a horizon of planned occurrences.  An occurrence that is
   generated is no longer planned: it is the due date of a piece of work, an order or
   a request.  Other plans have no occurrences and decide by their next due date and
   by a sensor.  A task of the plan inherits its trigger or has one of its own.

   A run of the engine on a plan is several transactions: the schedule is brought up
   to date, the work is created, the plan is told, and each task of the work is told.
   The run is on one thread, but it may end between two of them (a template that is
   refused, a stale version, the end of the process).  Time is in days; an operation
   reads the clock once.                                                          *)
EXTENDS Integers, Sequences, FiniteSets, FiniteSetsExt

CONSTANTS Unset,             \* the null of a column
          Policies, Modes,   \* schedule policies and trigger modes the plan may have
          Horizons, Leads,   \* horizon counts and lead windows it may have
          Frequency,         \* days between two occurrences
          Trigger,           \* task number |-> "INHERIT_PLAN" or the mode of its override
          Directions, Threshold, Values,   \* of the sensor
          DueDates,          \* next due dates an edit of the plan may set
          MaxTime, MaxWork, MaxReadings    \* bounds

ASSUME PreventiveAssumption ==
    /\ Policies \subseteq {"FIXED", "FLOATING"}
    /\ Modes \subseteq {"CALENDAR", "SENSOR", "HYBRID"}
    /\ Horizons \subseteq Nat \ {0} /\ Leads \subseteq Nat
    /\ Frequency \in Nat \ {0} /\ Threshold \in Nat \ {0}
    /\ Directions \subseteq {"GREATER_OR_EQUAL", "LESS_OR_EQUAL", "EQUAL"}
    /\ Values \subseteq Nat /\ DueDates \subseteq Nat
    /\ MaxTime \in Nat /\ MaxWork \in Nat /\ MaxReadings \in Nat
    /\ Trigger \in Seq({"INHERIT_PLAN", "CALENDAR", "SENSOR", "HYBRID"})

PlanTasks == DOMAIN Trigger

VARIABLES now,
          plan,        \* the row of the plan
          planned,     \* due dates of its PLANNED occurrences
          planTask,    \* the generation state of its tasks
          work,        \* the orders and requests generated so far
          sensor,      \* the last reading
          running      \* the run of the engine that is under way, or Unset

engineVars == <<now, plan, planned, planTask, work, sensor, running>>

Times == 0..MaxTime
Dues == Nat

States == [nextDue : Dues \cup {Unset}, lastGenerated : Times \cup {Unset},
           counter : Nat \cup {Unset}]                      \* next_due_counter

PlanRows == [policy : Policies, mode : Modes, horizon : Horizons, lead : Leads,
             direction : Directions, active : BOOLEAN,
             lastCompleted : Times \cup {Unset}, state : States]

WorkRows == [due : Dues \cup {Unset},       \* the occurrence it is for
             tasks : SUBSET PlanTasks,      \* the tasks of the plan in it
             recorded : BOOLEAN,            \* the plan has been told
             told : SUBSET PlanTasks,       \* its tasks that have been told
             done : BOOLEAN,
             reading : 0..MaxReadings]      \* the last reading when it was made

Readings == [value : Values, at : Times, valid : BOOLEAN, number : 0..MaxReadings]

Runs == [due : Dues \cup {Unset}, tasks : SUBSET PlanTasks]

ASSUME UnsetAssumption == Unset \notin Nat \cup Readings \cup Runs

(* RowsTyped: rows have the shape of their classes; a run refers to its last work. *)
RowsTyped ==
    /\ now \in Times
    /\ plan \in PlanRows
    /\ planned \subseteq Dues
    /\ planTask \in [PlanTasks -> States]
    /\ work \in Seq(WorkRows) /\ Len(work) <= MaxWork
    /\ sensor \in Readings \cup {Unset}
    /\ running \in Runs \cup {Unset} /\ (running # Unset => Len(work) > 0)

(* create_preventive_plan derives a first due date when none is given; a sensor plan
   has none. *)
EngineInit ==
    /\ now = 0
    /\ \E policy \in Policies, mode \in Modes, horizon \in Horizons, lead \in Leads,
          direction \in Directions :
          plan = [policy |-> policy, mode |-> mode, horizon |-> horizon, lead |-> lead,
                  direction |-> direction, active |-> TRUE, lastCompleted |-> Unset,
                  state |-> [nextDue |-> IF mode = "SENSOR" THEN Unset ELSE Frequency,
                             lastGenerated |-> Unset, counter |-> Unset]]
    /\ planned = {}
    /\ planTask = [t \in PlanTasks |->
                      [nextDue |-> Unset, lastGenerated |-> Unset, counter |-> Unset]]
    /\ work = <<>>
    /\ sensor = Unset
    /\ running = Unset

-----------------------------------------------------------------------------
(* Triggers *)

CalendarDue(s) ==
    LET due == IF s.nextDue # Unset THEN s.nextDue
               ELSE IF s.lastGenerated # Unset THEN s.lastGenerated + Frequency ELSE now
    IN  now >= due

SensorUsable == sensor # Unset /\ sensor.valid

(* Mutant: one reading below the threshold triggers again and again. *)
SensorDueAgain(s) ==
    IF plan.direction = "GREATER_OR_EQUAL"
    THEN sensor.value >= IF s.counter # Unset THEN s.counter ELSE Threshold
    ELSE IF plan.direction = "LESS_OR_EQUAL" THEN sensor.value <= Threshold
         ELSE sensor.value = Threshold

(* _evaluate_sensor_trigger for a usable sensor: a rising counter is compared with
   the next due counter, another value must have been read since the last generation. *)
SensorDue(s) ==
    IF plan.direction = "GREATER_OR_EQUAL"
    THEN sensor.value >= IF s.counter # Unset THEN s.counter ELSE Threshold
    ELSE /\ s.lastGenerated # Unset => sensor.at > s.lastGenerated
         /\ IF plan.direction = "LESS_OR_EQUAL" THEN sensor.value <= Threshold
            ELSE sensor.value = Threshold

(* _evaluate_trigger_state: a hybrid trigger is blocked while its sensor is unusable. *)
TriggerDue(mode, s) ==
    CASE mode = "CALENDAR" -> CalendarDue(s)
      [] mode = "SENSOR"   -> SensorUsable /\ SensorDue(s)
      [] mode = "HYBRID"   -> SensorUsable /\ (SensorDue(s) \/ CalendarDue(s))

UsesOccurrences == plan.mode = "CALENDAR"

WindowOpen(due) == now >= due - plan.lead

(* _evaluate_calendar_instance_window, or the trigger of the plan *)
PlanDue(dues, s) == IF UsesOccurrences THEN WindowOpen(Min(dues)) ELSE TriggerDue(plan.mode, s)

(* The tasks a candidate selects. *)
Selected(dues, s) ==
    {t \in PlanTasks : IF Trigger[t] = "INHERIT_PLAN" THEN PlanDue(dues, s)
                       ELSE TriggerDue(Trigger[t], planTask[t])}

(* _build_candidate: a plan that is due, but none of its tasks, is not due. *)
CandidateDue(dues, s) ==
    \/ Selected(dues, s) # {}
    \/ PlanDue(dues, s) /\ PlanTasks = {}

-----------------------------------------------------------------------------
(* The schedule of a calendar plan *)

(* Mutant: the schedule starts in the future. *)
FirstFutureDue(due) == IF due # Unset THEN (IF due > now THEN due ELSE due + Frequency)
                       ELSE now + Frequency

FirstDue(due) == IF due # Unset THEN due ELSE now + Frequency

(* _sync_calendar_plan_instances: the dates wanted are made, the others deleted. *)
Horizon(due) ==
    IF UsesOccurrences
    THEN {FirstDue(due) + i * Frequency : i \in 0..plan.horizon - 1}
    ELSE planned

Synced(due) == IF UsesOccurrences THEN FirstDue(due) ELSE due

(* Every read of the schedule brings it up to date. *)
RefreshSchedule ==
    /\ running = Unset
    /\ planned' = Horizon(plan.state.nextDue)
    /\ plan' = [plan EXCEPT !.state.nextDue = Synced(@)]
    /\ UNCHANGED <<now, planTask, work, sensor, running>>

-----------------------------------------------------------------------------
(* generate_due_work *)

(* The schedule is synced and a due plan gets an order or a request. *)
GenerateDueWork ==
    /\ running = Unset
    /\ plan.active
    /\ Len(work) < MaxWork
    /\ LET dues == Horizon(plan.state.nextDue)
           s    == [plan.state EXCEPT !.nextDue = Synced(@)]
           due  == IF UsesOccurrences /\ WindowOpen(Min(dues)) THEN Min(dues) ELSE Unset
       IN  /\ CandidateDue(dues, s)
           /\ planned' = dues
           /\ plan' = [plan EXCEPT !.state = s]
           /\ work' = Append(work, [due |-> due, tasks |-> Selected(dues, s),
                                    recorded |-> FALSE, told |-> {}, done |-> FALSE,
                                    reading |-> IF sensor = Unset THEN 0 ELSE sensor.number])
           /\ running' = [due |-> due, tasks |-> Selected(dues, s)]
    /\ UNCHANGED <<now, planTask, sensor>>

(* _next_sensor_due_counter: the first multiple past the value. *)
NextCounter(s) ==
    IF sensor = Unset THEN Unset
    ELSE IF plan.direction # "GREATER_OR_EQUAL" THEN s.counter
    ELSE LET base == IF s.counter # Unset THEN s.counter ELSE Threshold
         IN  IF sensor.value < base THEN base
             ELSE base + ((sensor.value - base) \div Threshold + 1) * Threshold

(* The calendar of a mode that has one. *)
NextDueAfter(mode) == IF mode = "SENSOR" THEN Unset ELSE now + Frequency
NextCounterOf(mode, s) == IF mode = "CALENDAR" THEN Unset ELSE NextCounter(s)

(* Mutant: the generated occurrence stays in the schedule. *)
StillPlanned(due) == planned

Remaining(due) == planned \ {due}

(* Mutant: the schedule continues from the day of the generation. *)
DueFromToday(due) == now + Frequency

(* plan.next_due_at after an occurrence was generated, before the schedule is synced *)
NextDueAfterOccurrence(due) == IF Remaining(due) = {} THEN Unset ELSE Min(Remaining(due))

(* _apply_plan_generation_state, with the sync that follows its commit *)
ApplyPlanState ==
    /\ running # Unset
    /\ ~work[Len(work)].recorded
    /\ work' = [work EXCEPT ![Len(work)].recorded = TRUE]
    /\ LET due  == running.due
           next == IF due # Unset THEN NextDueAfterOccurrence(due) ELSE NextDueAfter(plan.mode)
       IN  /\ plan' = [plan EXCEPT !.state =
                          [nextDue |-> IF due # Unset THEN Synced(next) ELSE next,
                           lastGenerated |-> now,
                           counter |-> NextCounterOf(plan.mode, @)]]
           /\ planned' = IF due # Unset THEN Horizon(next) ELSE planned
    /\ running' = IF running.tasks = {} THEN Unset ELSE running
    /\ UNCHANGED <<now, planTask, sensor>>

(* _apply_plan_task_generation_state, in the order of the tasks *)
ApplyPlanTaskState ==
    /\ running # Unset
    /\ work[Len(work)].recorded
    /\ LET t == Min(running.tasks)
           mode == Trigger[t]
       IN  /\ planTask' = [planTask EXCEPT ![t] =
                 [nextDue |-> IF mode = "INHERIT_PLAN" THEN Unset ELSE NextDueAfter(mode),
                  lastGenerated |-> now,
                  counter |-> IF mode = "INHERIT_PLAN" THEN Unset ELSE NextCounterOf(mode, @)]]
           /\ work' = [work EXCEPT ![Len(work)].told = @ \cup {t}]
           /\ running' = IF running.tasks = {t} THEN Unset
                         ELSE [running EXCEPT !.tasks = @ \ {t}]
    /\ UNCHANGED <<now, plan, planned, sensor>>

(* The run ends with an exception, or with the process. *)
RunEnds == /\ running # Unset
           /\ running' = Unset
           /\ UNCHANGED <<now, plan, planned, planTask, work, sensor>>

-----------------------------------------------------------------------------
(* The world around the engine *)

Floating == plan.policy = "FLOATING" /\ plan.mode = "CALENDAR"

(* The plan after a completion: a floating calendar starts again from it. *)
PlanCompleted == IF Floating
                 THEN [plan EXCEPT !.lastCompleted = now, !.state.nextDue = now + Frequency]
                 ELSE [plan EXCEPT !.lastCompleted = now]

(* _apply_preventive_completion finds the occurrence by the order; there is none for
   work of plans without occurrences, or of a run that ended before it told the plan.
   A request is completed through the order made from it. *)
CompleteWork(w) ==
    /\ running = Unset
    /\ ~work[w].done
    /\ work' = [work EXCEPT ![w].done = TRUE]
    /\ IF work[w].recorded /\ work[w].due # Unset
       THEN /\ plan' = PlanCompleted
            /\ planned' = IF Floating THEN {} ELSE planned
       ELSE UNCHANGED <<plan, planned>>
    /\ UNCHANGED <<now, planTask, sensor, running>>

(* update_preventive_plan: the fields that matter here. *)
UpdatePlan(due, active) ==
    /\ running = Unset
    /\ plan' = [plan EXCEPT !.state.nextDue = due, !.active = active]
    /\ UNCHANGED <<now, planned, planTask, work, sensor, running>>

(* record_reading *)
RecordReading(value, valid) ==
    /\ running = Unset
    /\ plan.mode # "CALENDAR" \/ \E t \in PlanTasks : Trigger[t] \in {"SENSOR", "HYBRID"}
    /\ LET number == IF sensor = Unset THEN 1 ELSE sensor.number + 1
       IN  /\ number <= MaxReadings
           /\ sensor' = [value |-> value, at |-> now, valid |-> valid, number |-> number]
    /\ UNCHANGED <<now, plan, planned, planTask, work, running>>

Tick == /\ running = Unset
        /\ now < MaxTime
        /\ now' = now + 1
        /\ UNCHANGED <<plan, planned, planTask, work, sensor, running>>

EngineNext ==
    \/ RefreshSchedule
    \/ GenerateDueWork
    \/ ApplyPlanState
    \/ ApplyPlanTaskState
    \/ RunEnds
    \/ \E w \in DOMAIN work : CompleteWork(w)
    \/ \E due \in DueDates \cup {plan.state.nextDue}, active \in BOOLEAN :
          UpdatePlan(due, active)
    \/ \E value \in Values, valid \in BOOLEAN : RecordReading(value, valid)
    \/ Tick

EngineSpec == EngineInit /\ [][EngineNext]_engineVars

-----------------------------------------------------------------------------
(* Properties *)

(* OncePerOccurrence: no two pieces of work that the plan was told of are for the same
   due date (and every row has its type), over refreshes, late and early runs, runs that end halfway and
   completions: "every preventive engine run must be idempotent and must not create
   duplicate future instances" (docs/maintenance_management/README.md:2487). *)
OncePerOccurrence ==
    RowsTyped /\ \A v, w \in DOMAIN work :
        v # w /\ work[v].recorded /\ work[w].recorded /\ work[v].due # Unset =>
            work[v].due # work[w].due

(* CadenceKept: "every fixed preventive plan should keep future due dates anchored to
   the planned cadence" and "every floating preventive plan should recalculate future
   due dates from the actual completion basis" (docs/maintenance_management/README.md:2485),
   when runs of the engine and completions of earlier work alternate. *)
CadenceKept ==
    /\ plan.policy = "FIXED" /\ UsesOccurrences =>
          /\ \A due \in planned : due % Frequency = 0
          /\ \A w \in DOMAIN work : work[w].due # Unset => work[w].due % Frequency = 0
    /\ Floating /\ plan.lastCompleted # Unset =>
          \A due \in planned : due >= plan.lastCompleted + Frequency

ModeOf(t) == IF Trigger[t] = "INHERIT_PLAN" THEN plan.mode ELSE Trigger[t]

Told(w, t) == t \in work[w].tasks /\ IF Trigger[t] = "INHERIT_PLAN" THEN work[w].recorded
                                                                  ELSE t \in work[w].told

(* OncePerReading: a task triggered by a sensor is generated at most once from one
   reading by runs that reach its row, whatever the direction of its trigger, however
   often the engine runs and whatever else it generates (next_due_counter and
   last_generated_at). *)
OncePerReading ==
    \A t \in PlanTasks : ModeOf(t) = "SENSOR" =>
        \A v, w \in DOMAIN work :
            v # w /\ Told(v, t) /\ Told(w, t) => work[v].reading # work[w].reading

(* NoOccurrenceSkipped: the next planned occurrence of a fixed plan leaves the schedule
   only when work is generated for it (README.md:2486). *)
NoOccurrenceSkipped ==
    [][plan.policy = "FIXED" /\ planned # {} =>
          \/ Min(planned) \in planned'
          \/ \E w \in DOMAIN work : work[w].due = Min(planned)]_engineVars
=============================================================================
