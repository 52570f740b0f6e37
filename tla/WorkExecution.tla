---------------------------- MODULE WorkExecution ----------------------------
(* Maintenance execution: work requests, the work orders made from them, the tasks of
   an order and the steps of a task.  MaintenanceWorkRequestService,
   MaintenanceWorkOrderService, MaintenanceWorkOrderTaskService,
   MaintenanceWorkOrderTaskStepService and MaintenanceLaborService.

   Every operation is one transaction, except the creation of an order from a
   request of a preventive plan: the order and the conversion are committed first,
   then each task and each step of the plan's package in a transaction of its own,
   and last the link of the plan's occurrence to the order.  The services run on one
   thread, so nothing interleaves with that, but it may end at any point: a template
   that is refused, or the end of the process.

   Statuses, and the other fields of an order, are changed alone and steps are confirmed
   alone, as the screens do.                                                       *)
EXTENDS Integers, Sequences, FiniteSets, FiniteSetsExt

CONSTANTS None, Requests, Orders, Tasks, Steps,
          PlanRequests,      \* the requests a preventive plan has generated
          Package,           \* the tasks and steps of the plan, in creation order:
                             \* [seq, number], number 0 for the task itself
          Employees,         \* whether tasks can be assigned: {None} or more
          MaxNumber,         \* bound on sequence and step numbers
          MaxMinutes         \* bound on booked minutes

ASSUME ExecutionAssumption ==
    /\ PlanRequests \subseteq Requests
    /\ MaxNumber \in Nat \ {0} /\ MaxMinutes \in Nat
    /\ Package \in Seq([seq : 1..MaxNumber, number : 0..MaxNumber])

VARIABLES request, order, task, step,
          occurrence,        \* per plan request: its order, and whether it is COMPLETED
          packing            \* the order being populated and how far, or None

vars == <<request, order, task, step, occurrence, packing>>

RequestNext ==
    [NEW       |-> {"TRIAGED", "APPROVED", "REJECTED", "CONVERTED", "DEFERRED"},
     TRIAGED   |-> {"APPROVED", "REJECTED", "CONVERTED", "DEFERRED"},
     APPROVED  |-> {"CONVERTED", "DEFERRED"},
     DEFERRED  |-> {"TRIAGED", "APPROVED", "REJECTED", "CONVERTED"},
     REJECTED  |-> {},
     CONVERTED |-> {}]

Waiting == {"WAITING_PARTS", "WAITING_APPROVAL", "WAITING_SHUTDOWN"}

Resumed == {"PLANNED", "SCHEDULED", "RELEASED", "CANCELLED"}

OrderNext ==
    [DRAFT       |-> {"PLANNED", "CANCELLED"},
     PLANNED     |-> Waiting \cup {"SCHEDULED", "RELEASED", "CANCELLED"},
     WAITING_PARTS |-> Resumed, WAITING_APPROVAL |-> Resumed, WAITING_SHUTDOWN |-> Resumed,
     SCHEDULED   |-> {"RELEASED", "CANCELLED"},
     RELEASED    |-> {"IN_PROGRESS", "CANCELLED"},
     IN_PROGRESS |-> {"PAUSED", "COMPLETED", "CANCELLED"},
     PAUSED      |-> {"IN_PROGRESS", "COMPLETED", "CANCELLED"},
     COMPLETED   |-> {"VERIFIED", "CLOSED"},
     VERIFIED    |-> {"CLOSED"},
     CLOSED      |-> {},
     CANCELLED   |-> {}]

TaskNext ==
    [NOT_STARTED |-> {"IN_PROGRESS", "COMPLETED", "BLOCKED", "SKIPPED"},
     IN_PROGRESS |-> {"COMPLETED", "BLOCKED", "SKIPPED"},
     BLOCKED     |-> {"IN_PROGRESS", "SKIPPED"},
     COMPLETED   |-> {},
     SKIPPED     |-> {}]

StepNext ==
    [NOT_STARTED |-> {"IN_PROGRESS", "DONE", "SKIPPED", "FAILED"},
     IN_PROGRESS |-> {"DONE", "SKIPPED", "FAILED"},
     FAILED      |-> {"IN_PROGRESS", "SKIPPED"},
     DONE        |-> {},
     SKIPPED     |-> {}]

Rules == {"NO_STEPS_REQUIRED", "ALL_STEPS_REQUIRED"}

OrderRows == [status : DOMAIN OrderNext, source : Requests \cup {None},
              preventive : BOOLEAN,         \* is_preventive
              started : BOOLEAN,            \* actual_start
              ended : BOOLEAN,              \* actual_end
              closed : BOOLEAN]             \* closed_at

TaskRows == [order : Orders, seq : 1..MaxNumber, status : DOMAIN TaskNext, rule : Rules,
             mandatory : BOOLEAN, assigned : Employees, minutes : 0..MaxMinutes,
             ended : BOOLEAN]               \* completed_at

StepRows == [task : Tasks, number : 1..MaxNumber, status : DOMAIN StepNext,
             measure : BOOLEAN, measured : BOOLEAN,      \* requires_, measurement_value
             confirm : BOOLEAN, confirmed : BOOLEAN]     \* requires_, confirmed_at

Occurrences == [order : Orders \cup {None}, completed : BOOLEAN]

ASSUME RowsAssumption ==
    /\ None \in Employees
    /\ None \notin OrderRows \cup TaskRows \cup StepRows
    /\ None \notin Requests \cup Orders \cup DOMAIN RequestNext

(* TypeOK: rows have the shape of their classes, sequence numbers are unique in an
   order and step numbers in a task, also while a package is being created. *)
TypeOK ==
    /\ request \in [Requests -> DOMAIN RequestNext \cup {None}]
    /\ order \in [Orders -> OrderRows \cup {None}]
    /\ task \in [Tasks -> TaskRows \cup {None}]
    /\ step \in [Steps -> StepRows \cup {None}]
    /\ occurrence \in [PlanRequests -> Occurrences]
    /\ packing \in [order : Orders, at : 1..Len(Package) + 1] \cup {None}
    /\ \A s, t \in Tasks : s # t /\ task[s] # None /\ task[t] # None =>
          <<task[s].order, task[s].seq>> # <<task[t].order, task[t].seq>>
    /\ \A s, t \in Steps : s # t /\ step[s] # None /\ step[t] # None =>
          <<step[s].task, step[s].number>> # <<step[t].task, step[t].number>>

(* The generation service has created the requests of the plan, with their
   occurrences; see Preventive. *)
Init == /\ request = [r \in Requests |-> IF r \in PlanRequests THEN "NEW" ELSE None]
        /\ order = [o \in Orders |-> None]
        /\ task = [t \in Tasks |-> None]
        /\ step = [s \in Steps |-> None]
        /\ occurrence = [r \in PlanRequests |-> [order |-> None, completed |-> FALSE]]
        /\ packing = None

TasksOf(o) == {t \in Tasks : task[t] # None /\ task[t].order = o}
StepsOf(t) == {s \in Steps : step[s] # None /\ step[s].task = t}

Idle == packing = None

-----------------------------------------------------------------------------
(* Requests *)

CreateWorkRequest(r) == /\ Idle
                        /\ request[r] = None
                        /\ request' = [request EXCEPT ![r] = "NEW"]
                        /\ UNCHANGED <<order, task, step, occurrence, packing>>

(* CONVERTED may be set by hand, with no order. *)
UpdateWorkRequest(r, status) ==
    /\ Idle
    /\ request[r] # None
    /\ status \in RequestNext[request[r]]
    /\ request' = [request EXCEPT ![r] = status]
    /\ UNCHANGED <<order, task, step, occurrence, packing>>

-----------------------------------------------------------------------------
(* Orders *)

NewOrder(r) == [status |-> "DRAFT", source |-> r, preventive |-> r \in PlanRequests,
                started |-> FALSE, ended |-> FALSE, closed |-> FALSE]

CreateManualOrder(o) == /\ Idle
                        /\ order[o] = None
                        /\ order' = [order EXCEPT ![o] = NewOrder(None)]
                        /\ UNCHANGED <<request, task, step, occurrence, packing>>

(* _sync_source_request_conversion: a converted request may be the source of further
   orders. *)
Converted(r) == /\ request[r] # "REJECTED"
                /\ request' = [request EXCEPT ![r] = "CONVERTED"]

CreateOrderFromRequest(o, r) ==
    /\ Idle
    /\ order[o] = None /\ request[r] # None
    /\ Converted(r)
    /\ order' = [order EXCEPT ![o] = NewOrder(r)]
    /\ packing' = IF r \in PlanRequests THEN [order |-> o, at |-> 1] ELSE None
    /\ UNCHANGED <<task, step, occurrence>>

Stamped(row, status) ==
    [row EXCEPT !.status = status,
                !.started = @ \/ status = "IN_PROGRESS",
                !.ended = @ \/ status \in {"COMPLETED", "CANCELLED"},
                !.closed = @ \/ status = "CLOSED"]

Finished == {"COMPLETED", "VERIFIED", "CLOSED"}

CompletedFor(o) ==
    [r \in PlanRequests |-> IF occurrence[r].order = o
                            THEN [order |-> o, completed |-> TRUE] ELSE occurrence[r]]

(* Mutant: the occurrence is completed although the order was cancelled. *)
CompletionOnEnd(o, status) ==
    IF status \in Finished \cup {"CANCELLED"} /\ order[o].preventive THEN CompletedFor(o)
    ELSE occurrence

(* _apply_preventive_completion, when the order becomes finished.  It goes by the link of
   the occurrence, not by the source of the order. *)
Completion(o, status) ==
    IF order[o].status \notin Finished /\ status \in Finished /\ order[o].preventive
    THEN CompletedFor(o)
    ELSE occurrence

(* No transition looks at the tasks of the order. *)
UpdateWorkOrder(o, status) ==
    /\ Idle
    /\ order[o] # None
    /\ status \in OrderNext[order[o].status]
    /\ order' = [order EXCEPT ![o] = Stamped(@, status)]
    /\ occurrence' = Completion(o, status)
    /\ UNCHANGED <<request, task, step, packing>>

(* update_work_order with source_id and is_preventive, whatever the order's status: the
   request must exist and is not converted, and no occurrence is linked anew. *)
UpdateWorkOrderSource(o, source, preventive) ==
    /\ Idle
    /\ order[o] # None
    /\ source = None <=> order[o].source = None
    /\ source # None => request[source] # None
    /\ order' = [order EXCEPT ![o].source = source, ![o].preventive = preventive]
    /\ UNCHANGED <<request, task, step, occurrence, packing>>

-----------------------------------------------------------------------------
(* Tasks and steps *)

Mutable(o) == order[o].status \notin {"CANCELLED", "CLOSED"}

HighestSeq(o) == Max({0} \cup {task[t].seq : t \in TasksOf(o)})
HighestNumber(t) == Max({0} \cup {step[s].number : s \in StepsOf(t)})

AddTask(t, o, seq, rule, mandatory, employee) ==
    /\ task[t] = None
    /\ Mutable(o)
    /\ \A x \in TasksOf(o) : task[x].seq # seq
    /\ task' = [task EXCEPT ![t] =
                   [order |-> o, seq |-> seq, status |-> "NOT_STARTED", rule |-> rule,
                    mandatory |-> mandatory, assigned |-> employee, minutes |-> 0,
                    ended |-> FALSE]]

(* With no sequence number given: one past the highest. *)
CreateTask(t, o, rule, mandatory, employee) ==
    /\ Idle
    /\ order[o] # None
    /\ HighestSeq(o) < MaxNumber
    /\ AddTask(t, o, HighestSeq(o) + 1, rule, mandatory, employee)
    /\ UNCHANGED <<request, order, step, occurrence, packing>>

(* task_steps_satisfy_completion_rule *)
StepsSatisfied(t) ==
    task[t].rule = "ALL_STEPS_REQUIRED" =>
        /\ StepsOf(t) # {}
        /\ \A s \in StepsOf(t) : /\ step[s].status = "DONE"
                                 /\ step[s].confirm => step[s].confirmed
                                 /\ step[s].measure => step[s].measured

UpdateTaskStatus(t, status) ==
    /\ Idle
    /\ task[t] # None /\ Mutable(task[t].order)
    /\ status \in TaskNext[task[t].status]
    /\ status = "COMPLETED" => StepsSatisfied(t)
    /\ task' = [task EXCEPT ![t].status = status,
                            ![t].ended = @ \/ status \in {"COMPLETED", "SKIPPED"}]
    /\ UNCHANGED <<request, order, step, occurrence, packing>>

(* update_task with the fields of the plan of the task *)
UpdateTask(t, seq, rule, mandatory, employee) ==
    /\ Idle
    /\ task[t] # None /\ Mutable(task[t].order)
    /\ \A x \in TasksOf(task[t].order) \ {t} : task[x].seq # seq
    /\ task' = [task EXCEPT ![t].seq = seq, ![t].rule = rule,
                            ![t].mandatory = mandatory, ![t].assigned = employee]
    /\ UNCHANGED <<request, order, step, occurrence, packing>>

(* add_task_labor_entry: the time service writes the sum of the hours to the task. *)
AddTaskLaborEntry(t, minutes) ==
    /\ Idle
    /\ task[t] # None
    /\ task[t].assigned # None
    /\ task[t].minutes + minutes <= MaxMinutes
    /\ task' = [task EXCEPT ![t].minutes = @ + minutes]
    /\ UNCHANGED <<request, order, step, occurrence, packing>>

AddStep(s, t, number, measure, confirm) ==
    /\ step[s] = None
    /\ Mutable(task[t].order)
    /\ \A x \in StepsOf(t) : step[x].number # number
    /\ step' = [step EXCEPT ![s] =
                   [task |-> t, number |-> number, status |-> "NOT_STARTED",
                    measure |-> measure, measured |-> FALSE,
                    confirm |-> confirm, confirmed |-> FALSE]]

CreateStep(s, t, measure, confirm) ==
    /\ Idle
    /\ task[t] # None
    /\ HighestNumber(t) < MaxNumber
    /\ AddStep(s, t, HighestNumber(t) + 1, measure, confirm)
    /\ UNCHANGED <<request, order, task, occurrence, packing>>

(* Mutant: the state of the order is not looked at. *)
StepEditableAlways(s) == Idle /\ step[s] # None

StepEditable(s) == /\ Idle
                   /\ step[s] # None
                   /\ Mutable(task[step[s].task].order)

(* Mutant: the task of a started step stays as it was. *)
TaskLeftAlone(t, status) == task

(* A step that starts starts its task. *)
TaskStarted(t, status) ==
    IF status = "IN_PROGRESS" /\ task[t].status = "NOT_STARTED"
    THEN [task EXCEPT ![t].status = "IN_PROGRESS"]
    ELSE task

UpdateStepStatus(s, status, measured) ==
    /\ StepEditable(s)
    /\ status \in StepNext[step[s].status]
    /\ LET value == measured \/ step[s].measured
       IN  /\ step[s].measure /\ status = "DONE" => value
           /\ step' = [step EXCEPT ![s].status = status,
                                   ![s].measured = value,
                                   ![s].confirmed = @ /\ status # "FAILED"]
    /\ task' = TaskStarted(step[s].task, status)
    /\ UNCHANGED <<request, order, occurrence, packing>>

Confirmable(s) == step[s].confirm /\ step[s].status = "DONE"

ConfirmStep(s, confirmed) ==
    /\ StepEditable(s)
    /\ confirmed => Confirmable(s)
    /\ step' = [step EXCEPT ![s].confirmed = confirmed]
    /\ UNCHANGED <<request, order, task, occurrence, packing>>

(* update_step with the other fields; a measurement may be cleared. *)
UpdateStep(s, measure, measured, confirm) ==
    /\ StepEditable(s)
    /\ step' = [step EXCEPT ![s].measure = measure, ![s].measured = measured,
                            ![s].confirm = confirm]
    /\ UNCHANGED <<request, order, task, occurrence, packing>>

-----------------------------------------------------------------------------
(* The package of a preventive plan: populate_work_order *)

Item == Package[packing.at]

HasSteps(seq) == \E i \in DOMAIN Package : Package[i].seq = seq /\ Package[i].number > 0

Advance == packing' = [packing EXCEPT !.at = @ + 1]

PackTask(t) ==
    /\ ~Idle /\ packing.at <= Len(Package)
    /\ Item.number = 0
    /\ AddTask(t, packing.order, Item.seq,
               IF HasSteps(Item.seq) THEN "ALL_STEPS_REQUIRED" ELSE "NO_STEPS_REQUIRED",
               TRUE, None)
    /\ Advance
    /\ UNCHANGED <<request, order, step, occurrence>>

PackStep(s) ==
    /\ ~Idle /\ packing.at <= Len(Package)
    /\ Item.number > 0
    /\ \E t \in TasksOf(packing.order) :
          /\ task[t].seq = Item.seq
          /\ AddStep(s, t, Item.number, FALSE, FALSE)
    /\ Advance
    /\ UNCHANGED <<request, order, task, occurrence>>

(* _sync_preventive_request_instance_link *)
LinkOccurrence ==
    /\ ~Idle /\ packing.at > Len(Package)
    /\ occurrence' = [occurrence EXCEPT ![order[packing.order].source].order = packing.order]
    /\ packing' = None
    /\ UNCHANGED <<request, order, task, step>>

(* A template that is refused, a failed commit, or the end of the process; nothing
   resumes the package. *)
PackingFails == /\ ~Idle
                /\ packing' = None
                /\ UNCHANGED <<request, order, task, step, occurrence>>

-----------------------------------------------------------------------------
Next ==
    \/ \E r \in Requests :
          \/ CreateWorkRequest(r)
          \/ \E status \in DOMAIN RequestNext : UpdateWorkRequest(r, status)
          \/ \E o \in Orders : CreateOrderFromRequest(o, r)
    \/ \E o \in Orders :
          \/ CreateManualOrder(o)
          \/ \E status \in DOMAIN OrderNext : UpdateWorkOrder(o, status)
          \/ \E source \in Requests \cup {None}, preventive \in BOOLEAN :
                UpdateWorkOrderSource(o, source, preventive)
    \/ \E t \in Tasks :
          \/ \E o \in Orders, rule \in Rules, mandatory \in BOOLEAN, e \in Employees :
                CreateTask(t, o, rule, mandatory, e)
          \/ \E status \in DOMAIN TaskNext : UpdateTaskStatus(t, status)
          \/ \E seq \in 1..MaxNumber, rule \in Rules, mandatory \in BOOLEAN,
                e \in Employees : UpdateTask(t, seq, rule, mandatory, e)
          \/ \E minutes \in 1..MaxMinutes : AddTaskLaborEntry(t, minutes)
          \/ PackTask(t)
    \/ \E s \in Steps :
          \/ \E t \in Tasks, measure, confirm \in BOOLEAN : CreateStep(s, t, measure, confirm)
          \/ \E status \in DOMAIN StepNext, measured \in BOOLEAN :
                UpdateStepStatus(s, status, measured)
          \/ \E confirmed \in BOOLEAN : ConfirmStep(s, confirmed)
          \/ \E measure, measured, confirm \in BOOLEAN :
                UpdateStep(s, measure, measured, confirm)
          \/ PackStep(s)
    \/ LinkOccurrence
    \/ PackingFails

Spec == Init /\ [][Next]_vars

-----------------------------------------------------------------------------
(* Properties *)

(* StampsMatchStatus: actual_start, actual_end and closed_at of an order and
   completed_at of a task tell the same story as the statuses, over every path
   through the transition tables. *)
StampsMatchStatus ==
    /\ \A o \in Orders : order[o] # None =>
          /\ order[o].status \in {"IN_PROGRESS", "PAUSED"} \cup Finished => order[o].started
          /\ order[o].ended <=> order[o].status \in Finished \cup {"CANCELLED"}
          /\ order[o].closed <=> order[o].status = "CLOSED"
    /\ \A t \in Tasks : task[t] # None =>
          (task[t].ended <=> task[t].status \in {"COMPLETED", "SKIPPED"})

(* StartedStepHasStartedTask: no step is in progress under a task that has not
   started, whoever created the step and whenever (update_step starts the task). *)
StartedStepHasStartedTask ==
    \A s \in Steps : step[s] # None =>
        (step[s].status = "IN_PROGRESS" => task[step[s].task].status # "NOT_STARTED")

(* ConfirmedAreDone: a confirmation belongs to a done step, although the need for it
   may be dropped and failed steps are restarted. *)
ConfirmedAreDone ==
    \A s \in Steps : step[s] # None => (step[s].confirmed => step[s].status = "DONE")

(* WorkConsistent: what the rows of an order, its tasks and steps say fits together. *)
WorkConsistent == /\ TypeOK
                  /\ StampsMatchStatus
                  /\ StartedStepHasStartedTask
                  /\ ConfirmedAreDone

CompletedOccurrences == {r \in PlanRequests : occurrence[r].completed}

FinishedOrders == {o \in Orders : order[o] # None /\ order[o].status \in Finished}

(* ConversionTraced: orders, requests and occurrences of plans still fit together however
   often a request is converted, wherever a package ends and whatever request an order is
   turned to afterwards: the request an order names exists; an occurrence is linked to an
   order, its own request was converted, and no other occurrence waits for that order
   (get_by_generated_work_order_id takes the first); and every completed occurrence has a
   finished order that no other one was completed by (_apply_preventive_completion). *)
ConversionTraced ==
    /\ \A o \in Orders : order[o] # None =>
          (order[o].source # None => request[order[o].source] # None)
    /\ \A r \in PlanRequests : occurrence[r].order # None =>
          /\ order[occurrence[r].order] # None
          /\ request[r] = "CONVERTED"
          /\ \A q \in PlanRequests \ {r} : occurrence[q].order # occurrence[r].order
    /\ \E by \in [CompletedOccurrences -> FinishedOrders] :
          \A r, q \in CompletedOccurrences : by[r] = by[q] => r = q

(* What else holds as long as no order is turned to another request. *)
SourcesKept == \A o \in Orders : order[o] # None => order'[o].source = order[o].source

(* SourcesConverted: a request an order was made from is CONVERTED for good, also when
   the package of the order failed halfway (_sync_source_request_conversion). *)
SourcesConverted ==
    \A o \in Orders : order[o] # None =>
        (order[o].source # None => request[order[o].source] = "CONVERTED")

(* OccurrenceNeedsFinishedWork: the occurrence of a plan is completed only by an order
   made from its request that was finished, however many orders the request has. *)
OccurrenceNeedsFinishedWork ==
    \A r \in PlanRequests : occurrence[r].completed =>
        \E o \in Orders : /\ order[o] # None
                          /\ order[o].source = r
                          /\ order[o].status \in Finished

(* FinishedOrderFrozen: while an order is CLOSED or CANCELLED no service adds or
   changes one of its tasks or steps, but for booked labor
   (_ensure_work_order_is_mutable in both services). *)
FinishedOrderFrozen ==
    [][\A o \in Orders : order[o] # None =>
          (~Mutable(o) =>
             \A t \in Tasks :
                task'[t] # None => (task'[t].order = o =>
                   /\ task[t] # None
                   /\ [task'[t] EXCEPT !.minutes = task[t].minutes] = task[t]
                   /\ \A s \in Steps : step'[s] # None =>
                         (step'[s].task = t => step'[s] = step[s])))]_vars
==============================================================================
