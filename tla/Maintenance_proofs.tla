-------------------------- MODULE Maintenance_proofs --------------------------
(* Proofs about maintenance: WorkExecution, for every set of requests, orders, tasks and
   steps and every package, and Preventive, for every plan.

   Neither WorkConsistent nor ConversionTraced is inductive.  A started step has a
   started task only because no task row is created under steps that exist already; an
   occurrence waits for an order of its own only because the link is written from the
   order being populated, which is new and to which nothing is linked.  IInv adds these
   references, and is split by the table its parts are about.  That an occurrence is
   completed by an order that still names its request is proved under a condition, that
   nobody turns an order to another request.

   The properties of Preventive compare a piece of work with the schedule the plan had
   when the run started.  EngineInv ties the run under way to its work and to that
   schedule; ReadInv, OccurrenceInv and CadenceInv add what each property needs: what
   the rows say of the last reading, that the next date is ahead of the work, and that
   it is on the cadence.                                                             *)
EXTENDS WorkExecution, Preventive, FiniteSums, SequenceTheorems

(* Orders move between the statuses of the table, never out of a closed or cancelled one,
   and only from started work to a paused or finished status. *)
LEMMA OrderTransitions ==
    ASSUME NEW a \in DOMAIN OrderNext, NEW b \in OrderNext[a]
    PROVE  /\ b \in DOMAIN OrderNext
           /\ a \notin {"CLOSED", "CANCELLED"}
           /\ a \in Finished => b \in Finished
           /\ b \in {"PAUSED"} \cup Finished => a \in {"IN_PROGRESS", "PAUSED"} \cup Finished
  BY DEF OrderNext, Waiting, Finished, Resumed

(* A task that left NOT_STARTED never returns there, and completed or skipped tasks stay. *)
LEMMA TaskTransitions ==
    ASSUME NEW a \in DOMAIN TaskNext, NEW b \in TaskNext[a]
    PROVE  /\ b \in DOMAIN TaskNext
           /\ b # "NOT_STARTED"
           /\ a \notin {"COMPLETED", "SKIPPED"}
  BY DEF TaskNext

(* A step that left NOT_STARTED never returns there, and a done step stays done. *)
LEMMA StepTransitions ==
    ASSUME NEW a \in DOMAIN StepNext, NEW b \in StepNext[a]
    PROVE  /\ b \in DOMAIN StepNext
           /\ b # "NOT_STARTED"
           /\ a = "DONE" => FALSE
  BY DEF StepNext

(* A bounded set of numbers has a maximum. *)
LEMMA Highest ==
    ASSUME NEW n \in Nat, NEW S \in SUBSET (0..n), 0 \in S
    PROVE  Max(S) \in S /\ \A x \in S : x <= Max(S)
<1> DEFINE Bounds == {b \in 0..n : \A x \in S : x <= b}
<1>1. Bounds \subseteq Nat /\ n \in Bounds
  OBVIOUS
<1>2. PICK b \in Bounds : \A c \in Bounds : b <= c
  <2> HIDE DEF Bounds
  <2> QED BY <1>1, LeastNumber
<1>3. b \in S
  <2> SUFFICES ASSUME b \notin S PROVE FALSE
    OBVIOUS
  <2>1. b # 0 /\ b \in 0..n
    OBVIOUS
  <2>2. \A x \in S : x <= b /\ x # b
    OBVIOUS
  <2>3. \A x \in S : x <= b - 1
    BY <2>1, <2>2
  <2>4. b - 1 \in Bounds
    BY <2>1, <2>3
  <2> QED BY <1>2, <2>1, <2>4
<1>4. \E x \in S : \A y \in S : x >= y
  BY <1>3
<1> QED BY <1>4 DEF Max

-----------------------------------------------------------------------------
(* The invariant, by table *)

SourcesExist == \A o \in Orders : order[o] # None =>
                    (order[o].source # None => request[order[o].source] # None)

RequestPart == /\ request \in [Requests -> DOMAIN RequestNext \cup {None}]
               /\ SourcesExist

OrderStamps(row) ==
    /\ row.status \in {"IN_PROGRESS", "PAUSED"} \cup Finished => row.started
    /\ row.ended <=> row.status \in Finished \cup {"CANCELLED"}
    /\ row.closed <=> row.status = "CLOSED"

OrderPart == /\ order \in [Orders -> OrderRows \cup {None}]
             /\ \A o \in Orders : order[o] # None => OrderStamps(order[o])

TaskStamps(row) == row.ended <=> row.status \in {"COMPLETED", "SKIPPED"}

SeqsUnique == \A s, t \in Tasks : s # t /\ task[s] # None /\ task[t] # None =>
                  <<task[s].order, task[s].seq>> # <<task[t].order, task[t].seq>>

TaskPart == /\ task \in [Tasks -> TaskRows \cup {None}]
            /\ \A t \in Tasks : task[t] # None => TaskStamps(task[t])
            /\ SeqsUnique

StepsHaveTasks == \A s \in Steps : step[s] # None => task[step[s].task] # None

NumbersUnique == \A s, t \in Steps : s # t /\ step[s] # None /\ step[t] # None =>
                     <<step[s].task, step[s].number>> # <<step[t].task, step[t].number>>

StepPart == /\ step \in [Steps -> StepRows \cup {None}]
            /\ NumbersUnique
            /\ StepsHaveTasks
            /\ StartedStepHasStartedTask
            /\ ConfirmedAreDone

(* Order o exists and names request r as its source. *)
MadeFrom(o, r) == order[o] # None /\ order[o].source = r

OccurrencesLinked ==
    \A r \in PlanRequests : occurrence[r].order # None =>
        /\ order[occurrence[r].order] # None
        /\ request[r] = "CONVERTED"
        /\ \A q \in PlanRequests \ {r} : occurrence[q].order # occurrence[r].order

PackingLinked ==
    packing # None =>
        /\ \E r \in PlanRequests : MadeFrom(packing.order, r) /\ request[r] = "CONVERTED"
        /\ \A q \in PlanRequests : occurrence[q].order # packing.order

BackedByWork == \E by \in [CompletedOccurrences -> FinishedOrders] :
                   \A r, q \in CompletedOccurrences : by[r] = by[q] => r = q

PlanPart == /\ occurrence \in [PlanRequests -> Occurrences]
            /\ packing \in [order : Orders, at : 1..Len(Package) + 1] \cup {None}
            /\ OccurrencesLinked
            /\ PackingLinked
            /\ BackedByWork

IInv == RequestPart /\ OrderPart /\ TaskPart /\ StepPart /\ PlanPart

(* What every step leaves of the rows: a request stays converted, an order stays finished,
   a task keeps its order and stays started. *)
RequestsKept == \A r \in Requests : request[r] = "CONVERTED" => request'[r] = "CONVERTED"

OrdersKept == \A o \in Orders : order[o] # None =>
                  /\ order'[o] # None
                  /\ order[o].status \in Finished => order'[o].status \in Finished

TasksKept == \A t \in Tasks : task[t] # None =>
                 /\ task'[t] # None
                 /\ task'[t].order = task[t].order
                 /\ task[t].status # "NOT_STARTED" => task'[t].status # "NOT_STARTED"

(* The parts say what the properties say. *)
LEMMA PartsAreProperties == IInv => WorkConsistent /\ ConversionTraced
  BY DEF IInv, RequestPart, OrderPart, TaskPart, StepPart, PlanPart, OrderStamps, TaskStamps,
         SeqsUnique, NumbersUnique, WorkConsistent, ConversionTraced, TypeOK,
         StampsMatchStatus, SourcesExist, OccurrencesLinked, BackedByWork

(* The initial state satisfies the invariant. *)
LEMMA IInvInit == Init => IInv
<1> SUFFICES ASSUME Init PROVE IInv
  OBVIOUS
<1>1. RequestPart /\ OrderPart /\ TaskPart /\ StepPart
  BY RowsAssumption, ExecutionAssumption
     DEF Init, RequestPart, OrderPart, TaskPart, StepPart, SeqsUnique, NumbersUnique,
         SourcesExist, StepsHaveTasks, StartedStepHasStartedTask, ConfirmedAreDone,
         RequestNext
<1>2. /\ occurrence \in [PlanRequests -> Occurrences] /\ packing = None
      /\ OccurrencesLinked /\ PackingLinked
  BY DEF Init, Occurrences, OccurrencesLinked, PackingLinked
<1>3. BackedByWork
  <2>1. CompletedOccurrences = {}
    BY DEF Init, CompletedOccurrences
  <2>2. [r \in {} |-> None] \in [{} -> FinishedOrders]
    OBVIOUS
  <2> QED BY <2>1, <2>2 DEF BackedByWork
<1> QED BY <1>1, <1>2, <1>3 DEF IInv, PlanPart

-----------------------------------------------------------------------------
(* One row written *)

(* Saving one order, with the stamps of its status, keeps what is said of orders. *)
LEMMA OrderWritten ==
    ASSUME OrderPart, NEW o \in Orders, NEW row \in OrderRows, OrderStamps(row),
           order' = [order EXCEPT ![o] = row],
           order[o] # None => (order[o].status \in Finished => row.status \in Finished)
    PROVE  OrderPart' /\ OrdersKept
<1>1. \A x \in Orders : order'[x] = IF x = o THEN row ELSE order[x]
  BY DEF OrderPart
<1>2. row # None
  BY RowsAssumption
<1>3. order' \in [Orders -> OrderRows \cup {None}]
  BY DEF OrderPart
<1>4. \A x \in Orders : order'[x] # None => OrderStamps(order'[x])
  BY <1>1 DEF OrderPart
<1>5. OrderPart'
  BY <1>3, <1>4 DEF OrderPart, OrderStamps
<1>6. OrdersKept
  BY <1>1, <1>2 DEF OrdersKept
<1> QED BY <1>5, <1>6

(* Saving one task under a number that is free in its order keeps what is said of tasks. *)
LEMMA TaskWritten ==
    ASSUME TaskPart, NEW t \in Tasks, NEW row \in TaskRows, TaskStamps(row),
           task' = [task EXCEPT ![t] = row],
           \A x \in TasksOf(row.order) \ {t} : task[x].seq # row.seq,
           task[t] # None => /\ row.order = task[t].order
                             /\ task[t].status # "NOT_STARTED" => row.status # "NOT_STARTED"
    PROVE  TaskPart' /\ TasksKept
<1>1. \A x \in Tasks : task'[x] = IF x = t THEN row ELSE task[x]
  BY DEF TaskPart
<1>2. row # None
  BY RowsAssumption
<1>3. task' \in [Tasks -> TaskRows \cup {None}]
  BY DEF TaskPart
<1>4. \A x \in Tasks : task'[x] # None => TaskStamps(task'[x])
  BY <1>1 DEF TaskPart
<1>5. SeqsUnique'
  BY <1>1 DEF TaskPart, SeqsUnique, TasksOf
<1>6. TaskPart'
  BY <1>3, <1>4, <1>5 DEF TaskPart, TaskStamps
<1>7. TasksKept
  BY <1>1, <1>2 DEF TasksKept
<1> QED BY <1>6, <1>7

(* Saving one step under a number that is free in its task keeps what is said of steps,
   provided a running step has a started task. *)
LEMMA StepWritten ==
    ASSUME StepPart, NEW s \in Steps, NEW row \in StepRows, TasksKept,
           step' = [step EXCEPT ![s] = row],
           \A x \in StepsOf(row.task) \ {s} : step[x].number # row.number,
           task'[row.task] # None,
           row.status = "IN_PROGRESS" => task'[row.task].status # "NOT_STARTED",
           row.confirmed => row.status = "DONE"
    PROVE  StepPart'
<1>1. \A x \in Steps : step'[x] = IF x = s THEN row ELSE step[x]
  BY DEF StepPart
<1>2. \A x \in Steps : step[x] # None => step[x].task \in Tasks
  BY DEF StepPart, StepRows
<1>3. step' \in [Steps -> StepRows \cup {None}]
  BY DEF StepPart
<1>4. NumbersUnique'
  BY <1>1 DEF StepPart, NumbersUnique, StepsOf
<1>5. StepsHaveTasks'
  BY <1>1, <1>2 DEF StepPart, StepsHaveTasks, TasksKept
<1>6. StartedStepHasStartedTask'
  BY <1>1, <1>2 DEF StepPart, StartedStepHasStartedTask, StepsHaveTasks, TasksKept
<1>7. ConfirmedAreDone'
  BY <1>1 DEF StepPart, ConfirmedAreDone
<1> QED BY <1>3, <1>4, <1>5, <1>6, <1>7 DEF StepPart

(* Parts whose tables a step leaves alone *)

(* A step that leaves the steps alone and restarts no task keeps what is said of steps. *)
LEMMA StepsStay ==
    ASSUME StepPart, TasksKept, UNCHANGED step
    PROVE  StepPart'
<1>1. \A x \in Steps : step[x] # None => step[x].task \in Tasks
  BY DEF StepPart, StepRows
<1> QED BY <1>1 DEF StepPart, NumbersUnique, StepsHaveTasks, StartedStepHasStartedTask,
                    ConfirmedAreDone, TasksKept

(* No occurrence more is completed and no order less is finished. *)
LEMMA BackingStays ==
    ASSUME BackedByWork, OrdersKept, CompletedOccurrences' = CompletedOccurrences
    PROVE  BackedByWork'
<1>1. FinishedOrders \subseteq FinishedOrders'
  BY DEF FinishedOrders, OrdersKept
<1>2. PICK by \in [CompletedOccurrences -> FinishedOrders] :
             \A r, q \in CompletedOccurrences : by[r] = by[q] => r = q
  BY DEF BackedByWork
<1>3. by \in [CompletedOccurrences' -> FinishedOrders']
  BY <1>1, <1>2
<1> QED BY <1>2, <1>3 DEF BackedByWork

(* An operation that leaves occurrence alone and no package open keeps what is said of
   them. *)
LEMMA PlanStays ==
    ASSUME PlanPart, RequestsKept, OrdersKept, UNCHANGED occurrence, packing' = None
    PROVE  PlanPart'
<1>1. \A r \in PlanRequests : occurrence[r].order \in Orders \cup {None} /\ r \in Requests
  BY ExecutionAssumption DEF PlanPart, Occurrences
<1>2. OccurrencesLinked'
  BY <1>1 DEF PlanPart, OccurrencesLinked, OrdersKept, RequestsKept
<1>3. BackedByWork'
  <2>1. CompletedOccurrences' = CompletedOccurrences
    BY DEF CompletedOccurrences
  <2> QED BY <2>1, BackingStays DEF PlanPart
<1> QED BY <1>2, <1>3 DEF PlanPart, PackingLinked

(* Each part of the invariant depends on its own tables alone. *)
LEMMA OtherTablesStay ==
    ASSUME IInv
    PROVE  /\ UNCHANGED <<request, order>> => RequestPart'
           /\ UNCHANGED request => RequestsKept
           /\ UNCHANGED order => OrderPart' /\ OrdersKept
           /\ UNCHANGED task => TaskPart' /\ TasksKept
           /\ UNCHANGED <<step, task>> => StepPart'
           /\ UNCHANGED <<request, order, occurrence, packing>> => PlanPart'
<1>1. /\ UNCHANGED <<request, order>> => RequestPart'
      /\ UNCHANGED request => RequestsKept
  BY DEF IInv, RequestPart, SourcesExist, RequestsKept
<1>2. UNCHANGED order => OrderPart' /\ OrdersKept
  BY DEF IInv, OrderPart, OrdersKept, OrderStamps
<1>3. UNCHANGED task => TaskPart' /\ TasksKept
  BY DEF IInv, TaskPart, SeqsUnique, TasksKept, TaskStamps
<1>4. UNCHANGED <<step, task>> => StepPart'
  BY <1>3, StepsStay DEF IInv
<1>5. ASSUME UNCHANGED <<request, order, occurrence, packing>>
      PROVE  PlanPart'
  <2>1. CompletedOccurrences' = CompletedOccurrences
    BY <1>5 DEF CompletedOccurrences
  <2>2. BackedByWork'
    BY <1>2, <1>5, <2>1, BackingStays DEF IInv, PlanPart
  <2> QED BY <1>5, <2>2 DEF IInv, PlanPart, OccurrencesLinked, PackingLinked, MadeFrom
<1> QED BY <1>1, <1>2, <1>3, <1>4, <1>5

-----------------------------------------------------------------------------
(* One lemma per operation *)

(* create_work_request and update_work_request. *)
LEMMA RequestChanges ==
    ASSUME IInv, NEW r \in Requests,
           CreateWorkRequest(r)
           \/ \E status \in DOMAIN RequestNext : UpdateWorkRequest(r, status)
    PROVE  IInv'
<1>1. PICK status \in DOMAIN RequestNext : request' = [request EXCEPT ![r] = status]
  BY DEF CreateWorkRequest, UpdateWorkRequest, RequestNext
<1>2. request[r] # "CONVERTED"
  BY RowsAssumption DEF CreateWorkRequest, UpdateWorkRequest, RequestNext
<1>3. UNCHANGED <<order, task, step, occurrence, packing>>
  BY DEF CreateWorkRequest, UpdateWorkRequest
<1>4. RequestPart' /\ RequestsKept
  BY <1>1, <1>2, <1>3, RowsAssumption DEF IInv, RequestPart, SourcesExist, RequestsKept
<1>5. packing' = None
  BY <1>3 DEF CreateWorkRequest, UpdateWorkRequest, Idle
<1>6. PlanPart'
  BY <1>3, <1>4, <1>5, OtherTablesStay, PlanStays DEF IInv
<1> QED BY <1>3, <1>4, <1>6, OtherTablesStay DEF IInv

(* A new order has the shape of an order and no stamps. *)
LEMMA NewOrderRow ==
    ASSUME NEW source \in Requests \cup {None}
    PROVE  /\ NewOrder(source) \in OrderRows
           /\ NewOrder(source).source = source
           /\ OrderStamps(NewOrder(source))
  BY DEF NewOrder, OrderRows, OrderStamps, OrderNext, Finished

(* create_work_order without a source. *)
LEMMA ManualOrder ==
    ASSUME IInv, NEW o \in Orders, CreateManualOrder(o)
    PROVE  IInv'
<1>1. UNCHANGED <<request, task, step, occurrence>> /\ packing' = None
  BY DEF CreateManualOrder, Idle
<1>2. OrderPart' /\ OrdersKept
  BY NewOrderRow, OrderWritten DEF IInv, CreateManualOrder
<1>3. RequestPart'
  <2>1. \A x \in Orders : order'[x] = IF x = o THEN NewOrder(None) ELSE order[x]
    BY DEF IInv, OrderPart, CreateManualOrder
  <2> QED BY <1>1, <2>1, NewOrderRow DEF IInv, RequestPart, SourcesExist
<1>4. PlanPart'
  BY <1>1, <1>2, OtherTablesStay, PlanStays DEF IInv
<1> QED BY <1>1, <1>2, <1>3, <1>4, OtherTablesStay DEF IInv

(* create_work_order from a request, which is converted in the same transaction. *)
LEMMA OrderFromRequest ==
    ASSUME IInv, NEW o \in Orders, NEW r \in Requests, CreateOrderFromRequest(o, r)
    PROVE  IInv'
<1>1. UNCHANGED <<task, step, occurrence>>
  BY DEF CreateOrderFromRequest
<1>2. OrderPart' /\ OrdersKept
  BY NewOrderRow, OrderWritten DEF IInv, CreateOrderFromRequest
<1>3. \A x \in Orders : order'[x] = IF x = o THEN NewOrder(r) ELSE order[x]
  BY DEF IInv, OrderPart, CreateOrderFromRequest
<1>4. RequestPart'
  <2>1. request' = [request EXCEPT ![r] = "CONVERTED"]
    BY DEF CreateOrderFromRequest, Converted
  <2>2. request' \in [Requests -> DOMAIN RequestNext \cup {None}]
    BY <2>1 DEF IInv, RequestPart, RequestNext
  <2>3. SourcesExist'
    BY <1>3, <2>1, NewOrderRow, RowsAssumption
       DEF IInv, RequestPart, OrderPart, OrderRows, SourcesExist, RequestNext
  <2> QED BY <2>2, <2>3 DEF RequestPart
<1>5. request' = [request EXCEPT ![r] = "CONVERTED"] /\ RequestsKept /\ request'[r] = "CONVERTED"
  BY DEF CreateOrderFromRequest, Converted, IInv, RequestPart, RequestsKept
<1>6. PlanPart'
  <2>1. PlanPart /\ UNCHANGED occurrence
    BY <1>1 DEF IInv
  <2>2. \A q \in PlanRequests : occurrence[q].order \in Orders \cup {None} /\ q \in Requests
    BY <2>1, ExecutionAssumption DEF PlanPart, Occurrences
  <2>3. OccurrencesLinked'
    BY <1>2, <1>5, <2>1, <2>2 DEF PlanPart, OccurrencesLinked, OrdersKept, RequestsKept
  <2>4. BackedByWork'
    <3>1. CompletedOccurrences' = CompletedOccurrences
      BY <2>1 DEF CompletedOccurrences
    <3> QED BY <1>2, <2>1, <3>1, BackingStays DEF PlanPart
  <2>5. packing' = IF r \in PlanRequests THEN [order |-> o, at |-> 1] ELSE None
    BY DEF CreateOrderFromRequest
  <2>6. packing' \in [order : Orders, at : 1..Len(Package) + 1] \cup {None}
    BY <2>5, ExecutionAssumption
  <2>7. order'[o] # None /\ order'[o].source = r
    BY <1>3, NewOrderRow, RowsAssumption
  <2>8. \A q \in PlanRequests : occurrence'[q].order # o
    BY <2>1, RowsAssumption DEF PlanPart, OccurrencesLinked, CreateOrderFromRequest
  <2>9. PackingLinked'
    BY <1>5, <2>5, <2>7, <2>8 DEF PackingLinked, MadeFrom
  <2> QED BY <2>1, <2>3, <2>4, <2>6, <2>9 DEF PlanPart
<1> QED BY <1>1, <1>2, <1>4, <1>6, OtherTablesStay DEF IInv

(* A status change stamps the row as its new status asks. *)
LEMMA StampedRow ==
    ASSUME NEW row \in OrderRows, OrderStamps(row), NEW status \in OrderNext[row.status]
    PROVE  /\ Stamped(row, status) \in OrderRows
           /\ OrderStamps(Stamped(row, status))
           /\ Stamped(row, status).source = row.source
           /\ Stamped(row, status).status = status
           /\ row.status \in Finished => status \in Finished
<1>1. /\ row.status \in DOMAIN OrderNext /\ row.source \in Requests \cup {None}
      /\ row.preventive \in BOOLEAN /\ row.started \in BOOLEAN /\ row.ended \in BOOLEAN /\ row.closed \in BOOLEAN
      /\ row = [status |-> row.status, source |-> row.source, preventive |-> row.preventive,
                started |-> row.started, ended |-> row.ended, closed |-> row.closed]
  BY DEF OrderRows
<1> DEFINE started == row.started \/ status = "IN_PROGRESS"
           ended == row.ended \/ status \in {"COMPLETED", "CANCELLED"}
           closed == row.closed \/ status = "CLOSED"
<1>2. Stamped(row, status) =
        [status |-> status, source |-> row.source, preventive |-> row.preventive,
         started |-> started, ended |-> ended, closed |-> closed]
  <2>1. Stamped(row, status) =
          [row EXCEPT !.status = status, !.started = started, !.ended = ended,
                      !.closed = closed]
    BY <1>1, Zenon DEF Stamped
  <2> HIDE DEF started, ended, closed
  <2> QED BY <1>1, <2>1
<1>3. started \in BOOLEAN /\ ended \in BOOLEAN /\ closed \in BOOLEAN
  OBVIOUS
<1>4. /\ Stamped(row, status).started <=> row.started \/ status = "IN_PROGRESS"
      /\ Stamped(row, status).ended <=> row.ended \/ status \in {"COMPLETED", "CANCELLED"}
      /\ Stamped(row, status).closed <=> row.closed \/ status = "CLOSED"
      /\ Stamped(row, status).status = status
  <2>1. /\ Stamped(row, status).started = started
        /\ Stamped(row, status).ended = ended
        /\ Stamped(row, status).closed = closed
        /\ Stamped(row, status).status = status
    <3> HIDE DEF started, ended, closed
    <3> QED BY <1>2
  <2> QED BY <2>1, Zenon
<1>5. /\ status \in DOMAIN OrderNext
      /\ row.status \notin {"CLOSED", "CANCELLED"}
      /\ row.status \in Finished => status \in Finished
      /\ status \in {"PAUSED"} \cup Finished
            => row.status \in {"IN_PROGRESS", "PAUSED"} \cup Finished
      /\ status \in {"VERIFIED", "CLOSED"} => row.status \in Finished
  <2>1. status \in {"VERIFIED", "CLOSED"} => row.status \in Finished
    BY <1>1 DEF OrderNext, Waiting, Resumed, Finished
  <2> QED BY <1>1, <2>1, OrderTransitions
<1>6. Stamped(row, status) \in OrderRows
  BY <1>1, <1>2, <1>3, <1>5 DEF OrderRows
<1>7. OrderStamps(Stamped(row, status))
  BY <1>1, <1>4, <1>5 DEF OrderStamps, Finished
<1> QED BY <1>2, <1>5, <1>6, <1>7

(* update_work_order. *)
LEMMA OrderUpdates ==
    ASSUME IInv, NEW o \in Orders, NEW status \in DOMAIN OrderNext,
           UpdateWorkOrder(o, status)
    PROVE  IInv'
<1>1. UNCHANGED <<request, task, step, packing>>
  BY DEF UpdateWorkOrder
<1> DEFINE row == Stamped(order[o], status)
<1>2. /\ order[o] \in OrderRows /\ OrderStamps(order[o])
      /\ status \in OrderNext[order[o].status]
      /\ order' = [order EXCEPT ![o] = row]
  BY DEF UpdateWorkOrder, IInv, OrderPart
<1>3. /\ row \in OrderRows /\ OrderStamps(row) /\ row.source = order[o].source
      /\ row.status = status
      /\ order[o].status \in Finished => row.status \in Finished
  BY <1>2, StampedRow
<1> HIDE DEF row
<1>4. OrderPart' /\ OrdersKept
  BY <1>2, <1>3, OrderWritten DEF IInv
<1>5. \A x \in Orders : order'[x] = IF x = o THEN row ELSE order[x]
  BY <1>2 DEF IInv, OrderPart
<1>6. RequestPart'
  BY <1>1, <1>2, <1>3, <1>5, RowsAssumption DEF IInv, RequestPart, SourcesExist
<1>7. PlanPart'
  <2> DEFINE finishing == order[o].status \notin Finished /\ status \in Finished
  <2>1. ASSUME NEW r \in PlanRequests
        PROVE  /\ occurrence[r] \in Occurrences
               /\ occurrence'[r] \in Occurrences
               /\ occurrence'[r].order = occurrence[r].order
               /\ occurrence[r].completed => occurrence'[r].completed
               /\ occurrence'[r].completed =>
                     occurrence[r].completed \/ (occurrence[r].order = o /\ finishing)
    BY DEF UpdateWorkOrder, Completion, CompletedFor, IInv, PlanPart, Occurrences
  <2>2. occurrence' \in [PlanRequests -> Occurrences]
    BY <2>1 DEF UpdateWorkOrder, Completion, CompletedFor, IInv, PlanPart
  <2>3. \A r \in PlanRequests : occurrence[r].order \in Orders \cup {None}
    BY <2>1 DEF Occurrences
  <2>4. OccurrencesLinked'
    BY <1>1, <1>4, <2>1, <2>3 DEF IInv, PlanPart, OccurrencesLinked, OrdersKept
  <2>5. BackedByWork'
    <3>1. PICK by \in [CompletedOccurrences -> FinishedOrders] :
                 \A r, q \in CompletedOccurrences : by[r] = by[q] => r = q
      BY DEF IInv, PlanPart, BackedByWork
    <3>2. FinishedOrders \subseteq FinishedOrders'
      BY <1>4 DEF FinishedOrders, OrdersKept
    <3>3. CompletedOccurrences \subseteq CompletedOccurrences'
      BY <2>1 DEF CompletedOccurrences
    <3>4. ASSUME NEW r \in CompletedOccurrences' \ CompletedOccurrences
          PROVE  /\ r \in PlanRequests /\ occurrence[r].order = o
                 /\ o \notin FinishedOrders /\ o \in FinishedOrders'
      <4>1. r \in PlanRequests /\ occurrence[r].order = o /\ finishing
        BY <2>1 DEF CompletedOccurrences
      <4>2. order'[o] # None /\ order'[o].status \in Finished
        BY <1>3, <1>5, <4>1, RowsAssumption
      <4> QED BY <4>1, <4>2 DEF FinishedOrders
    <3> DEFINE next == [r \in CompletedOccurrences' |->
                          IF r \in CompletedOccurrences THEN by[r] ELSE o]
    <3>5. next \in [CompletedOccurrences' -> FinishedOrders']
      BY <3>1, <3>2, <3>4
    <3>6. ASSUME NEW r \in CompletedOccurrences', NEW q \in CompletedOccurrences',
                 next[r] = next[q]
          PROVE  r = q
      <4>1. CASE r \in CompletedOccurrences /\ q \in CompletedOccurrences
        BY <3>1, <3>6, <4>1
      <4>2. CASE r \in CompletedOccurrences <=> q \notin CompletedOccurrences
        BY <3>1, <3>4, <3>6, <4>2
      <4>3. CASE r \notin CompletedOccurrences /\ q \notin CompletedOccurrences
        <5>1. occurrence[r].order = o /\ occurrence[q].order = o
              /\ r \in PlanRequests /\ q \in PlanRequests
          BY <3>4, <4>3
        <5> QED BY <5>1, RowsAssumption DEF IInv, PlanPart, OccurrencesLinked
      <4> QED BY <4>1, <4>2, <4>3
    <3> HIDE DEF next
    <3> QED BY <3>5, <3>6 DEF BackedByWork
  <2>6. packing' = None
    BY <1>1 DEF UpdateWorkOrder, Idle
  <2> QED BY <2>2, <2>4, <2>5, <2>6 DEF PlanPart, PackingLinked
<1> QED BY <1>1, <1>4, <1>6, <1>7, OtherTablesStay DEF IInv

(* update_work_order with another source or another is_preventive. *)
LEMMA OrderSourceUpdates ==
    ASSUME IInv, NEW o \in Orders, NEW source \in Requests \cup {None},
           NEW preventive \in BOOLEAN, UpdateWorkOrderSource(o, source, preventive)
    PROVE  IInv'
<1>1. UNCHANGED <<request, task, step, occurrence>> /\ packing' = None
  BY DEF UpdateWorkOrderSource, Idle
<1>2. PICK row : row = [order[o] EXCEPT !.source = source, !.preventive = preventive]
  OBVIOUS
<1>3. /\ order[o] \in OrderRows /\ OrderStamps(order[o])
      /\ source # None => request[source] # None
      /\ order' = [order EXCEPT ![o] = row]
  BY <1>2 DEF UpdateWorkOrderSource, IInv, OrderPart
<1>4. /\ row \in OrderRows /\ row.source = source /\ row.status = order[o].status
      /\ row.started = order[o].started /\ row.ended = order[o].ended
      /\ row.closed = order[o].closed
  BY <1>2, <1>3 DEF OrderRows
<1>5. OrderStamps(row)
  BY <1>3, <1>4 DEF OrderStamps
<1>6. OrderPart' /\ OrdersKept
  BY <1>3, <1>4, <1>5, OrderWritten DEF IInv
<1>7. \A x \in Orders : order'[x] = IF x = o THEN row ELSE order[x]
  BY <1>3 DEF IInv, OrderPart
<1>8. RequestPart'
  BY <1>1, <1>3, <1>4, <1>7 DEF IInv, RequestPart, SourcesExist
<1>9. PlanPart'
  BY <1>1, <1>6, OtherTablesStay, PlanStays DEF IInv
<1> QED BY <1>1, <1>6, <1>8, <1>9, OtherTablesStay DEF IInv

(* Whatever writes one task row and leaves orders and requests alone keeps the invariant,
   whether the steps are left alone or one of them is written with it. *)
LEMMA TaskKeepsRest ==
    ASSUME IInv, TaskPart', TasksKept, StepPart',
           UNCHANGED <<request, order, occurrence>>,
           \/ packing' = packing
           \/ /\ packing # None /\ packing' = [packing EXCEPT !.at = @ + 1]
              /\ packing.at <= Len(Package)
    PROVE  IInv'
<1>1. RequestPart' /\ OrderPart' /\ OrdersKept
  BY OtherTablesStay
<1>2. PlanPart'
  <2>1. CASE packing' = packing
    BY <2>1, OtherTablesStay
  <2>2. CASE packing # None /\ packing' # packing
    <3>1. /\ packing \in [order : Orders, at : 1..Len(Package) + 1]
          /\ packing.at <= Len(Package)
          /\ packing' = [packing EXCEPT !.at = @ + 1]
      BY <2>2 DEF IInv, PlanPart
    <3>2. Len(Package) \in Nat
      BY ExecutionAssumption
    <3>3. packing.at + 1 \in 1..Len(Package) + 1
      BY <3>1, <3>2
    <3>4. /\ packing' \in [order : Orders, at : 1..Len(Package) + 1]
          /\ packing'.order = packing.order
      BY <3>1, <3>3
    <3>5. PackingLinked' /\ OccurrencesLinked'
      BY <2>2, <3>4 DEF IInv, PlanPart, PackingLinked, OccurrencesLinked, MadeFrom
    <3>6. BackedByWork'
      <4>1. CompletedOccurrences' = CompletedOccurrences
        BY DEF CompletedOccurrences
      <4> QED BY <1>1, <4>1, BackingStays DEF IInv, PlanPart
    <3> QED BY <3>4, <3>5, <3>6 DEF IInv, PlanPart
  <2> QED BY <2>1, <2>2
<1> QED BY <1>1, <1>2 DEF IInv

(* A task added to an order under the next free number. *)
LEMMA TaskAdded ==
    ASSUME IInv, NEW t \in Tasks, NEW o \in Orders, NEW seq \in 1..MaxNumber,
           NEW rule \in Rules, NEW mandatory \in BOOLEAN, NEW e \in Employees,
           AddTask(t, o, seq, rule, mandatory, e)
    PROVE  TaskPart' /\ TasksKept
<1> DEFINE row == [order |-> o, seq |-> seq, status |-> "NOT_STARTED", rule |-> rule,
                   mandatory |-> mandatory, assigned |-> e, minutes |-> 0, ended |-> FALSE]
<1>1. row \in TaskRows /\ TaskStamps(row)
  BY ExecutionAssumption DEF TaskRows, TaskNext, TaskStamps
<1>2. task' = [task EXCEPT ![t] = row] /\ task[t] = None
  BY DEF AddTask
<1>3. \A x \in TasksOf(row.order) \ {t} : task[x].seq # row.seq
  BY DEF AddTask
<1> HIDE DEF row
<1> QED BY <1>1, <1>2, <1>3, TaskWritten DEF IInv

(* The number create_task gives a task is a sequence number. *)
LEMMA SeqsBounded ==
    ASSUME IInv, NEW o \in Orders
    PROVE  HighestSeq(o) \in 0..MaxNumber
<1>1. {0} \cup {task[t].seq : t \in TasksOf(o)} \in SUBSET (0..MaxNumber)
  BY ExecutionAssumption DEF IInv, TaskPart, TasksOf, TaskRows
<1>2. MaxNumber \in Nat
  BY ExecutionAssumption
<1> QED BY <1>1, <1>2, Highest DEF HighestSeq

(* The highest step number of a task is a number within the bound. *)
LEMMA NumbersBounded ==
    ASSUME IInv, NEW t \in Tasks
    PROVE  HighestNumber(t) \in 0..MaxNumber
<1>1. {0} \cup {step[s].number : s \in StepsOf(t)} \in SUBSET (0..MaxNumber)
  BY ExecutionAssumption DEF IInv, StepPart, StepsOf, StepRows
<1>2. MaxNumber \in Nat
  BY ExecutionAssumption
<1> QED BY <1>1, <1>2, Highest DEF HighestNumber

(* create_task. *)
LEMMA TaskCreated ==
    ASSUME IInv, NEW t \in Tasks, NEW o \in Orders, NEW rule \in Rules,
           NEW mandatory \in BOOLEAN, NEW e \in Employees,
           CreateTask(t, o, rule, mandatory, e)
    PROVE  IInv'
<1>1. HighestSeq(o) + 1 \in 1..MaxNumber
  BY SeqsBounded, ExecutionAssumption DEF CreateTask
<1>2. PICK seq \in 1..MaxNumber : AddTask(t, o, seq, rule, mandatory, e)
  BY <1>1 DEF CreateTask
<1>3. TaskPart' /\ TasksKept
  BY <1>2, TaskAdded
<1>4. UNCHANGED <<request, order, step, occurrence, packing>>
  BY DEF CreateTask
<1> QED BY <1>3, <1>4, StepsStay, TaskKeepsRest DEF IInv

(* The item being created is one of the package. *)
LEMMA ItemOfPackage ==
    ASSUME IInv, packing # None, packing.at <= Len(Package)
    PROVE  Item \in [seq : 1..MaxNumber, number : 0..MaxNumber]
<1>1. Package \in Seq([seq : 1..MaxNumber, number : 0..MaxNumber])
  BY ExecutionAssumption
<1>2. packing.at \in 1..Len(Package)
  BY <1>1 DEF IInv, PlanPart
<1> HIDE DEF IInv
<1>3. Package[packing.at] \in [seq : 1..MaxNumber, number : 0..MaxNumber]
  BY <1>1, <1>2, ElementOfSeq, Zenon
<1> QED BY <1>3 DEF Item

(* A task that generate_from_package adds to the order of its run. *)
LEMMA TaskPacked ==
    ASSUME IInv, NEW t \in Tasks, PackTask(t)
    PROVE  IInv'
<1> DEFINE rule == IF HasSteps(Item.seq) THEN "ALL_STEPS_REQUIRED" ELSE "NO_STEPS_REQUIRED"
<1>1. packing # None /\ packing.order \in Orders /\ packing.at <= Len(Package)
  BY DEF PackTask, Idle, IInv, PlanPart
<1>2. Item.seq \in 1..MaxNumber
  BY <1>1, ItemOfPackage
<1>3. rule \in Rules
  BY DEF Rules
<1>4. AddTask(t, packing.order, Item.seq, rule, TRUE, None)
  BY DEF PackTask
<1> HIDE DEF rule
<1>5. PICK o \in Orders, seq \in 1..MaxNumber : AddTask(t, o, seq, rule, TRUE, None)
  BY <1>1, <1>2, <1>4
<1>6. TaskPart' /\ TasksKept
  BY <1>3, <1>5, TaskAdded, RowsAssumption
<1>7. /\ UNCHANGED <<request, order, step, occurrence>>
      /\ packing' = [packing EXCEPT !.at = @ + 1] /\ packing.at <= Len(Package)
  BY DEF PackTask, Advance
<1> QED BY <1>1, <1>6, <1>7, StepsStay, TaskKeepsRest DEF IInv

(* update_task with a new status. *)
LEMMA TaskStatusUpdated ==
    ASSUME IInv, NEW t \in Tasks, NEW status \in DOMAIN TaskNext,
           UpdateTaskStatus(t, status)
    PROVE  IInv'
<1>1. UNCHANGED <<request, order, step, occurrence, packing>>
  BY DEF UpdateTaskStatus
<1>2. /\ task[t] \in TaskRows /\ task[t] # None /\ TaskStamps(task[t])
      /\ status \in TaskNext[task[t].status]
  BY DEF UpdateTaskStatus, IInv, TaskPart
<1>3. task[t].status \in DOMAIN TaskNext
  BY <1>2 DEF TaskRows
<1>4. status # "NOT_STARTED" /\ task[t].status \notin {"COMPLETED", "SKIPPED"}
  BY <1>2, <1>3, TaskTransitions
<1> DEFINE ended == task[t].ended \/ status \in {"COMPLETED", "SKIPPED"}
           row == [task[t] EXCEPT !.status = status, !.ended = ended]
<1>5. ended \in BOOLEAN /\ (ended <=> status \in {"COMPLETED", "SKIPPED"})
  BY <1>2, <1>4 DEF TaskStamps
<1>6. task' = [task EXCEPT ![t] = row]
  BY <1>2 DEF UpdateTaskStatus, IInv, TaskPart
<1> HIDE DEF ended
<1>7. /\ row \in TaskRows /\ row.order = task[t].order /\ row.seq = task[t].seq
      /\ row.status = status /\ row.ended = ended
  BY <1>2, <1>5 DEF TaskRows
<1> HIDE DEF row
<1>8. TaskStamps(row)
  BY <1>5, <1>7 DEF TaskStamps
<1>9. \A x \in TasksOf(row.order) \ {t} : task[x].seq # row.seq
  BY <1>2, <1>7 DEF IInv, TaskPart, SeqsUnique, TasksOf
<1>10. TaskPart' /\ TasksKept
  BY <1>4, <1>6, <1>7, <1>8, <1>9, TaskWritten DEF IInv
<1> QED BY <1>1, <1>10, StepsStay, TaskKeepsRest DEF IInv

(* update_task with new planning data. *)
LEMMA TaskPlanUpdated ==
    ASSUME IInv, NEW t \in Tasks, NEW seq \in 1..MaxNumber, NEW rule \in Rules,
           NEW mandatory \in BOOLEAN, NEW e \in Employees,
           UpdateTask(t, seq, rule, mandatory, e)
    PROVE  IInv'
<1>1. UNCHANGED <<request, order, step, occurrence, packing>>
  BY DEF UpdateTask
<1>2. task[t] \in TaskRows /\ task[t] # None /\ TaskStamps(task[t])
  BY DEF UpdateTask, IInv, TaskPart
<1> DEFINE row == [task[t] EXCEPT !.seq = seq, !.rule = rule, !.mandatory = mandatory,
                                  !.assigned = e]
<1>3. task' = [task EXCEPT ![t] = row]
  BY <1>2 DEF UpdateTask, IInv, TaskPart
<1>4. /\ row \in TaskRows /\ row.order = task[t].order /\ row.seq = seq
      /\ row.status = task[t].status /\ row.ended = task[t].ended
  BY <1>2 DEF TaskRows
<1> HIDE DEF row
<1>5. TaskStamps(row)
  BY <1>2, <1>4 DEF TaskStamps
<1>6. \A x \in TasksOf(row.order) \ {t} : task[x].seq # row.seq
  BY <1>4 DEF UpdateTask
<1>7. TaskPart' /\ TasksKept
  BY <1>3, <1>4, <1>5, <1>6, TaskWritten DEF IInv
<1> QED BY <1>1, <1>7, StepsStay, TaskKeepsRest DEF IInv

(* Labor booked on a task. *)
LEMMA LaborBooked ==
    ASSUME IInv, NEW t \in Tasks, NEW minutes \in 1..MaxMinutes,
           AddTaskLaborEntry(t, minutes)
    PROVE  IInv'
<1>1. UNCHANGED <<request, order, step, occurrence, packing>>
  BY DEF AddTaskLaborEntry
<1>2. task[t] \in TaskRows /\ task[t] # None /\ TaskStamps(task[t])
  BY DEF AddTaskLaborEntry, IInv, TaskPart
<1> DEFINE row == [task[t] EXCEPT !.minutes = @ + minutes]
<1>3. task' = [task EXCEPT ![t] = row] /\ task[t].minutes + minutes <= MaxMinutes
  BY <1>2 DEF AddTaskLaborEntry, IInv, TaskPart
<1>4. /\ row \in TaskRows /\ row.order = task[t].order /\ row.seq = task[t].seq
      /\ row.status = task[t].status /\ row.ended = task[t].ended
  BY <1>2, <1>3, ExecutionAssumption DEF TaskRows
<1> HIDE DEF row
<1>5. TaskStamps(row)
  BY <1>2, <1>4 DEF TaskStamps
<1>6. \A x \in TasksOf(row.order) \ {t} : task[x].seq # row.seq
  BY <1>2, <1>4 DEF IInv, TaskPart, SeqsUnique, TasksOf
<1>7. TaskPart' /\ TasksKept
  BY <1>3, <1>4, <1>5, <1>6, TaskWritten DEF IInv
<1> QED BY <1>1, <1>7, StepsStay, TaskKeepsRest DEF IInv

(* A step added to a task under the next free number. *)
LEMMA StepAdded ==
    ASSUME IInv, NEW s \in Steps, NEW t \in Tasks, NEW number \in 1..MaxNumber,
           NEW measure \in BOOLEAN, NEW confirm \in BOOLEAN, task[t] # None,
           AddStep(s, t, number, measure, confirm), UNCHANGED task
    PROVE  StepPart'
<1> DEFINE row == [task |-> t, number |-> number, status |-> "NOT_STARTED",
                   measure |-> measure, measured |-> FALSE,
                   confirm |-> confirm, confirmed |-> FALSE]
<1>1. row \in StepRows
  BY DEF StepRows, StepNext
<1>2. /\ row.task = t /\ row.status = "NOT_STARTED" /\ ~row.confirmed /\ row.number = number
      /\ step' = [step EXCEPT ![s] = row]
  BY DEF AddStep
<1>3. \A x \in StepsOf(row.task) \ {s} : step[x].number # row.number
  BY DEF AddStep
<1>4. TasksKept
  BY OtherTablesStay
<1> HIDE DEF row
<1> QED BY <1>1, <1>2, <1>3, <1>4, StepWritten DEF IInv

(* create_step. *)
LEMMA StepCreated ==
    ASSUME IInv, NEW s \in Steps, NEW t \in Tasks, NEW measure \in BOOLEAN,
           NEW confirm \in BOOLEAN, CreateStep(s, t, measure, confirm)
    PROVE  IInv'
<1>1. HighestNumber(t) + 1 \in 1..MaxNumber
  BY NumbersBounded, ExecutionAssumption DEF CreateStep
<1>2. PICK number \in 1..MaxNumber : AddStep(s, t, number, measure, confirm)
  BY <1>1 DEF CreateStep
<1>3. UNCHANGED <<request, order, task, occurrence, packing>> /\ task[t] # None
  BY DEF CreateStep
<1>4. StepPart'
  BY <1>2, <1>3, StepAdded
<1> QED BY <1>3, <1>4, OtherTablesStay, TaskKeepsRest

(* A step that generate_from_package adds to the task of its run. *)
LEMMA StepPacked ==
    ASSUME IInv, NEW s \in Steps, PackStep(s)
    PROVE  IInv'
<1>1. packing # None /\ packing.at <= Len(Package)
  BY DEF PackStep, Idle
<1>2. Item.number \in 1..MaxNumber
  BY <1>1, ItemOfPackage, ExecutionAssumption DEF PackStep
<1>3. PICK t \in TasksOf(packing.order) : AddStep(s, t, Item.number, FALSE, FALSE)
  BY DEF PackStep
<1>4. PICK number \in 1..MaxNumber : AddStep(s, t, number, FALSE, FALSE)
  BY <1>2, <1>3
<1>5. t \in Tasks /\ task[t] # None
  BY DEF TasksOf
<1>6. /\ UNCHANGED <<request, order, task, occurrence>>
      /\ packing' = [packing EXCEPT !.at = @ + 1]
  BY DEF PackStep, Advance
<1>7. StepPart'
  BY <1>4, <1>5, <1>6, StepAdded
<1> QED BY <1>1, <1>6, <1>7, OtherTablesStay, TaskKeepsRest

(* A step being edited, and the task it belongs to *)
LEMMA EditedStep ==
    ASSUME IInv, NEW s \in Steps, StepEditable(s)
    PROVE  /\ step[s] \in StepRows /\ step[s] # None
           /\ step[s].task \in Tasks /\ step[s].status \in DOMAIN StepNext
           /\ task[step[s].task] \in TaskRows /\ task[step[s].task] # None
           /\ step[s].confirmed => step[s].status = "DONE"
           /\ step[s].status = "IN_PROGRESS" => task[step[s].task].status # "NOT_STARTED"
           /\ \A x \in StepsOf(step[s].task) \ {s} : step[x].number # step[s].number
<1>1. step[s] \in StepRows /\ step[s] # None
  BY DEF StepEditable, IInv, StepPart
<1>2. step[s].task \in Tasks /\ step[s].status \in DOMAIN StepNext
  BY <1>1 DEF StepRows
<1>3. task[step[s].task] \in TaskRows /\ task[step[s].task] # None
  BY <1>1, <1>2 DEF IInv, StepPart, StepsHaveTasks, TaskPart
<1>4. /\ step[s].confirmed => step[s].status = "DONE"
      /\ step[s].status = "IN_PROGRESS" => task[step[s].task].status # "NOT_STARTED"
  BY <1>1 DEF IInv, StepPart, ConfirmedAreDone, StartedStepHasStartedTask
<1>5. \A x \in StepsOf(step[s].task) \ {s} : step[x].number # step[s].number
  BY <1>1 DEF IInv, StepPart, NumbersUnique, StepsOf
<1> QED BY <1>1, <1>2, <1>3, <1>4, <1>5

(* confirm_step. *)
LEMMA StepConfirmed ==
    ASSUME IInv, NEW s \in Steps, NEW confirmed \in BOOLEAN, ConfirmStep(s, confirmed)
    PROVE  IInv'
<1>1. UNCHANGED <<request, order, task, occurrence, packing>> /\ StepEditable(s)
  BY DEF ConfirmStep
<1> DEFINE row == [step[s] EXCEPT !.confirmed = confirmed]
<1>2. step' = [step EXCEPT ![s] = row] /\ (confirmed => step[s].status = "DONE")
  BY <1>1, EditedStep DEF ConfirmStep, Confirmable, IInv, StepPart
<1>3. /\ row \in StepRows /\ row.task = step[s].task /\ row.number = step[s].number
      /\ row.status = step[s].status /\ row.confirmed = confirmed
  BY <1>1, EditedStep DEF StepRows
<1> HIDE DEF row
<1>4. TasksKept
  BY <1>1, OtherTablesStay
<1>5. StepPart'
  BY <1>1, <1>2, <1>3, <1>4, EditedStep, StepWritten DEF IInv
<1> QED BY <1>1, <1>5, OtherTablesStay, TaskKeepsRest

(* update_step with new planning data. *)
LEMMA StepPlanUpdated ==
    ASSUME IInv, NEW s \in Steps, NEW measure \in BOOLEAN, NEW measured \in BOOLEAN,
           NEW confirm \in BOOLEAN, UpdateStep(s, measure, measured, confirm)
    PROVE  IInv'
<1>1. UNCHANGED <<request, order, task, occurrence, packing>> /\ StepEditable(s)
  BY DEF UpdateStep
<1> DEFINE row == [step[s] EXCEPT !.measure = measure, !.measured = measured,
                                  !.confirm = confirm]
<1>2. step' = [step EXCEPT ![s] = row]
  BY <1>1, EditedStep DEF UpdateStep, IInv, StepPart
<1>3. /\ row \in StepRows /\ row.task = step[s].task /\ row.number = step[s].number
      /\ row.status = step[s].status /\ row.confirmed = step[s].confirmed
  BY <1>1, EditedStep DEF StepRows
<1> HIDE DEF row
<1>4. TasksKept
  BY <1>1, OtherTablesStay
<1>5. StepPart'
  BY <1>1, <1>2, <1>3, <1>4, EditedStep, StepWritten DEF IInv
<1> QED BY <1>1, <1>5, OtherTablesStay, TaskKeepsRest

(* update_step with a new status, which may start the task of the step. *)
LEMMA StepStatusUpdated ==
    ASSUME IInv, NEW s \in Steps, NEW status \in DOMAIN StepNext, NEW measured \in BOOLEAN,
           UpdateStepStatus(s, status, measured)
    PROVE  IInv'
<1>1. UNCHANGED <<request, order, occurrence, packing>> /\ StepEditable(s)
  BY DEF UpdateStepStatus
<1> DEFINE t == step[s].task
<1>2. TaskPart' /\ TasksKept /\ task'[t] # None
      /\ (status = "IN_PROGRESS" => task'[t].status # "NOT_STARTED")
  <2>1. task' = TaskStarted(t, status) /\ t \in Tasks /\ task[t] \in TaskRows /\ task[t] # None
    BY <1>1, EditedStep DEF UpdateStepStatus
  <2> HIDE DEF t
  <2>2. CASE status = "IN_PROGRESS" /\ task[t].status = "NOT_STARTED"
    <3> DEFINE row == [task[t] EXCEPT !.status = "IN_PROGRESS"]
    <3>1. task' = [task EXCEPT ![t] = row]
      BY <2>1, <2>2 DEF TaskStarted, IInv, TaskPart
    <3>2. /\ row \in TaskRows /\ row.order = task[t].order /\ row.seq = task[t].seq
          /\ row.status = "IN_PROGRESS" /\ row.ended = task[t].ended
      BY <2>1 DEF TaskRows, TaskNext
    <3> HIDE DEF row
    <3>3. TaskStamps(task[t])
      BY <2>1 DEF IInv, TaskPart
    <3>4. TaskStamps(row)
      BY <2>2, <3>2, <3>3 DEF TaskStamps
    <3>5. \A x \in TasksOf(row.order) \ {t} : task[x].seq # row.seq
      BY <2>1, <3>2 DEF IInv, TaskPart, SeqsUnique, TasksOf
    <3>6. TaskPart' /\ TasksKept
      BY <2>1, <3>1, <3>2, <3>4, <3>5, TaskWritten DEF IInv
    <3>7. task'[t] = row
      BY <2>1, <3>1 DEF IInv, TaskPart
    <3> QED BY <3>2, <3>6, <3>7, RowsAssumption
  <2>3. CASE ~(status = "IN_PROGRESS" /\ task[t].status = "NOT_STARTED")
    <3>1. UNCHANGED task
      BY <2>1, <2>3 DEF TaskStarted
    <3> QED BY <2>1, <2>3, <3>1, OtherTablesStay
  <2> QED BY <2>2, <2>3
<1> DEFINE value == measured \/ step[s].measured
           confirmed == step[s].confirmed /\ status # "FAILED"
           row == [step[s] EXCEPT !.status = status, !.measured = value,
                                  !.confirmed = confirmed]
<1>3. status \in StepNext[step[s].status]
  BY DEF UpdateStepStatus
<1>4. step[s].status # "DONE"
  BY <1>1, <1>3, EditedStep, StepTransitions
<1>5. ~step[s].confirmed
  BY <1>1, <1>4, EditedStep
<1>6. value \in BOOLEAN /\ confirmed \in BOOLEAN /\ ~confirmed
  BY <1>5
<1>7. step' = [step EXCEPT ![s] = row]
  BY <1>1, EditedStep, Zenon DEF UpdateStepStatus, IInv, StepPart
<1> HIDE DEF value, confirmed
<1>8. /\ row \in StepRows /\ row.task = step[s].task /\ row.number = step[s].number
      /\ row.status = status /\ row.confirmed = confirmed
  BY <1>1, <1>6, EditedStep DEF StepRows
<1> HIDE DEF row
<1>9. StepPart'
  BY <1>1, <1>2, <1>6, <1>7, <1>8, EditedStep, StepWritten DEF IInv
<1> QED BY <1>1, <1>2, <1>9, TaskKeepsRest

(* The occurrence is linked to the order generated for it. *)
LEMMA Linked ==
    ASSUME IInv, LinkOccurrence
    PROVE  IInv'
<1>1. UNCHANGED <<request, order, task, step>> /\ packing' = None /\ packing # None
  BY DEF LinkOccurrence, Idle
<1>2. PICK r \in PlanRequests : MadeFrom(packing.order, r) /\ request[r] = "CONVERTED"
  BY <1>1 DEF IInv, PlanPart, PackingLinked
<1>3. packing.order \in Orders
  BY <1>1 DEF IInv, PlanPart
<1>4. occurrence' = [occurrence EXCEPT ![r].order = packing.order]
  BY <1>2 DEF LinkOccurrence, MadeFrom
<1>5. ASSUME NEW q \in PlanRequests
      PROVE  /\ occurrence'[q] \in Occurrences
             /\ occurrence'[q].completed = occurrence[q].completed
             /\ occurrence'[q].order = IF q = r THEN packing.order ELSE occurrence[q].order
  BY <1>3, <1>4 DEF IInv, PlanPart, Occurrences
<1>6. occurrence' \in [PlanRequests -> Occurrences]
  BY <1>4, <1>5 DEF IInv, PlanPart
<1>7. OccurrencesLinked'
  BY <1>1, <1>2, <1>5 DEF IInv, PlanPart, OccurrencesLinked, PackingLinked, MadeFrom
<1>8. BackedByWork'
  <2>1. CompletedOccurrences' = CompletedOccurrences
    BY <1>5 DEF CompletedOccurrences
  <2> QED BY <1>1, <2>1, OtherTablesStay, BackingStays DEF IInv, PlanPart
<1>9. PlanPart'
  BY <1>1, <1>6, <1>7, <1>8 DEF PlanPart, PackingLinked
<1> QED BY <1>1, <1>9, OtherTablesStay DEF IInv

(* A generation that ends halfway. *)
LEMMA Failed ==
    ASSUME IInv, PackingFails
    PROVE  IInv'
<1>1. UNCHANGED <<request, order, task, step, occurrence>> /\ packing' = None
  BY DEF PackingFails
<1>2. PlanPart'
  BY <1>1, OtherTablesStay, PlanStays DEF IInv
<1> QED BY <1>1, <1>2, OtherTablesStay DEF IInv

-----------------------------------------------------------------------------
(* Every operation of the services keeps the invariant. *)
LEMMA IInvStep ==
    ASSUME IInv, [Next]_vars
    PROVE  IInv'
<1>1. CASE UNCHANGED vars
  BY <1>1, OtherTablesStay DEF vars, IInv
<1>2. ASSUME NEW r \in Requests,
             CreateWorkRequest(r)
             \/ \E status \in DOMAIN RequestNext : UpdateWorkRequest(r, status)
      PROVE  IInv'
  BY <1>2, RequestChanges
<1>3. ASSUME NEW r \in Requests, NEW o \in Orders, CreateOrderFromRequest(o, r)
      PROVE  IInv'
  BY <1>3, OrderFromRequest
<1>4. ASSUME NEW o \in Orders, CreateManualOrder(o)
      PROVE  IInv'
  BY <1>4, ManualOrder
<1>5. ASSUME NEW o \in Orders, NEW status \in DOMAIN OrderNext, UpdateWorkOrder(o, status)
      PROVE  IInv'
  BY <1>5, OrderUpdates
<1>5a. ASSUME NEW o \in Orders, NEW source \in Requests \cup {None}, NEW preventive \in BOOLEAN,
              UpdateWorkOrderSource(o, source, preventive)
       PROVE  IInv'
  BY <1>5a, OrderSourceUpdates
<1>6. ASSUME NEW t \in Tasks, NEW o \in Orders, NEW rule \in Rules,
             NEW mandatory \in BOOLEAN, NEW e \in Employees,
             CreateTask(t, o, rule, mandatory, e)
      PROVE  IInv'
  BY <1>6, TaskCreated
<1>7. ASSUME NEW t \in Tasks, NEW status \in DOMAIN TaskNext, UpdateTaskStatus(t, status)
      PROVE  IInv'
  BY <1>7, TaskStatusUpdated
<1>8. ASSUME NEW t \in Tasks, NEW seq \in 1..MaxNumber, NEW rule \in Rules,
             NEW mandatory \in BOOLEAN, NEW e \in Employees,
             UpdateTask(t, seq, rule, mandatory, e)
      PROVE  IInv'
  BY <1>8, TaskPlanUpdated
<1>9. ASSUME NEW t \in Tasks, NEW minutes \in 1..MaxMinutes, AddTaskLaborEntry(t, minutes)
      PROVE  IInv'
  BY <1>9, LaborBooked
<1>10. ASSUME NEW t \in Tasks, PackTask(t)
       PROVE  IInv'
  BY <1>10, TaskPacked
<1>11. ASSUME NEW s \in Steps, NEW t \in Tasks, NEW measure \in BOOLEAN,
              NEW confirm \in BOOLEAN, CreateStep(s, t, measure, confirm)
       PROVE  IInv'
  BY <1>11, StepCreated
<1>12. ASSUME NEW s \in Steps, NEW status \in DOMAIN StepNext, NEW measured \in BOOLEAN,
              UpdateStepStatus(s, status, measured)
       PROVE  IInv'
  BY <1>12, StepStatusUpdated
<1>13. ASSUME NEW s \in Steps, NEW confirmed \in BOOLEAN, ConfirmStep(s, confirmed)
       PROVE  IInv'
  BY <1>13, StepConfirmed
<1>14. ASSUME NEW s \in Steps, NEW measure \in BOOLEAN, NEW measured \in BOOLEAN,
              NEW confirm \in BOOLEAN, UpdateStep(s, measure, measured, confirm)
       PROVE  IInv'
  BY <1>14, StepPlanUpdated
<1>15. ASSUME NEW s \in Steps, PackStep(s)
       PROVE  IInv'
  BY <1>15, StepPacked
<1>16. CASE LinkOccurrence
  BY <1>16, Linked
<1>17. CASE PackingFails
  BY <1>17, Failed
<1> QED BY <1>1, <1>2, <1>3, <1>4, <1>5, <1>5a, <1>6, <1>7, <1>8, <1>9, <1>10, <1>11,
           <1>12, <1>13, <1>14, <1>15, <1>16, <1>17 DEF Next

(* The inductive invariant of work orders, tasks, steps and generated packages holds. *)
THEOREM WorkInvariant == Spec => []IInv
<1>1. Init => IInv
  BY IInvInit
<1>2. IInv /\ [Next]_vars => IInv'
  BY IInvStep
<1> QED BY <1>1, <1>2, PTL DEF Spec

(* WorkConsistent, for every package: the rows of an order, its tasks and steps agree with
   each other and with their time stamps, whatever the services do in whatever order and
   wherever the creation of a package ends. *)
THEOREM WorkStaysConsistent == Spec => []WorkConsistent
<1>1. IInv => WorkConsistent
  BY PartsAreProperties
<1> QED BY <1>1, WorkInvariant, PTL

(* ConversionTraced, for every set of requests and orders: an occurrence waits for an
   order of its own whose request was converted, and every completed one has a finished
   order that completed no other, whatever orders are turned to afterwards. *)
THEOREM ConversionsTraced == Spec => []ConversionTraced
<1>1. IInv => ConversionTraced
  BY PartsAreProperties
<1> QED BY <1>1, WorkInvariant, PTL

-----------------------------------------------------------------------------
(* While no order is turned to another request *)

LinksFollowSource ==
    \A r \in PlanRequests : occurrence[r].order # None => MadeFrom(occurrence[r].order, r)

SourceInv == SourcesConverted /\ LinksFollowSource /\ OccurrenceNeedsFinishedWork

(* What a step may do to requests, the sources of new orders and occurrences. *)
NewSourcesConverted ==
    \A o \in Orders : (/\ order[o] = None /\ order'[o] # None
                        /\ order'[o].source # None)
                       => request'[order'[o].source] = "CONVERTED"

LinksFromSource ==
    \A r \in PlanRequests :
        \/ occurrence'[r].order = occurrence[r].order
        \/ order[occurrence'[r].order] # None /\ order[occurrence'[r].order].source = r

CompletedByFinishing ==
    \A r \in PlanRequests : occurrence'[r].completed =>
        \/ occurrence[r].completed
        \/ /\ occurrence[r].order # None
           /\ order'[occurrence[r].order] # None
           /\ order'[occurrence[r].order].status \in Finished

StepTraced == /\ RequestsKept /\ OrdersKept
              /\ NewSourcesConverted /\ LinksFromSource /\ CompletedByFinishing

(* A step that leaves requests, orders and occurrences alone. *)
LEMMA TracedWhenAlone ==
    ASSUME IInv, UNCHANGED <<request, order, occurrence>>
    PROVE  StepTraced
BY OtherTablesStay DEF StepTraced, NewSourcesConverted, LinksFromSource, CompletedByFinishing

(* Every step of the services keeps requests, orders and occurrences connected. *)
LEMMA TracedStep ==
    ASSUME IInv, [Next]_vars
    PROVE  StepTraced
<1>1. ASSUME NEW r \in Requests,
             CreateWorkRequest(r)
             \/ \E status \in DOMAIN RequestNext : UpdateWorkRequest(r, status)
      PROVE  StepTraced
  <2>1. UNCHANGED <<order, occurrence>>
    BY <1>1 DEF CreateWorkRequest, UpdateWorkRequest
  <2>2. request[r] # "CONVERTED" /\ \A q \in Requests \ {r} : request'[q] = request[q]
    BY <1>1, RowsAssumption
       DEF CreateWorkRequest, UpdateWorkRequest, RequestNext, IInv, RequestPart
  <2>3. RequestsKept
    BY <2>2 DEF RequestsKept
  <2> QED BY <2>1, <2>3, OtherTablesStay
          DEF StepTraced, NewSourcesConverted, LinksFromSource, CompletedByFinishing
<1>2. ASSUME NEW r \in Requests, NEW o \in Orders, CreateOrderFromRequest(o, r)
      PROVE  StepTraced
  <2>1. /\ UNCHANGED occurrence /\ request' = [request EXCEPT ![r] = "CONVERTED"]
        /\ order' = [order EXCEPT ![o] = NewOrder(r)] /\ order[o] = None
    BY <1>2 DEF CreateOrderFromRequest, Converted
  <2>2. OrdersKept
    BY <2>1, NewOrderRow, OrderWritten DEF IInv
  <2>3. RequestsKept /\ NewSourcesConverted
    BY <2>1, NewOrderRow DEF IInv, RequestPart, OrderPart, RequestsKept, NewSourcesConverted
  <2> QED BY <2>1, <2>2, <2>3 DEF StepTraced, LinksFromSource, CompletedByFinishing
<1>3. ASSUME NEW o \in Orders, CreateManualOrder(o)
      PROVE  StepTraced
  <2>1. /\ UNCHANGED <<request, occurrence>>
        /\ order' = [order EXCEPT ![o] = NewOrder(None)] /\ order[o] = None
    BY <1>3 DEF CreateManualOrder
  <2>2. OrdersKept
    BY <2>1, NewOrderRow, OrderWritten DEF IInv
  <2>3. RequestsKept /\ NewSourcesConverted
    BY <2>1, NewOrderRow DEF IInv, OrderPart, RequestsKept, NewSourcesConverted
  <2> QED BY <2>1, <2>2, <2>3 DEF StepTraced, LinksFromSource, CompletedByFinishing
<1>4. ASSUME NEW o \in Orders, NEW status \in DOMAIN OrderNext, UpdateWorkOrder(o, status)
      PROVE  StepTraced
  <2>1. PICK row : row = Stamped(order[o], status)
    OBVIOUS
  <2>2. /\ order[o] \in OrderRows /\ OrderStamps(order[o]) /\ order[o] # None
        /\ status \in OrderNext[order[o].status]
        /\ order' = [order EXCEPT ![o] = row] /\ UNCHANGED request
    BY <1>4, <2>1 DEF UpdateWorkOrder, IInv, OrderPart
  <2>3. /\ row \in OrderRows /\ OrderStamps(row) /\ row.status = status
        /\ order[o].status \in Finished => row.status \in Finished
    BY <2>1, <2>2, StampedRow
  <2>4. OrdersKept
    BY <2>2, <2>3, OrderWritten DEF IInv
  <2>5. \A x \in Orders : order'[x] = IF x = o THEN row ELSE order[x]
    BY <2>2 DEF IInv, OrderPart
  <2>6. RequestsKept /\ NewSourcesConverted
    BY <2>2, <2>5 DEF RequestsKept, NewSourcesConverted
  <2>7. ASSUME NEW r \in PlanRequests
        PROVE  /\ occurrence'[r].order = occurrence[r].order
               /\ occurrence'[r].completed =>
                     occurrence[r].completed \/ (occurrence[r].order = o /\ status \in Finished)
    BY <1>4 DEF UpdateWorkOrder, Completion, CompletedFor, IInv, PlanPart, Occurrences
  <2>8. LinksFromSource /\ CompletedByFinishing
    BY <2>3, <2>5, <2>7, RowsAssumption DEF LinksFromSource, CompletedByFinishing
  <2> QED BY <2>4, <2>6, <2>8 DEF StepTraced
<1>5. ASSUME NEW o \in Orders, NEW source \in Requests \cup {None}, NEW preventive \in BOOLEAN,
             UpdateWorkOrderSource(o, source, preventive)
      PROVE  StepTraced
  <2>1. UNCHANGED <<request, occurrence>> /\ order[o] # None /\ order[o] \in OrderRows
    BY <1>5 DEF UpdateWorkOrderSource, IInv, OrderPart
  <2>2. PICK row : row = [order[o] EXCEPT !.source = source, !.preventive = preventive]
    OBVIOUS
  <2>3. order' = [order EXCEPT ![o] = row]
    BY <1>5, <2>2 DEF UpdateWorkOrderSource
  <2>4. row \in OrderRows /\ row.status = order[o].status
    BY <2>1, <2>2 DEF OrderRows
  <2>5. \A x \in Orders : order'[x] = IF x = o THEN row ELSE order[x]
    BY <2>3 DEF IInv, OrderPart
  <2>6. OrdersKept
    BY <2>4, <2>5, RowsAssumption DEF OrdersKept
  <2>7. RequestsKept /\ NewSourcesConverted
    BY <2>1, <2>5 DEF RequestsKept, NewSourcesConverted
  <2> QED BY <2>1, <2>6, <2>7 DEF StepTraced, LinksFromSource, CompletedByFinishing
<1>6. CASE LinkOccurrence
  <2>1. UNCHANGED <<request, order>> /\ packing # None
    BY <1>6 DEF LinkOccurrence, Idle
  <2>2. PICK r \in PlanRequests : MadeFrom(packing.order, r)
    BY <2>1 DEF IInv, PlanPart, PackingLinked
  <2>3. occurrence' = [occurrence EXCEPT ![r].order = packing.order]
    BY <1>6, <2>2 DEF LinkOccurrence, MadeFrom
  <2>4. ASSUME NEW q \in PlanRequests
        PROVE  /\ occurrence'[q].completed = occurrence[q].completed
               /\ occurrence'[q].order = IF q = r THEN packing.order ELSE occurrence[q].order
    BY <2>3 DEF IInv, PlanPart, Occurrences
  <2>5. LinksFromSource /\ CompletedByFinishing
    BY <2>2, <2>4 DEF LinksFromSource, CompletedByFinishing, MadeFrom
  <2>6. RequestsKept /\ OrdersKept /\ NewSourcesConverted
    BY <2>1, OtherTablesStay DEF NewSourcesConverted
  <2> QED BY <2>5, <2>6 DEF StepTraced
<1>7. ASSUME NEW t \in Tasks,
             \/ \E o \in Orders, rule \in Rules, mandatory \in BOOLEAN, e \in Employees :
                   CreateTask(t, o, rule, mandatory, e)
             \/ \E status \in DOMAIN TaskNext : UpdateTaskStatus(t, status)
             \/ \E seq \in 1..MaxNumber, rule \in Rules, mandatory \in BOOLEAN,
                   e \in Employees : UpdateTask(t, seq, rule, mandatory, e)
             \/ \E minutes \in 1..MaxMinutes : AddTaskLaborEntry(t, minutes)
             \/ PackTask(t)
      PROVE  StepTraced
  BY <1>7, TracedWhenAlone DEF CreateTask, UpdateTaskStatus, UpdateTask, AddTaskLaborEntry, PackTask
<1>8. ASSUME NEW s \in Steps,
             \/ \E t \in Tasks, measure, confirm \in BOOLEAN : CreateStep(s, t, measure, confirm)
             \/ \E status \in DOMAIN StepNext, measured \in BOOLEAN :
                   UpdateStepStatus(s, status, measured)
             \/ \E confirmed \in BOOLEAN : ConfirmStep(s, confirmed)
             \/ \E measure, measured, confirm \in BOOLEAN :
                   UpdateStep(s, measure, measured, confirm)
             \/ PackStep(s)
      PROVE  StepTraced
  BY <1>8, TracedWhenAlone DEF CreateStep, UpdateStepStatus, ConfirmStep, UpdateStep, PackStep
<1>9. CASE PackingFails \/ UNCHANGED vars
  BY <1>9, TracedWhenAlone DEF PackingFails, vars
<1> QED BY <1>1, <1>2, <1>3, <1>4, <1>5, <1>6, <1>7, <1>8, <1>9 DEF Next

(* A step that keeps the sources of orders keeps what follows from them. *)
LEMMA SourcesStep ==
    ASSUME IInv, SourceInv, [Next]_vars, SourcesKept
    PROVE  SourceInv'
<1>1. /\ RequestsKept /\ OrdersKept /\ NewSourcesConverted /\ LinksFromSource
      /\ CompletedByFinishing
  BY TracedStep DEF StepTraced
<1>2. \A o \in Orders : order[o] # None => order[o].source \in Requests \cup {None}
  BY DEF IInv, OrderPart, OrderRows
<1>3. ASSUME NEW r \in PlanRequests
      PROVE  occurrence[r].order \in Orders \cup {None} /\ occurrence'[r].order \in Orders \cup {None}
  <2>1. IInv'
    BY IInvStep
  <2> QED BY <2>1 DEF IInv, PlanPart, Occurrences
<1>4. SourcesConverted'
  BY <1>1, <1>2 DEF SourceInv, SourcesConverted, SourcesKept, RequestsKept, NewSourcesConverted
<1>5. LinksFollowSource'
  BY <1>1, <1>3 DEF SourceInv, LinksFollowSource, MadeFrom, SourcesKept, OrdersKept, LinksFromSource
<1>6. OccurrenceNeedsFinishedWork'
  <2> SUFFICES ASSUME NEW r \in PlanRequests, occurrence'[r].completed
               PROVE  \E o \in Orders : /\ order'[o] # None
                                        /\ order'[o].source = r
                                        /\ order'[o].status \in Finished
    BY DEF OccurrenceNeedsFinishedWork
  <2>1. CASE occurrence[r].completed
    BY <1>1, <2>1 DEF SourceInv, OccurrenceNeedsFinishedWork, OrdersKept, SourcesKept
  <2>2. CASE ~occurrence[r].completed
    <3>1. PICK o : o = occurrence[r].order
      OBVIOUS
    <3>2. o # None /\ order'[o] # None /\ order'[o].status \in Finished
      BY <1>1, <2>2, <3>1 DEF CompletedByFinishing
    <3>3. o \in Orders /\ order[o] # None /\ order[o].source = r
      BY <1>3, <3>1, <3>2 DEF SourceInv, LinksFollowSource, MadeFrom
    <3>4. order'[o].source = r
      BY <3>3 DEF SourcesKept
    <3> QED BY <3>2, <3>3, <3>4
  <2> QED BY <2>1, <2>2
<1> QED BY <1>4, <1>5, <1>6 DEF SourceInv

(* While no update_work_order turns an order to another request, a request with an order
   stays CONVERTED, and an occurrence of a plan is completed only by finished work of its
   own request (create_work_order, _apply_preventive_completion). *)
THEOREM SourcesTraced ==
    Spec /\ [][SourcesKept]_vars => [](SourcesConverted /\ OccurrenceNeedsFinishedWork)
<1>1. Init => SourceInv
  BY RowsAssumption
     DEF Init, SourceInv, SourcesConverted, LinksFollowSource, OccurrenceNeedsFinishedWork
<1>2. IInv /\ SourceInv /\ [Next]_vars /\ [SourcesKept]_vars => SourceInv'
  <2>1. UNCHANGED vars => SourcesKept
    BY DEF vars, SourcesKept
  <2> QED BY <2>1, SourcesStep
<1>3. SourceInv => SourcesConverted /\ OccurrenceNeedsFinishedWork
  BY DEF SourceInv
<1> QED BY <1>1, <1>2, <1>3, WorkInvariant, PTL DEF Spec

-----------------------------------------------------------------------------
(* Finished orders *)

(* What a step leaves of task t, whose order is finished, and of its steps *)
TaskFrozen(t) == /\ task[t] # None
                 /\ [task'[t] EXCEPT !.minutes = task[t].minutes] = task[t]
StepsFrozen(t) == \A s \in Steps : step'[s] # None => (step'[s].task = t => step'[s] = step[s])

(* A task whose row did not change is frozen. *)
LEMMA UnchangedTaskFrozen ==
    ASSUME IInv, NEW t \in Tasks, task'[t] = task[t], task'[t] # None
    PROVE  TaskFrozen(t)
<1>1. task[t] \in TaskRows
  BY DEF IInv, TaskPart
<1> QED BY <1>1 DEF TaskRows, TaskFrozen

(* Adding a task, which needs an open order, leaves the tasks of other orders frozen. *)
LEMMA FrozenByAddTask ==
    ASSUME IInv, NEW t \in Tasks, task'[t] # None, ~Mutable(task'[t].order),
           NEW x \in Tasks, NEW p, NEW seq, NEW rule, NEW mandatory, NEW e,
           AddTask(x, p, seq, rule, mandatory, e), UNCHANGED step
    PROVE  TaskFrozen(t) /\ StepsFrozen(t)
<1> DEFINE row == [order |-> p, seq |-> seq, status |-> "NOT_STARTED", rule |-> rule,
                   mandatory |-> mandatory, assigned |-> e, minutes |-> 0, ended |-> FALSE]
<1>1. task' = [task EXCEPT ![x] = row] /\ Mutable(p)
  BY DEF AddTask
<1>2. row.order = p
  OBVIOUS
<1> HIDE DEF row
<1>3. t # x
  BY <1>1, <1>2 DEF IInv, TaskPart
<1>4. task'[t] = task[t]
  BY <1>1, <1>3 DEF IInv, TaskPart
<1> QED BY <1>4, UnchangedTaskFrozen DEF StepsFrozen

(* Adding a step, which needs an open order, leaves the tasks of other orders frozen. *)
LEMMA FrozenByAddStep ==
    ASSUME IInv, NEW t \in Tasks, task'[t] # None, ~Mutable(task'[t].order),
           NEW s \in Steps, NEW x \in Tasks, NEW number, NEW measure, NEW confirm,
           AddStep(s, x, number, measure, confirm), UNCHANGED task
    PROVE  TaskFrozen(t) /\ StepsFrozen(t)
<1>1. TaskFrozen(t)
  BY UnchangedTaskFrozen
<1>2. Mutable(task[x].order) /\ x # t
  BY DEF AddStep
<1>3. \A y \in Steps : y # s => step'[y] = step[y]
  BY DEF AddStep, IInv, StepPart
<1>4. step'[s].task = x
  BY DEF AddStep, IInv, StepPart
<1> QED BY <1>1, <1>2, <1>3, <1>4 DEF StepsFrozen

(* Editing a step, which needs an open order, leaves the tasks of other orders frozen. *)
LEMMA FrozenByEdit ==
    ASSUME IInv, NEW t \in Tasks, task'[t] # None, ~Mutable(task'[t].order),
           NEW s \in Steps, StepEditable(s), NEW row, row.task = step[s].task,
           step' = [step EXCEPT ![s] = row],
           \A x \in Tasks \ {step[s].task} : task'[x] = task[x],
           task'[step[s].task].order = task[step[s].task].order
    PROVE  TaskFrozen(t) /\ StepsFrozen(t)
<1>1. Mutable(task[step[s].task].order) /\ t # step[s].task
  BY DEF StepEditable
<1>2. TaskFrozen(t)
  BY <1>1, UnchangedTaskFrozen
<1>3. \A y \in Steps : step'[y] = IF y = s THEN row ELSE step[y]
  BY DEF IInv, StepPart
<1> QED BY <1>1, <1>2, <1>3 DEF StepsFrozen

(* No step changes a task, or a step of a task, whose order is closed to work after it. *)
LEMMA FrozenStep ==
    ASSUME IInv, [Next]_vars, NEW t \in Tasks, task'[t] # None, ~Mutable(task'[t].order)
    PROVE  TaskFrozen(t) /\ StepsFrozen(t)
<1> DEFINE Frozen == TaskFrozen(t) /\ StepsFrozen(t)
<1>1. UNCHANGED <<task, step>> => Frozen
  BY UnchangedTaskFrozen DEF StepsFrozen
<1>2. ASSUME NEW x \in Tasks, NEW o \in Orders, NEW rule \in Rules,
             NEW mandatory \in BOOLEAN, NEW e \in Employees,
             CreateTask(x, o, rule, mandatory, e)
      PROVE  Frozen
  <2>1. PICK seq : AddTask(x, o, seq, rule, mandatory, e)
    BY <1>2 DEF CreateTask
  <2> QED BY <1>2, <2>1, FrozenByAddTask DEF CreateTask
<1>3. ASSUME NEW x \in Tasks, PackTask(x)
      PROVE  Frozen
  <2>1. PICK o, seq, rule : AddTask(x, o, seq, rule, TRUE, None)
    BY <1>3, Zenon DEF PackTask
  <2> QED BY <1>3, <2>1, FrozenByAddTask DEF PackTask
<1>4. ASSUME NEW x \in Tasks, NEW status \in DOMAIN TaskNext, UpdateTaskStatus(x, status)
      PROVE  Frozen
  <2>1. /\ \A y \in Tasks \ {x} : task'[y] = task[y]
        /\ task[x] \in TaskRows /\ Mutable(task[x].order) /\ UNCHANGED step
    BY <1>4 DEF UpdateTaskStatus, IInv, TaskPart
  <2>2. task'[x].order = task[x].order
    BY <1>4, <2>1 DEF UpdateTaskStatus, IInv, TaskPart, TaskRows
  <2> QED BY <2>1, <2>2, UnchangedTaskFrozen DEF StepsFrozen
<1>5. ASSUME NEW x \in Tasks, NEW seq \in 1..MaxNumber, NEW rule \in Rules,
             NEW mandatory \in BOOLEAN, NEW e \in Employees,
             UpdateTask(x, seq, rule, mandatory, e)
      PROVE  Frozen
  <2>1. /\ \A y \in Tasks \ {x} : task'[y] = task[y]
        /\ task[x] \in TaskRows /\ Mutable(task[x].order) /\ UNCHANGED step
    BY <1>5 DEF UpdateTask, IInv, TaskPart
  <2>2. task'[x].order = task[x].order
    BY <1>5, <2>1 DEF UpdateTask, IInv, TaskPart, TaskRows
  <2> QED BY <2>1, <2>2, UnchangedTaskFrozen DEF StepsFrozen
<1>6. ASSUME NEW x \in Tasks, NEW minutes \in 1..MaxMinutes, AddTaskLaborEntry(x, minutes)
      PROVE  Frozen
  <2>1. /\ task[x] \in TaskRows /\ UNCHANGED step
        /\ task' = [task EXCEPT ![x] = [task[x] EXCEPT !.minutes = @ + minutes]]
    BY <1>6 DEF AddTaskLaborEntry, IInv, TaskPart
  <2>2. [[task[x] EXCEPT !.minutes = @ + minutes] EXCEPT !.minutes = task[x].minutes] = task[x]
    BY <2>1 DEF TaskRows
  <2>3. CASE t = x
    BY <1>6, <2>1, <2>2, <2>3 DEF AddTaskLaborEntry, TaskFrozen, StepsFrozen, IInv, TaskPart
  <2>4. CASE t # x
    <3>1. task'[t] = task[t]
      BY <2>1, <2>4 DEF IInv, TaskPart
    <3> QED BY <2>1, <3>1, UnchangedTaskFrozen DEF StepsFrozen
  <2> QED BY <2>3, <2>4
<1>7. ASSUME NEW s \in Steps, NEW x \in Tasks, NEW measure \in BOOLEAN,
             NEW confirm \in BOOLEAN, CreateStep(s, x, measure, confirm)
      PROVE  Frozen
  <2>1. PICK number : AddStep(s, x, number, measure, confirm)
    BY <1>7 DEF CreateStep
  <2> QED BY <1>7, <2>1, FrozenByAddStep DEF CreateStep
<1>8. ASSUME NEW s \in Steps, PackStep(s)
      PROVE  Frozen
  <2>1. PICK x \in TasksOf(packing.order) : AddStep(s, x, Item.number, FALSE, FALSE)
    BY <1>8 DEF PackStep
  <2>2. x \in Tasks
    BY DEF TasksOf
  <2>3. PICK number : AddStep(s, x, number, FALSE, FALSE)
    BY <2>1
  <2> QED BY <1>8, <2>2, <2>3, FrozenByAddStep DEF PackStep
<1>9. ASSUME NEW s \in Steps, NEW status \in DOMAIN StepNext, NEW measured \in BOOLEAN,
             UpdateStepStatus(s, status, measured)
      PROVE  Frozen
  <2>1. StepEditable(s) /\ task' = TaskStarted(step[s].task, status)
    BY <1>9 DEF UpdateStepStatus
  <2>2. step[s] \in StepRows /\ step[s].task \in Tasks /\ task[step[s].task] \in TaskRows
    BY <2>1, EditedStep
  <2>3. PICK row : step' = [step EXCEPT ![s] = row] /\ row.task = step[s].task
    <3> DEFINE value == measured \/ step[s].measured
               confirmed == step[s].confirmed /\ status # "FAILED"
               row == [step[s] EXCEPT !.status = status, !.measured = value,
                                      !.confirmed = confirmed]
    <3>1. step' = [step EXCEPT ![s] = row]
      BY <1>9, <2>2, Zenon DEF UpdateStepStatus, IInv, StepPart
    <3> HIDE DEF value, confirmed
    <3>2. row.task = step[s].task
      BY <2>2 DEF StepRows
    <3> QED BY <3>1, <3>2
  <2>4. /\ \A x \in Tasks \ {step[s].task} : task'[x] = task[x]
        /\ task'[step[s].task].order = task[step[s].task].order
    BY <2>1, <2>2 DEF TaskStarted, IInv, TaskPart, TaskRows
  <2> QED BY <2>1, <2>3, <2>4, FrozenByEdit
<1>10. ASSUME NEW s \in Steps, NEW confirmed \in BOOLEAN, ConfirmStep(s, confirmed)
       PROVE  Frozen
  <2>1. StepEditable(s) /\ UNCHANGED task
    BY <1>10 DEF ConfirmStep
  <2>2. step[s] \in StepRows
    BY <2>1, EditedStep
  <2>3. PICK row : step' = [step EXCEPT ![s] = row] /\ row.task = step[s].task
    <3> DEFINE row == [step[s] EXCEPT !.confirmed = confirmed]
    <3>1. step' = [step EXCEPT ![s] = row] /\ row.task = step[s].task
      BY <1>10, <2>2 DEF ConfirmStep, IInv, StepPart, StepRows
    <3> QED BY <3>1
  <2> QED BY <2>1, <2>3, FrozenByEdit
<1>11. ASSUME NEW s \in Steps, NEW measure \in BOOLEAN, NEW measured \in BOOLEAN,
              NEW confirm \in BOOLEAN, UpdateStep(s, measure, measured, confirm)
       PROVE  Frozen
  <2>1. StepEditable(s) /\ UNCHANGED task
    BY <1>11 DEF UpdateStep
  <2>2. step[s] \in StepRows
    BY <2>1, EditedStep
  <2>3. PICK row : step' = [step EXCEPT ![s] = row] /\ row.task = step[s].task
    <3> DEFINE row == [step[s] EXCEPT !.measure = measure, !.measured = measured,
                                      !.confirm = confirm]
    <3>1. step' = [step EXCEPT ![s] = row] /\ row.task = step[s].task
      BY <1>11, <2>2 DEF UpdateStep, IInv, StepPart, StepRows
    <3> QED BY <3>1
  <2> QED BY <2>1, <2>3, FrozenByEdit
<1> HIDE DEF Frozen
<1>12. ASSUME NEW r \in Requests, NEW o \in Orders,
              CreateOrderFromRequest(o, r)
       PROVE  Frozen
  BY <1>1, <1>12 DEF CreateOrderFromRequest
<1>13. ASSUME NEW r \in Requests,
              \/ CreateWorkRequest(r)
              \/ \E status \in DOMAIN RequestNext : UpdateWorkRequest(r, status)
       PROVE  Frozen
  BY <1>1, <1>13 DEF CreateWorkRequest, UpdateWorkRequest
<1>14. ASSUME NEW o \in Orders,
              \/ CreateManualOrder(o)
              \/ \E status \in DOMAIN OrderNext : UpdateWorkOrder(o, status)
              \/ \E source \in Requests \cup {None}, preventive \in BOOLEAN :
                    UpdateWorkOrderSource(o, source, preventive)
       PROVE  Frozen
  BY <1>1, <1>14 DEF CreateManualOrder, UpdateWorkOrder, UpdateWorkOrderSource
<1>15. UNCHANGED vars \/ LinkOccurrence \/ PackingFails => Frozen
  BY <1>1 DEF vars, LinkOccurrence, PackingFails
<1>16. Frozen
  BY <1>2, <1>3, <1>4, <1>5, <1>6, <1>7, <1>8, <1>9, <1>10, <1>11, <1>12, <1>13, <1>14,
     <1>15 DEF Next
<1> QED BY <1>16 DEF Frozen

(* FinishedOrderFrozen: no service adds or changes a task or a step of a closed or
   cancelled order, but for booked labor. *)
THEOREM FinishedOrdersFrozen == Spec => FinishedOrderFrozen
<1>1. IInv /\ [Next]_vars =>
        [\A o \in Orders : order[o] # None =>
            (~Mutable(o) =>
               \A t \in Tasks :
                  task'[t] # None => (task'[t].order = o =>
                     /\ task[t] # None
                     /\ [task'[t] EXCEPT !.minutes = task[t].minutes] = task[t]
                     /\ \A s \in Steps : step'[s] # None =>
                           (step'[s].task = t => step'[s] = step[s])))]_vars
  BY FrozenStep DEF TaskFrozen, StepsFrozen
<1> QED BY <1>1, WorkInvariant, PTL DEF Spec, FinishedOrderFrozen

-----------------------------------------------------------------------------
(* The engine of preventive maintenance (Preventive) *)

(* The least member of a set of dates. *)
LEMMA MinOfDates ==
    ASSUME NEW S, S \subseteq Nat, S # {}
    PROVE  Min(S) \in S /\ \A x \in S : Min(S) <= x
BY LeastNumber DEF Min

(* Multiples of the frequency are dates. *)
LEMMA MultipleIsDate ==
    ASSUME NEW i \in Nat
    PROVE  i * Frequency \in Nat
BY PreventiveAssumption

Dates(first, count) == {first + i * Frequency : i \in 0..count - 1}

(* A horizon of dates starts with the first. *)
LEMMA DatesFrom ==
    ASSUME NEW first \in Nat, NEW count \in Nat \ {0}
    PROVE  /\ Dates(first, count) \subseteq Nat
           /\ first \in Dates(first, count)
           /\ \A x \in Dates(first, count) : first <= x
           /\ Min(Dates(first, count)) = first
<1>1. ASSUME NEW i \in 0..count - 1
      PROVE  first + i * Frequency \in Nat /\ first <= first + i * Frequency
  BY MultipleIsDate
<1>2. Dates(first, count) \subseteq Nat /\ \A x \in Dates(first, count) : first <= x
  BY <1>1 DEF Dates
<1>3. first \in Dates(first, count)
  <2>1. first = first + 0 * Frequency /\ 0 \in 0..count - 1
    BY PreventiveAssumption
  <2> QED BY <2>1 DEF Dates
<1>4. Min(Dates(first, count)) \in Dates(first, count)
      /\ Min(Dates(first, count)) <= first
  BY <1>2, <1>3, MinOfDates
<1> QED BY <1>2, <1>3, <1>4

(* The quotient and the counter it leads to. *)
LEMMA CounterPasses ==
    ASSUME NEW base \in Nat, NEW value \in Nat, value >= base
    PROVE  /\ base + ((value - base) \div Threshold + 1) * Threshold \in Nat
           /\ base + ((value - base) \div Threshold + 1) * Threshold > value
<1>1. PICK d \in Nat : d = value - base
  OBVIOUS
<1>2. PICK n \in Nat \ {0} : n = Threshold
  BY PreventiveAssumption
<1>3. PICK k \in Nat : k = d \div n
  BY <1>2
<1>4. d = (n * k) + (d % n) /\ d % n \in 0..n - 1
  BY <1>3
<1>5. (k + 1) * n = n * k + n
  OBVIOUS
<1>6. (k + 1) * n > d /\ (k + 1) * n \in Nat
  BY <1>4, <1>5
<1> QED BY <1>1, <1>2, <1>3, <1>6

-----------------------------------------------------------------------------
(* The engine's rows *)

(* The run that is under way and its work. *)
RunOK ==
    running # Unset =>
        LET last == work[Len(work)]
        IN  /\ running.tasks \subseteq last.tasks
            /\ last.due = running.due
            /\ last.recorded => running.tasks # {}
            /\ ~last.recorded /\ running.due # Unset =>
                  /\ plan.state.nextDue = running.due
                  /\ planned = Dates(running.due, plan.horizon)

(* Only calendar plans have occurrences. *)
NoDates == plan.mode # "CALENDAR" =>
               planned = {} /\ \A w \in DOMAIN work : work[w].due = Unset

EngineInv == RowsTyped /\ RunOK /\ NoDates

(* What a sync of the schedule makes. *)
LEMMA ScheduleSynced ==
    ASSUME RowsTyped, NEW due \in Nat \cup {Unset}
    PROVE  /\ FirstDue(due) \in Nat /\ Horizon(due) \subseteq Nat
           /\ Synced(due) \in Nat \cup {Unset}
           /\ plan.mode = "CALENDAR" =>
                 /\ Horizon(due) = Dates(FirstDue(due), plan.horizon)
                 /\ FirstDue(due) \in Horizon(due) /\ Min(Horizon(due)) = FirstDue(due)
                 /\ Synced(due) = FirstDue(due)
           /\ plan.mode # "CALENDAR" => Horizon(due) = planned /\ Synced(due) = due
<1>1. FirstDue(due) \in Nat /\ plan.horizon \in Nat \ {0} /\ planned \subseteq Nat
  <2>1. now \in Nat /\ plan \in PlanRows /\ planned \subseteq Nat
    BY PreventiveAssumption DEF RowsTyped, Times, Dues
  <2>2. plan.horizon \in Nat \ {0}
    BY <2>1, PreventiveAssumption DEF PlanRows
  <2> QED BY <2>1, <2>2, PreventiveAssumption DEF FirstDue
<1>2. CASE plan.mode = "CALENDAR"
  <2>1. Horizon(due) = Dates(FirstDue(due), plan.horizon)
    BY <1>2 DEF Horizon, Dates, UsesOccurrences
  <2>2. Synced(due) = FirstDue(due)
    BY <1>2 DEF Synced, UsesOccurrences
  <2> QED BY <1>1, <1>2, <2>1, <2>2, DatesFrom
<1>3. CASE plan.mode # "CALENDAR"
  BY <1>1, <1>3 DEF Horizon, Synced, UsesOccurrences
<1> QED BY <1>2, <1>3

(* Rows of work that are added or written. *)
LEMMA WorkAdded ==
    ASSUME NEW ws \in Seq(WorkRows), NEW row \in WorkRows
    PROVE  /\ Append(ws, row) \in Seq(WorkRows) /\ Len(Append(ws, row)) = Len(ws) + 1
           /\ DOMAIN Append(ws, row) = DOMAIN ws \cup {Len(ws) + 1}
           /\ Append(ws, row)[Len(ws) + 1] = row /\ Len(ws) + 1 \notin DOMAIN ws
           /\ \A w \in DOMAIN ws : Append(ws, row)[w] = ws[w]
<1>1. Append(ws, row) \in Seq(WorkRows) /\ Len(Append(ws, row)) = Len(ws) + 1
      /\ Append(ws, row)[Len(ws) + 1] = row
      /\ \A w \in 1..Len(ws) : Append(ws, row)[w] = ws[w]
  BY AppendProperties
<1>2. DOMAIN ws = 1..Len(ws) /\ DOMAIN Append(ws, row) = 1..Len(ws) + 1 /\ Len(ws) \in Nat
  BY <1>1
<1> QED BY <1>1, <1>2

LEMMA WorkWritten ==
    ASSUME NEW ws \in Seq(WorkRows), NEW k \in DOMAIN ws, NEW row \in WorkRows
    PROVE  /\ [ws EXCEPT ![k] = row] \in Seq(WorkRows)
           /\ Len([ws EXCEPT ![k] = row]) = Len(ws)
           /\ DOMAIN [ws EXCEPT ![k] = row] = DOMAIN ws
           /\ [ws EXCEPT ![k] = row][k] = row
           /\ \A w \in DOMAIN ws \ {k} : [ws EXCEPT ![k] = row][w] = ws[w]
<1>1. [ws EXCEPT ![k] = row] \in Seq(WorkRows) /\ Len([ws EXCEPT ![k] = row]) = Len(ws)
  BY ExceptSeq
<1> QED BY <1>1

(* The last piece of work. *)
LEMMA LastWork ==
    ASSUME RowsTyped, running # Unset
    PROVE  /\ Len(work) \in DOMAIN work /\ work[Len(work)] \in WorkRows
           /\ work \in Seq(WorkRows) /\ running \in Runs
BY DEF RowsTyped

(* The empty engine satisfies the invariant. *)
LEMMA EngineStarts ==
    ASSUME EngineInit
    PROVE  EngineInv
<1>1. PICK policy \in Policies, mode \in Modes, horizon \in Horizons, lead \in Leads,
           direction \in Directions :
           plan = [policy |-> policy, mode |-> mode, horizon |-> horizon, lead |-> lead,
                   direction |-> direction, active |-> TRUE, lastCompleted |-> Unset,
                   state |-> [nextDue |-> IF mode = "SENSOR" THEN Unset ELSE Frequency,
                              lastGenerated |-> Unset, counter |-> Unset]]
  BY DEF EngineInit
<1>2. /\ now = 0 /\ planned = {} /\ work = <<>> /\ sensor = Unset /\ running = Unset
      /\ planTask = [t \in PlanTasks |->
                        [nextDue |-> Unset, lastGenerated |-> Unset, counter |-> Unset]]
  BY DEF EngineInit
<1>3. plan \in PlanRows /\ now \in Times /\ planTask \in [PlanTasks -> States]
  BY <1>1, <1>2, PreventiveAssumption DEF PlanRows, States, Times, Dues
<1>4. work \in Seq(WorkRows) /\ Len(work) = 0 /\ DOMAIN work = {}
  BY <1>2
<1> QED BY <1>2, <1>3, <1>4, PreventiveAssumption
        DEF EngineInv, RowsTyped, RunOK, NoDates, Dues

-----------------------------------------------------------------------------
(* What the steps of a run do *)

NewWork(due, tasks) ==
    [due |-> due, tasks |-> tasks, recorded |-> FALSE, told |-> {}, done |-> FALSE,
     reading |-> IF sensor = Unset THEN 0 ELSE sensor.number]

SyncedState == [plan.state EXCEPT !.nextDue = Synced(@)]

(* generate_due_work for one plan: the run that starts. *)
Starts(due, tasks) ==
    /\ running = Unset /\ Len(work) < MaxWork
    /\ tasks = Selected(Horizon(plan.state.nextDue), SyncedState)
    /\ CandidateDue(Horizon(plan.state.nextDue), SyncedState)
    /\ due # Unset => plan.mode = "CALENDAR" /\ due = Synced(plan.state.nextDue) /\ WindowOpen(due)
    /\ due = Unset /\ plan.mode = "CALENDAR" => ~PlanDue(Horizon(plan.state.nextDue), SyncedState)
    /\ work' = Append(work, NewWork(due, tasks))
    /\ running' = [due |-> due, tasks |-> tasks]
    /\ plan' = [plan EXCEPT !.state = SyncedState]
    /\ planned' = Horizon(plan.state.nextDue)
    /\ UNCHANGED <<now, planTask, sensor>>

(* A due plan starts a run for its first date or for none. *)
LEMMA RunStarts ==
    ASSUME EngineInv, GenerateDueWork
    PROVE  \E due \in Nat \cup {Unset}, tasks \in SUBSET PlanTasks : Starts(due, tasks)
<1> DEFINE dues == Horizon(plan.state.nextDue)
           due  == IF UsesOccurrences /\ WindowOpen(Min(dues)) THEN Min(dues) ELSE Unset
           tasks == Selected(dues, SyncedState)
<1>1. plan.state.nextDue \in Nat \cup {Unset}
  BY DEF EngineInv, RowsTyped, PlanRows, States, Dues
<1>2. /\ running = Unset /\ Len(work) < MaxWork /\ CandidateDue(dues, SyncedState)
      /\ planned' = dues /\ plan' = [plan EXCEPT !.state = SyncedState]
      /\ work' = Append(work, NewWork(due, tasks))
      /\ running' = [due |-> due, tasks |-> tasks]
      /\ UNCHANGED <<now, planTask, sensor>>
  BY DEF GenerateDueWork, SyncedState, NewWork
<1>3. tasks \in SUBSET PlanTasks
  BY DEF Selected
<1>4. UsesOccurrences <=> plan.mode = "CALENDAR"
  BY DEF UsesOccurrences
<1>5. UsesOccurrences => /\ Min(dues) = Synced(plan.state.nextDue) /\ Min(dues) \in Nat
                         /\ (PlanDue(dues, SyncedState) <=> WindowOpen(Min(dues)))
  BY <1>1, <1>4, ScheduleSynced DEF EngineInv, PlanDue
<1>6. Unset \notin Nat
  BY UnsetAssumption
<1> HIDE DEF dues, tasks
<1>7. due \in Nat \cup {Unset}
  BY <1>5
<1>8. Starts(due, tasks)
  BY <1>2, <1>4, <1>5, <1>6 DEF Starts, dues, tasks
<1> QED BY <1>3, <1>7, <1>8

(* What the plan is told (_apply_plan_generation_state). *)
Tells(nextDue) ==
    /\ running # Unset /\ ~work[Len(work)].recorded
    /\ nextDue = IF running.due = Unset THEN NextDueAfter(plan.mode)
                 ELSE Synced(NextDueAfterOccurrence(running.due))
    /\ planned' = IF running.due = Unset THEN planned
                  ELSE Horizon(NextDueAfterOccurrence(running.due))
    /\ plan' = [plan EXCEPT !.state = [nextDue |-> nextDue, lastGenerated |-> now,
                                       counter |-> NextCounterOf(plan.mode, plan.state)]]
    /\ work' = [work EXCEPT ![Len(work)] = [work[Len(work)] EXCEPT !.recorded = TRUE]]
    /\ running' = IF running.tasks = {} THEN Unset ELSE running
    /\ UNCHANGED <<now, planTask, sensor>>

(* The dates that remain after the one that was generated. *)
LEMMA DatesRemain ==
    ASSUME EngineInv, running # Unset, NEW due \in Nat
    PROVE  /\ NextDueAfterOccurrence(due) \in Nat \cup {Unset}
           /\ NextDueAfterOccurrence(due) # Unset =>
                 NextDueAfterOccurrence(due) \in planned \ {due}
<1>1. Remaining(due) \subseteq Nat /\ Remaining(due) = planned \ {due}
  BY DEF EngineInv, RowsTyped, Remaining, Dues
<1>2. CASE Remaining(due) = {}
  BY <1>2 DEF NextDueAfterOccurrence
<1>3. CASE Remaining(due) # {}
  BY <1>1, <1>3, MinOfDates DEF NextDueAfterOccurrence
<1> QED BY <1>2, <1>3

(* The counter and the date that follow a generation. *)
LEMMA NextTriggers ==
    ASSUME RowsTyped, NEW mode, NEW s \in States
    PROVE  /\ NextCounterOf(mode, s) \in Nat \cup {Unset}
           /\ NextDueAfter(mode) \in Nat \cup {Unset}
           /\ mode # "CALENDAR" /\ sensor # Unset /\ plan.direction = "GREATER_OR_EQUAL" =>
                 NextCounterOf(mode, s) # Unset /\ sensor.value < NextCounterOf(mode, s)
<1>1. now \in Nat /\ Frequency \in Nat /\ Threshold \in Nat /\ Unset \notin Nat
      /\ s.counter \in Nat \cup {Unset}
  BY PreventiveAssumption, UnsetAssumption DEF RowsTyped, Times, States
<1>2. NextDueAfter(mode) \in Nat \cup {Unset}
  BY <1>1 DEF NextDueAfter
<1>3. /\ NextCounter(s) \in Nat \cup {Unset}
      /\ sensor # Unset /\ plan.direction = "GREATER_OR_EQUAL" =>
            NextCounter(s) # Unset /\ sensor.value < NextCounter(s)
  <2>1. CASE sensor = Unset
    BY <2>1 DEF NextCounter
  <2>2. CASE sensor # Unset /\ plan.direction # "GREATER_OR_EQUAL"
    BY <1>1, <2>2 DEF NextCounter
  <2>3. CASE sensor # Unset /\ plan.direction = "GREATER_OR_EQUAL"
    <3>1. PICK base \in Nat : base = IF s.counter # Unset THEN s.counter ELSE Threshold
      BY <1>1
    <3>2. sensor.value \in Nat
      BY <2>3, PreventiveAssumption DEF RowsTyped, Readings
    <3>3. NextCounter(s) = IF sensor.value < base THEN base
              ELSE base + ((sensor.value - base) \div Threshold + 1) * Threshold
      BY <2>3, <3>1 DEF NextCounter
    <3> QED BY <1>1, <3>1, <3>2, <3>3, CounterPasses
  <2> QED BY <2>1, <2>2, <2>3
<1> QED BY <1>1, <1>2, <1>3 DEF NextCounterOf

(* The plan of a run is told once. *)
LEMMA PlanIsTold ==
    ASSUME EngineInv, ApplyPlanState
    PROVE  \E nextDue \in Nat \cup {Unset} : Tells(nextDue)
<1> DEFINE due == running.due
           next == IF due # Unset THEN NextDueAfterOccurrence(due) ELSE NextDueAfter(plan.mode)
           nextDue == IF due # Unset THEN Synced(next) ELSE next
<1>1. /\ running # Unset /\ ~work[Len(work)].recorded
      /\ planned' = IF due # Unset THEN Horizon(next) ELSE planned
      /\ plan' = [plan EXCEPT !.state = [nextDue |-> nextDue, lastGenerated |-> now,
                                         counter |-> NextCounterOf(plan.mode, plan.state)]]
      /\ work' = [work EXCEPT ![Len(work)] = [work[Len(work)] EXCEPT !.recorded = TRUE]]
      /\ running' = IF running.tasks = {} THEN Unset ELSE running
      /\ UNCHANGED <<now, planTask, sensor>>
  BY Zenon DEF ApplyPlanState
<1>2. running \in Runs /\ RowsTyped /\ plan.state \in States
  BY <1>1 DEF EngineInv, RowsTyped, PlanRows
<1>3. next \in Nat \cup {Unset}
  BY <1>1, <1>2, DatesRemain, NextTriggers DEF Runs, Dues
<1> HIDE DEF next
<1>4. nextDue \in Nat \cup {Unset}
  BY <1>2, <1>3, ScheduleSynced
<1>5. Tells(nextDue)
  BY <1>1 DEF Tells, next
<1> QED BY <1>4, <1>5

(* What a task of the plan is told (_apply_plan_task_generation_state). *)
TellsTask(t) ==
    /\ running # Unset /\ work[Len(work)].recorded
    /\ t \in running.tasks
    /\ planTask' = [planTask EXCEPT ![t] =
          [nextDue |-> IF Trigger[t] = "INHERIT_PLAN" THEN Unset ELSE NextDueAfter(Trigger[t]),
           lastGenerated |-> now,
           counter |-> IF Trigger[t] = "INHERIT_PLAN" THEN Unset
                       ELSE NextCounterOf(Trigger[t], planTask[t])]]
    /\ work' = [work EXCEPT ![Len(work)] =
                   [work[Len(work)] EXCEPT !.told = work[Len(work)].told \cup {t}]]
    /\ running' = IF running.tasks = {t} THEN Unset
                  ELSE [running EXCEPT !.tasks = running.tasks \ {t}]
    /\ UNCHANGED <<now, plan, planned, sensor>>

(* A run has a task to tell until it ends. *)
LEMMA TaskIsTold ==
    ASSUME EngineInv, ApplyPlanTaskState
    PROVE  \E t \in PlanTasks : TellsTask(t)
<1> DEFINE t == Min(running.tasks)
<1>1. running # Unset /\ work[Len(work)].recorded
  BY DEF ApplyPlanTaskState
<1>2. t \in running.tasks /\ t \in PlanTasks
  <2>1. running.tasks # {} /\ running.tasks \subseteq PlanTasks
    BY <1>1, LastWork DEF EngineInv, RunOK, Runs
  <2>2. PlanTasks \subseteq Nat
    BY PreventiveAssumption DEF PlanTasks
  <2> QED BY <2>1, <2>2, MinOfDates
<1>3. TellsTask(t)
  <2>1. /\ planTask' = [planTask EXCEPT ![t] =
              [nextDue |-> IF Trigger[t] = "INHERIT_PLAN" THEN Unset ELSE NextDueAfter(Trigger[t]),
               lastGenerated |-> now,
               counter |-> IF Trigger[t] = "INHERIT_PLAN" THEN Unset
                           ELSE NextCounterOf(Trigger[t], planTask[t])]]
        /\ work' = [work EXCEPT ![Len(work)] =
                       [work[Len(work)] EXCEPT !.told = work[Len(work)].told \cup {t}]]
        /\ running' = IF running.tasks = {t} THEN Unset
                      ELSE [running EXCEPT !.tasks = running.tasks \ {t}]
        /\ UNCHANGED <<now, plan, planned, sensor>>
    BY Zenon DEF ApplyPlanTaskState
  <2> HIDE DEF t
  <2> QED BY <1>1, <1>2, <2>1 DEF TellsTask
<1> QED BY <1>2, <1>3

-----------------------------------------------------------------------------
(* Every step keeps the rows as they should be *)

(* A run that starts. *)
LEMMA StartsKeeps ==
    ASSUME EngineInv, NEW due \in Nat \cup {Unset}, NEW tasks \in SUBSET PlanTasks,
           Starts(due, tasks)
    PROVE  EngineInv'
<1>1. PICK row : row = NewWork(due, tasks)
  OBVIOUS
<1>2. /\ row \in WorkRows /\ row.due = due /\ row.tasks = tasks
      /\ row.recorded = FALSE
  <2>1. (IF sensor = Unset THEN 0 ELSE sensor.number) \in 0..MaxReadings
    BY PreventiveAssumption DEF EngineInv, RowsTyped, Readings
  <2> QED BY <1>1, <2>1 DEF NewWork, WorkRows, Dues
<1>3. /\ work' = Append(work, row) /\ work \in Seq(WorkRows)
      /\ running' = [due |-> due, tasks |-> tasks]
      /\ plan' = [plan EXCEPT !.state = SyncedState]
      /\ planned' = Horizon(plan.state.nextDue) /\ UNCHANGED <<now, planTask, sensor>>
      /\ Len(work) < MaxWork
  BY <1>1 DEF Starts, EngineInv, RowsTyped
<1>4. /\ work' \in Seq(WorkRows) /\ Len(work') = Len(work) + 1
      /\ DOMAIN work' = DOMAIN work \cup {Len(work) + 1}
      /\ work'[Len(work) + 1] = row
      /\ \A w \in DOMAIN work : work'[w] = work[w]
  BY <1>2, <1>3, WorkAdded
<1>5. plan \in PlanRows /\ plan.state \in States /\ plan.state.nextDue \in Nat \cup {Unset}
  BY DEF EngineInv, RowsTyped, PlanRows, States, Dues
<1>6. /\ Synced(plan.state.nextDue) \in Nat \cup {Unset}
      /\ Horizon(plan.state.nextDue) \subseteq Nat
      /\ plan.mode = "CALENDAR" => Horizon(plan.state.nextDue) =
             Dates(Synced(plan.state.nextDue), plan.horizon)
      /\ plan.mode # "CALENDAR" => Horizon(plan.state.nextDue) = planned
  BY <1>5, ScheduleSynced DEF EngineInv
<1>7. SyncedState \in States /\ SyncedState.nextDue = Synced(plan.state.nextDue)
  BY <1>5, <1>6 DEF SyncedState, States, Dues
<1>8. /\ plan' \in PlanRows /\ plan'.state = SyncedState
      /\ plan'.mode = plan.mode /\ plan'.horizon = plan.horizon
  BY <1>3, <1>5, <1>7 DEF PlanRows
<1>9. running' \in Runs /\ running' # Unset /\ running'.due = due /\ running'.tasks = tasks
  BY <1>3, UnsetAssumption DEF Runs, Dues
<1>10. due # Unset => plan.mode = "CALENDAR" /\ due = Synced(plan.state.nextDue)
  BY DEF Starts
<1>11. RowsTyped'
  <2>1. Len(work') <= MaxWork /\ Len(work') > 0
    BY <1>3, <1>4, PreventiveAssumption
  <2> QED BY <1>3, <1>4, <1>6, <1>8, <1>9, <2>1 DEF EngineInv, RowsTyped, Times, Dues, Readings
<1>12. RunOK'
  BY <1>2, <1>3, <1>4, <1>6, <1>7, <1>8, <1>9, <1>10 DEF RunOK
<1>13. NoDates'
  BY <1>2, <1>3, <1>4, <1>6, <1>8, <1>10 DEF NoDates, EngineInv
<1> QED BY <1>11, <1>12, <1>13 DEF EngineInv

(* What a rewritten last piece of work leaves. *)
LEMMA LastWritten ==
    ASSUME RowsTyped, running # Unset, NEW row \in WorkRows,
           work' = [work EXCEPT ![Len(work)] = row]
    PROVE  /\ work' \in Seq(WorkRows) /\ Len(work') = Len(work)
           /\ DOMAIN work' = DOMAIN work /\ Len(work) \in DOMAIN work
           /\ work'[Len(work)] = row
           /\ \A w \in DOMAIN work \ {Len(work)} : work'[w] = work[w]
BY LastWork, WorkWritten

(* The plan that is told. *)
LEMMA TellsKeeps ==
    ASSUME EngineInv, NEW nextDue \in Nat \cup {Unset}, Tells(nextDue)
    PROVE  EngineInv'
<1>1. PICK row : row = [work[Len(work)] EXCEPT !.recorded = TRUE]
  OBVIOUS
<1>2. RowsTyped /\ running # Unset /\ running \in Runs /\ work[Len(work)] \in WorkRows
  BY LastWork DEF Tells, EngineInv
<1>3. /\ row \in WorkRows /\ row.recorded /\ row.due = work[Len(work)].due
      /\ row.tasks = work[Len(work)].tasks
  BY <1>1, <1>2 DEF WorkRows
<1>4. work' = [work EXCEPT ![Len(work)] = row]
  BY <1>1 DEF Tells
<1>5. /\ work' \in Seq(WorkRows) /\ Len(work') = Len(work)
      /\ DOMAIN work' = DOMAIN work /\ Len(work) \in DOMAIN work
      /\ work'[Len(work)] = row
      /\ \A w \in DOMAIN work \ {Len(work)} : work'[w] = work[w]
  BY <1>2, <1>3, <1>4, LastWritten
<1>6. PICK st : st = [nextDue |-> nextDue, lastGenerated |-> now,
                      counter |-> NextCounterOf(plan.mode, plan.state)]
  OBVIOUS
<1>7. st \in States /\ plan \in PlanRows
  <2>1. plan \in PlanRows /\ plan.state \in States /\ now \in Times
    BY <1>2 DEF RowsTyped, PlanRows
  <2> QED BY <1>2, <1>6, <2>1, NextTriggers DEF States, Dues
<1>8. plan' = [plan EXCEPT !.state = st]
  BY <1>6 DEF Tells
<1>9. plan' \in PlanRows /\ plan'.mode = plan.mode
  BY <1>7, <1>8 DEF PlanRows
<1>10. planned' \subseteq Nat
  <2>1. running.due \in Nat => NextDueAfterOccurrence(running.due) \in Nat \cup {Unset}
    BY <1>2, DatesRemain
  <2>2. running.due # Unset => Horizon(NextDueAfterOccurrence(running.due)) \subseteq Nat
    BY <1>2, <2>1, ScheduleSynced DEF Runs, Dues
  <2> QED BY <1>2, <2>2 DEF Tells, RowsTyped, Dues
<1>11. running' = (IF running.tasks = {} THEN Unset ELSE running)
       /\ UNCHANGED <<now, planTask, sensor>>
  BY DEF Tells
<1>12. RowsTyped'
  BY <1>2, <1>5, <1>9, <1>10, <1>11 DEF RowsTyped, Times, Dues, Readings
<1>13. RunOK'
  BY <1>2, <1>3, <1>5, <1>11 DEF RunOK, EngineInv
<1>14. NoDates'
  <2>1. plan.mode # "CALENDAR" => running.due = Unset
    BY <1>2, <1>5 DEF EngineInv, NoDates, RunOK
  <2> QED BY <1>3, <1>5, <1>9, <2>1 DEF Tells, EngineInv, NoDates
<1> QED BY <1>12, <1>13, <1>14 DEF EngineInv

(* A task that is told. *)
LEMMA TellsTaskKeeps ==
    ASSUME EngineInv, NEW t \in PlanTasks, TellsTask(t)
    PROVE  EngineInv'
<1>1. PICK row : row = [work[Len(work)] EXCEPT !.told = work[Len(work)].told \cup {t}]
  OBVIOUS
<1>2. RowsTyped /\ running # Unset /\ running \in Runs /\ work[Len(work)] \in WorkRows
  BY LastWork DEF TellsTask, EngineInv
<1>3. /\ row \in WorkRows /\ row.recorded = work[Len(work)].recorded
      /\ row.due = work[Len(work)].due /\ row.tasks = work[Len(work)].tasks
  BY <1>1, <1>2 DEF WorkRows
<1>4. work' = [work EXCEPT ![Len(work)] = row]
  BY <1>1 DEF TellsTask
<1>5. /\ work' \in Seq(WorkRows) /\ Len(work') = Len(work)
      /\ DOMAIN work' = DOMAIN work /\ Len(work) \in DOMAIN work
      /\ work'[Len(work)] = row
      /\ \A w \in DOMAIN work \ {Len(work)} : work'[w] = work[w]
  BY <1>2, <1>3, <1>4, LastWritten
<1>6. PICK st : st = [nextDue |-> IF Trigger[t] = "INHERIT_PLAN" THEN Unset
                                  ELSE NextDueAfter(Trigger[t]),
                      lastGenerated |-> now,
                      counter |-> IF Trigger[t] = "INHERIT_PLAN" THEN Unset
                                  ELSE NextCounterOf(Trigger[t], planTask[t])]
  OBVIOUS
<1>7. st \in States
  <2>1. planTask[t] \in States /\ now \in Times
    BY <1>2 DEF RowsTyped
  <2>2. /\ NextDueAfter(Trigger[t]) \in Nat \cup {Unset}
        /\ NextCounterOf(Trigger[t], planTask[t]) \in Nat \cup {Unset}
    BY <1>2, <2>1, NextTriggers
  <2> QED BY <1>6, <2>1, <2>2 DEF States, Dues
<1>8. planTask' = [planTask EXCEPT ![t] = st]
  BY <1>6 DEF TellsTask
<1>9. planTask' \in [PlanTasks -> States]
  BY <1>2, <1>7, <1>8 DEF RowsTyped
<1>10. /\ running' = IF running.tasks = {t} THEN Unset
                     ELSE [running EXCEPT !.tasks = running.tasks \ {t}]
       /\ work[Len(work)].recorded /\ UNCHANGED <<now, plan, planned, sensor>>
       /\ t \in running.tasks
  BY DEF TellsTask
<1>11. running' # Unset => /\ running' \in Runs /\ running'.due = running.due
                           /\ running'.tasks = running.tasks \ {t} /\ running'.tasks # {}
  BY <1>2, <1>10 DEF Runs
<1>12. RowsTyped'
  BY <1>2, <1>5, <1>9, <1>10, <1>11 DEF RowsTyped, Times, Dues, Readings
<1>13. RunOK'
  BY <1>2, <1>3, <1>5, <1>10, <1>11 DEF RunOK, EngineInv
<1>14. NoDates'
  BY <1>3, <1>5, <1>10 DEF EngineInv, NoDates
<1> QED BY <1>12, <1>13, <1>14 DEF EngineInv

(* The parts of the invariant that are about the run hold while none is under way. *)
LEMMA AtRest ==
    ASSUME running = Unset
    PROVE  RunOK
BY DEF RunOK

(* A refresh of the schedule. *)
LEMMA RefreshKeeps ==
    ASSUME EngineInv, RefreshSchedule
    PROVE  EngineInv'
<1>1. /\ running = Unset /\ planned' = Horizon(plan.state.nextDue)
      /\ plan' = [plan EXCEPT !.state.nextDue = Synced(plan.state.nextDue)]
      /\ UNCHANGED <<now, planTask, work, sensor, running>>
  BY Zenon DEF RefreshSchedule
<1>2. plan \in PlanRows /\ plan.state \in States /\ plan.state.nextDue \in Nat \cup {Unset}
  BY DEF EngineInv, RowsTyped, PlanRows, States, Dues
<1>3. /\ Synced(plan.state.nextDue) \in Nat \cup {Unset}
      /\ Horizon(plan.state.nextDue) \subseteq Nat
      /\ plan.mode # "CALENDAR" => Horizon(plan.state.nextDue) = planned
  BY <1>2, ScheduleSynced DEF EngineInv
<1>4. plan' \in PlanRows /\ plan'.mode = plan.mode
  BY <1>1, <1>2, <1>3 DEF PlanRows, States, Dues
<1>5. RowsTyped'
  BY <1>1, <1>3, <1>4 DEF EngineInv, RowsTyped, Times, Dues, Readings
<1>6. NoDates'
  BY <1>1, <1>3, <1>4 DEF EngineInv, NoDates
<1>7. RunOK'
  BY <1>1 DEF RunOK
<1> QED BY <1>5, <1>6, <1>7 DEF EngineInv

(* The completion of a piece of work. *)
LEMMA CompletionKeeps ==
    ASSUME EngineInv, NEW k \in DOMAIN work, CompleteWork(k)
    PROVE  /\ EngineInv'
           /\ work' = [work EXCEPT ![k] = [work[k] EXCEPT !.done = TRUE]]
           /\ plan'.policy = plan.policy /\ plan'.mode = plan.mode
           /\ plan'.direction = plan.direction /\ plan'.lead = plan.lead
           /\ plan'.horizon = plan.horizon
           /\ plan'.state.lastGenerated = plan.state.lastGenerated
           /\ plan'.state.counter = plan.state.counter
           /\ \/ /\ plan'.state = plan.state /\ planned' = planned
                 /\ ~Floating \/ plan' = plan
              \/ /\ Floating /\ plan'.state.nextDue = now + Frequency /\ planned' = {}
                 /\ plan'.lastCompleted = now
<1>1. PICK row : row = [work[k] EXCEPT !.done = TRUE]
  OBVIOUS
<1>2. /\ running = Unset /\ work' = [work EXCEPT ![k] = row]
      /\ UNCHANGED <<now, planTask, sensor, running>>
      /\ \/ plan' = PlanCompleted /\ planned' = IF Floating THEN {} ELSE planned
         \/ UNCHANGED <<plan, planned>>
  BY <1>1 DEF CompleteWork
<1>3. work \in Seq(WorkRows) /\ plan \in PlanRows /\ plan.state \in States /\ now \in Times
      /\ now + Frequency \in Nat
  BY PreventiveAssumption DEF EngineInv, RowsTyped, PlanRows, Times
<1>4. row \in WorkRows /\ row.due = work[k].due
  <2>1. work[k] \in WorkRows
    BY <1>3
  <2> QED BY <1>1, <2>1 DEF WorkRows
<1>5. /\ work' \in Seq(WorkRows) /\ Len(work') = Len(work) /\ DOMAIN work' = DOMAIN work
      /\ \A w \in DOMAIN work : work'[w].due = work[w].due
  BY <1>2, <1>3, <1>4, WorkWritten
<1>6. /\ plan' \in PlanRows /\ plan'.policy = plan.policy /\ plan'.mode = plan.mode
      /\ plan'.direction = plan.direction /\ plan'.lead = plan.lead
      /\ plan'.horizon = plan.horizon
      /\ plan'.state.lastGenerated = plan.state.lastGenerated
      /\ plan'.state.counter = plan.state.counter
      /\ \/ /\ plan'.state = plan.state /\ planned' = planned
            /\ ~Floating \/ plan' = plan
         \/ /\ Floating /\ plan'.state.nextDue = now + Frequency /\ planned' = {}
            /\ plan'.lastCompleted = now
  <2>1. CASE plan' = plan /\ planned' = planned
    BY <1>3, <2>1
  <2>2. CASE plan' = PlanCompleted /\ Floating /\ planned' = {}
    <3>1. plan' = [plan EXCEPT !.lastCompleted = now,
                               !.state = [plan.state EXCEPT !.nextDue = now + Frequency]]
      BY <2>2 DEF PlanCompleted
    <3> QED BY <1>3, <2>2, <3>1 DEF PlanRows, States, Dues
  <2>3. CASE plan' = PlanCompleted /\ ~Floating /\ planned' = planned
    <3>1. plan' = [plan EXCEPT !.lastCompleted = now]
      BY <2>3 DEF PlanCompleted
    <3> QED BY <1>3, <2>3, <3>1 DEF PlanRows
  <2> QED BY <1>2, <2>1, <2>2, <2>3
<1>7. RowsTyped'
  BY <1>2, <1>5, <1>6 DEF EngineInv, RowsTyped, Times, Dues, Readings
<1>8. RunOK' /\ NoDates'
  BY <1>2, <1>5, <1>6 DEF EngineInv, NoDates, RunOK
<1> QED BY <1>1, <1>2, <1>6, <1>7, <1>8 DEF EngineInv

(* An edit of the plan. *)
LEMMA UpdateKeeps ==
    ASSUME EngineInv, NEW due \in DueDates \cup {plan.state.nextDue}, NEW active \in BOOLEAN,
           UpdatePlan(due, active)
    PROVE  /\ EngineInv'
           /\ plan'.policy = plan.policy /\ plan'.mode = plan.mode
           /\ plan'.direction = plan.direction /\ plan'.lead = plan.lead
           /\ plan'.horizon = plan.horizon /\ plan'.lastCompleted = plan.lastCompleted
           /\ plan'.state.lastGenerated = plan.state.lastGenerated
           /\ plan'.state.counter = plan.state.counter
           /\ DueDates = {} => plan'.state = plan.state
<1>1. /\ running = Unset
      /\ plan' = [plan EXCEPT !.state = [plan.state EXCEPT !.nextDue = due], !.active = active]
      /\ UNCHANGED <<now, planned, planTask, work, sensor, running>>
  BY DEF UpdatePlan
<1>2. plan \in PlanRows /\ plan.state \in States /\ due \in Nat \cup {Unset}
  BY PreventiveAssumption DEF EngineInv, RowsTyped, PlanRows, States, Dues
<1>3. DueDates = {} => [plan.state EXCEPT !.nextDue = due] = plan.state
  BY <1>2 DEF States
<1>4. [plan.state EXCEPT !.nextDue = due] \in States
  BY <1>2 DEF States, Dues
<1>5. /\ plan' \in PlanRows
      /\ plan'.policy = plan.policy /\ plan'.mode = plan.mode
      /\ plan'.direction = plan.direction /\ plan'.lead = plan.lead
      /\ plan'.horizon = plan.horizon /\ plan'.lastCompleted = plan.lastCompleted
      /\ plan'.state = [plan.state EXCEPT !.nextDue = due]
  BY <1>1, <1>2, <1>4 DEF PlanRows
<1>6. RowsTyped'
  BY <1>1, <1>5 DEF EngineInv, RowsTyped, Times, Dues, Readings
<1>7. RunOK' /\ NoDates'
  BY <1>1, <1>5 DEF EngineInv, RunOK, NoDates
<1>8. /\ plan'.state.lastGenerated = plan.state.lastGenerated
      /\ plan'.state.counter = plan.state.counter
  BY <1>2, <1>5 DEF States
<1> QED BY <1>3, <1>5, <1>6, <1>7, <1>8 DEF EngineInv

(* The number of the last reading. *)
Number == IF sensor = Unset THEN 0 ELSE sensor.number

(* What a new reading is. *)
LEMMA NewReading ==
    ASSUME RowsTyped, NEW value \in Values, NEW valid \in BOOLEAN, RecordReading(value, valid)
    PROVE  sensor' \in Readings /\ sensor'.at = now /\ Number' = Number + 1
<1>1. PICK number : number = IF sensor = Unset THEN 1 ELSE sensor.number + 1
  OBVIOUS
<1>2. number <= MaxReadings
      /\ sensor' = [value |-> value, at |-> now, valid |-> valid, number |-> number]
  BY <1>1 DEF RecordReading
<1>3. number \in Nat /\ number = Number + 1
  BY <1>1, PreventiveAssumption DEF RowsTyped, Readings, Number
<1>4. sensor' \in Readings
  BY <1>2, <1>3, PreventiveAssumption DEF Readings, RowsTyped
<1> QED BY <1>2, <1>3, <1>4, UnsetAssumption DEF Number

(* A reading, a day that passes, the end of a run, a stutter. *)
LEMMA WorldKeeps ==
    ASSUME EngineInv,
           \/ \E value \in Values, valid \in BOOLEAN : RecordReading(value, valid)
           \/ Tick \/ RunEnds \/ UNCHANGED engineVars
    PROVE  /\ EngineInv'
           /\ UNCHANGED <<plan, planned, planTask, work>>
<1>1. CASE \E value \in Values, valid \in BOOLEAN : RecordReading(value, valid)
  <2>1. PICK value \in Values, valid \in BOOLEAN : RecordReading(value, valid)
    BY <1>1
  <2>2. /\ running = Unset
        /\ UNCHANGED <<now, plan, planned, planTask, work, running>>
    BY <2>1 DEF RecordReading
  <2>3. sensor' \in Readings
    BY <2>1, NewReading DEF EngineInv
  <2>4. RowsTyped'
    BY <2>2, <2>3 DEF EngineInv, RowsTyped, Times, Dues, Readings
  <2> QED BY <2>2, <2>4 DEF EngineInv, RunOK, NoDates
<1>2. CASE Tick
  <2>1. /\ running = Unset /\ now' \in Times
        /\ UNCHANGED <<plan, planned, planTask, work, sensor, running>>
    BY <1>2, PreventiveAssumption DEF Tick, EngineInv, RowsTyped, Times
  <2>2. RowsTyped'
    BY <2>1 DEF EngineInv, RowsTyped, Dues
  <2> QED BY <2>1, <2>2 DEF EngineInv, RunOK, NoDates
<1>3. CASE RunEnds
  <2>1. running' = Unset /\ UNCHANGED <<now, plan, planned, planTask, work, sensor>>
    BY <1>3 DEF RunEnds
  <2>2. RowsTyped'
    BY <2>1 DEF EngineInv, RowsTyped, Times, Dues
  <2> QED BY <2>1, <2>2 DEF EngineInv, RunOK, NoDates
<1>4. CASE UNCHANGED engineVars
  BY <1>4 DEF engineVars, EngineInv, RowsTyped, RunOK, NoDates, Times
<1> QED BY <1>1, <1>2, <1>3, <1>4

(* What a step of the engine and its world may be. *)
EngineStep ==
    \/ RefreshSchedule
    \/ \E due \in Nat \cup {Unset}, tasks \in SUBSET PlanTasks : Starts(due, tasks)
    \/ \E nextDue \in Nat \cup {Unset} : Tells(nextDue)
    \/ \E t \in PlanTasks : TellsTask(t)
    \/ \E w \in DOMAIN work : CompleteWork(w)
    \/ \E due \in DueDates \cup {plan.state.nextDue}, active \in BOOLEAN : UpdatePlan(due, active)
    \/ \E value \in Values, valid \in BOOLEAN : RecordReading(value, valid)
    \/ Tick \/ RunEnds \/ UNCHANGED engineVars

(* Every step keeps the invariant and is one of those. *)
LEMMA EngineSteps ==
    ASSUME EngineInv, [EngineNext]_engineVars
    PROVE  EngineInv' /\ EngineStep
<1>1. EngineStep
  BY RunStarts, PlanIsTold, TaskIsTold DEF EngineNext, EngineStep
<1>2. EngineInv'
  BY <1>1, RefreshKeeps, StartsKeeps, TellsKeeps, TellsTaskKeeps, CompletionKeeps, UpdateKeeps,
     WorldKeeps DEF EngineStep
<1> QED BY <1>1, <1>2

(* The invariant of the engine: rows have the shape of their classes, only calendar plans
   have occurrences, and a run under way refers to its work and to the plan as it was
   synced (MaintenancePreventiveGenerationService). *)
THEOREM EngineInvariant == EngineSpec => []EngineInv
<1>1. EngineInit => EngineInv
  BY EngineStarts
<1>2. EngineInv /\ [EngineNext]_engineVars => EngineInv'
  BY EngineSteps
<1> QED BY <1>1, <1>2, PTL DEF EngineSpec

-----------------------------------------------------------------------------
(* One generation per reading *)

StateOf(t) == IF Trigger[t] = "INHERIT_PLAN" THEN plan.state ELSE planTask[t]

(* The last reading triggers nothing that is in this state. *)
Answered(s) ==
    /\ sensor # Unset
    /\ IF plan.direction = "GREATER_OR_EQUAL"
       THEN s.counter # Unset /\ sensor.value < s.counter
       ELSE s.lastGenerated # Unset /\ sensor.at <= s.lastGenerated

(* What the work a task was told of and the work under way say of the last reading. *)
ReadsOnce(t) ==
    /\ \A v, w \in DOMAIN work :
          v # w /\ Told(v, t) /\ Told(w, t) => work[v].reading # work[w].reading
    /\ \A w \in DOMAIN work :
          Told(w, t) /\ work[w].reading = Number => Answered(StateOf(t))
    /\ running # Unset /\ t \in work[Len(work)].tasks =>
          /\ sensor # Unset /\ work[Len(work)].reading = Number
          /\ ~Told(Len(work), t) =>
                \A w \in DOMAIN work : Told(w, t) => work[w].reading # Number

ReadInv ==
    /\ sensor # Unset => sensor.at <= now
    /\ \A w \in DOMAIN work : work[w].reading <= Number
    /\ \A t \in PlanTasks : ModeOf(t) = "SENSOR" => ReadsOnce(t)

(* Numbers of readings are numbers. *)
LEMMA ReadingNumbers ==
    ASSUME RowsTyped
    PROVE  /\ Number \in Nat /\ now \in Nat
           /\ \A w \in DOMAIN work : work[w] \in WorkRows /\ work[w].reading \in Nat
           /\ sensor # Unset => sensor.at \in Nat /\ sensor.value \in Nat
<1>1. \A w \in DOMAIN work : work[w] \in WorkRows
  BY DEF RowsTyped
<1>2. sensor # Unset => sensor \in Readings
  BY DEF RowsTyped
<1>3. \A w \in DOMAIN work : work[w].reading \in Nat
  BY <1>1, PreventiveAssumption DEF WorkRows
<1>4. sensor # Unset => sensor.at \in Nat /\ sensor.value \in Nat /\ sensor.number \in Nat
  <2>1. sensor # Unset => sensor.at \in Times /\ sensor.value \in Values /\ sensor.number \in 0..MaxReadings
    BY <1>2 DEF Readings
  <2>2. Times \subseteq Nat /\ Values \subseteq Nat /\ 0..MaxReadings \subseteq Nat
    BY PreventiveAssumption DEF Times
  <2> QED BY <2>1, <2>2
<1>5. now \in Nat
  BY PreventiveAssumption DEF RowsTyped, Times
<1> QED BY <1>1, <1>3, <1>4, <1>5 DEF Number

(* A reading that was answered is not due. *)
LEMMA AnsweredNotDue ==
    ASSUME RowsTyped, NEW s \in States, Answered(s)
    PROVE  ~SensorDue(s)
<1>1. /\ sensor.value \in Nat /\ sensor.at \in Nat
      /\ s.counter \in Nat \cup {Unset} /\ s.lastGenerated \in Nat \cup {Unset}
  BY ReadingNumbers, PreventiveAssumption DEF Answered, States, Times
<1> QED BY <1>1 DEF Answered, SensorDue

(* A state that is told of a generation answers the last reading. *)
LEMMA ToldAnswers ==
    ASSUME RowsTyped, sensor # Unset, sensor.at <= now, NEW mode, mode # "CALENDAR",
           NEW s \in States, NEW st, st.lastGenerated = now, st.counter = NextCounterOf(mode, s)
    PROVE  Answered(st)
<1>1. now # Unset
  BY ReadingNumbers, UnsetAssumption
<1> QED BY <1>1, NextTriggers DEF Answered

(* Steps that neither generate nor read. *)
LEMMA ReadingsUntouched ==
    ASSUME RowsTyped, ReadInv, UNCHANGED sensor, now' \in Nat, now <= now',
           plan'.mode = plan.mode, plan'.direction = plan.direction,
           plan'.state.counter = plan.state.counter,
           plan'.state.lastGenerated = plan.state.lastGenerated,
           UNCHANGED planTask, running' \in {running, Unset},
           DOMAIN work' = DOMAIN work, Len(work') = Len(work),
           \A w \in DOMAIN work :
               /\ work'[w].reading = work[w].reading /\ work'[w].tasks = work[w].tasks
               /\ work'[w].recorded = work[w].recorded /\ work'[w].told = work[w].told
    PROVE  ReadInv'
<1>1. Number' = Number /\ (sensor' # Unset => sensor'.at <= now')
  BY ReadingNumbers DEF Number, ReadInv
<1>2. ASSUME NEW t \in PlanTasks, ModeOf(t)' = "SENSOR"
      PROVE  ReadsOnce(t)'
  <2>1. ModeOf(t) = "SENSOR"
    BY <1>2 DEF ModeOf
  <2>2. ReadsOnce(t)
    BY <2>1 DEF ReadInv
  <2>3. \A w \in DOMAIN work : Told(w, t)' <=> Told(w, t)
    BY DEF Told
  <2>4. Answered(StateOf(t)) => Answered(StateOf(t))'
    BY DEF Answered, StateOf
  <2>5. running' # Unset => running # Unset /\ Len(work) \in DOMAIN work
    BY LastWork
  <2> QED BY <1>1, <2>2, <2>3, <2>4, <2>5 DEF ReadsOnce
<1>3. \A w \in DOMAIN work' : work'[w].reading <= Number'
  BY <1>1 DEF ReadInv
<1> QED BY <1>1, <1>2, <1>3 DEF ReadInv

(* A new reading is newer than all the work. *)
LEMMA ReadingRecorded ==
    ASSUME EngineInv, ReadInv, NEW value \in Values, NEW valid \in BOOLEAN,
           RecordReading(value, valid)
    PROVE  ReadInv'
<1>1. /\ UNCHANGED <<now, plan, planned, planTask, work, running>> /\ running = Unset
      /\ Number' = Number + 1 /\ sensor'.at = now /\ Number \in Nat
  BY NewReading, ReadingNumbers DEF RecordReading, EngineInv
<1>2. \A w \in DOMAIN work : work[w].reading < Number'
  BY <1>1, ReadingNumbers DEF ReadInv, EngineInv
<1>3. ASSUME NEW t \in PlanTasks, ModeOf(t)' = "SENSOR"
      PROVE  ReadsOnce(t)'
  <2>1. ReadsOnce(t)
    BY <1>1, <1>3 DEF ReadInv, ModeOf
  <2>2. \A w \in DOMAIN work : (Told(w, t)' <=> Told(w, t)) /\ work[w].reading # Number'
    BY <1>1, <1>2, ReadingNumbers DEF Told, EngineInv
  <2> QED BY <1>1, <2>1, <2>2 DEF ReadsOnce
<1>4. now' = now /\ now \in Nat
  BY <1>1, ReadingNumbers DEF EngineInv
<1>5. \A w \in DOMAIN work : work[w].reading <= Number'
  BY <1>1, <1>2, ReadingNumbers DEF EngineInv
<1> QED BY <1>1, <1>3, <1>4, <1>5 DEF ReadInv

(* A run that starts for a task takes it up for a reading nobody answered. *)
LEMMA StartReads ==
    ASSUME EngineInv, ReadInv, NEW due \in Nat \cup {Unset}, NEW tasks \in SUBSET PlanTasks,
           Starts(due, tasks)
    PROVE  ReadInv'
<1>1. PICK row : row = NewWork(due, tasks)
  OBVIOUS
<1>2. PICK n : n = Len(work) + 1
  OBVIOUS
<1>3. /\ row.reading = Number /\ row.tasks = tasks /\ row.recorded = FALSE /\ row.told = {}
      /\ row.due = due
  BY <1>1 DEF NewWork, Number
<1>4. RowsTyped /\ Number \in Nat /\ plan \in PlanRows /\ plan.state \in States
      /\ planTask \in [PlanTasks -> States]
  BY ReadingNumbers DEF EngineInv, RowsTyped, PlanRows
<1>5. row \in WorkRows
  BY <1>1, <1>4, PreventiveAssumption DEF NewWork, WorkRows, Dues, RowsTyped, Readings
<1>6. /\ Len(work') = n /\ DOMAIN work' = DOMAIN work \cup {n} /\ work'[n] = row
      /\ n \notin DOMAIN work /\ \A w \in DOMAIN work : work'[w] = work[w]
  BY <1>1, <1>2, <1>4, <1>5, WorkAdded DEF Starts, RowsTyped
<1>7. PICK S : S = SyncedState
  OBVIOUS
<1>8. /\ running = Unset /\ plan' = [plan EXCEPT !.state = S]
      /\ UNCHANGED <<now, planTask, sensor>>
      /\ tasks = Selected(Horizon(plan.state.nextDue), S)
  BY <1>7 DEF Starts
<1>9. /\ S \in States /\ S.counter = plan.state.counter
      /\ S.lastGenerated = plan.state.lastGenerated
  <2>1. Synced(plan.state.nextDue) \in Nat \cup {Unset}
    BY <1>4, ScheduleSynced DEF States, Dues
  <2> QED BY <1>4, <1>7, <2>1 DEF SyncedState, States, Dues
<1>10. plan'.state = S /\ plan'.mode = plan.mode /\ plan'.direction = plan.direction
  BY <1>4, <1>8, <1>9 DEF PlanRows
<1>11. Number' = Number
  BY <1>8 DEF Number
<1>12. ASSUME NEW t \in PlanTasks, ModeOf(t)' = "SENSOR"
       PROVE  ReadsOnce(t)'
  <2>1. ModeOf(t) = "SENSOR" /\ ReadsOnce(t)
    BY <1>10, <1>12 DEF ModeOf, ReadInv
  <2>2. ~Told(n, t)' /\ \A w \in DOMAIN work : Told(w, t)' <=> Told(w, t)
    BY <1>3, <1>6 DEF Told
  <2>3. Answered(StateOf(t)) => Answered(StateOf(t))'
    BY <1>8, <1>9, <1>10 DEF Answered, StateOf
  <2>4. PICK s \in States : s = IF Trigger[t] = "INHERIT_PLAN" THEN S ELSE planTask[t]
    BY <1>4, <1>9
  <2>5. t \in tasks => sensor # Unset /\ SensorDue(s)
    <3>1. CASE Trigger[t] = "INHERIT_PLAN"
      <4>1. plan.mode = "SENSOR" /\ ~UsesOccurrences
        BY <2>1, <3>1 DEF ModeOf, UsesOccurrences
      <4>2. t \in tasks => TriggerDue("SENSOR", s)
        BY <1>8, <2>4, <3>1, <4>1 DEF Selected, PlanDue
      <4> QED BY <4>2 DEF TriggerDue, SensorUsable
    <3>2. CASE Trigger[t] # "INHERIT_PLAN"
      <4>1. t \in tasks => TriggerDue("SENSOR", s)
        BY <1>8, <2>1, <2>4, <3>2 DEF Selected, ModeOf
      <4> QED BY <4>1 DEF TriggerDue, SensorUsable
    <3> QED BY <3>1, <3>2
  <2>6. t \in tasks => ~Answered(StateOf(t))
    <3>1. Answered(StateOf(t)) => Answered(s)
      BY <1>9, <2>4 DEF Answered, StateOf
    <3> QED BY <1>4, <2>5, <3>1, AnsweredNotDue
  <2>7. t \in tasks => \A w \in DOMAIN work : Told(w, t) => work[w].reading # Number
    BY <2>1, <2>6 DEF ReadsOnce
  <2> QED BY <1>3, <1>6, <1>8, <1>11, <2>1, <2>2, <2>3, <2>5, <2>7 DEF ReadsOnce
<1>13. \A w \in DOMAIN work' : work'[w].reading <= Number'
  BY <1>3, <1>4, <1>6, <1>11 DEF ReadInv
<1>14. sensor' # Unset => sensor'.at <= now'
  BY <1>8 DEF ReadInv
<1> QED BY <1>12, <1>13, <1>14 DEF ReadInv

(* Telling the plan answers the reading for the tasks that inherit its trigger. *)
LEMMA TellReads ==
    ASSUME EngineInv, ReadInv, NEW nextDue \in Nat \cup {Unset}, Tells(nextDue)
    PROVE  ReadInv'
<1>1. PICK row : row = [work[Len(work)] EXCEPT !.recorded = TRUE]
  OBVIOUS
<1>2. PICK n : n = Len(work)
  OBVIOUS
<1>3. /\ RowsTyped /\ running # Unset /\ running \in Runs /\ work[n] \in WorkRows
      /\ ~work[n].recorded
  BY <1>2, LastWork DEF Tells, EngineInv
<1>4. /\ row \in WorkRows /\ row.recorded /\ row.reading = work[n].reading
      /\ row.tasks = work[n].tasks /\ row.told = work[n].told
  BY <1>1, <1>2, <1>3 DEF WorkRows
<1>5. /\ Len(work') = n /\ DOMAIN work' = DOMAIN work /\ n \in DOMAIN work
      /\ work'[n] = row /\ \A w \in DOMAIN work \ {n} : work'[w] = work[w]
  BY <1>1, <1>2, <1>3, <1>4, LastWritten DEF Tells
<1>6. PICK st : st = [nextDue |-> nextDue, lastGenerated |-> now,
                      counter |-> NextCounterOf(plan.mode, plan.state)]
  OBVIOUS
<1>7. /\ plan' = [plan EXCEPT !.state = st] /\ UNCHANGED <<now, planTask, sensor>>
      /\ running' \in {running, Unset}
  BY <1>6 DEF Tells
<1>8. plan \in PlanRows /\ plan.state \in States
  BY <1>3 DEF RowsTyped, PlanRows
<1>9. plan'.state = st /\ plan'.mode = plan.mode /\ plan'.direction = plan.direction
  BY <1>7, <1>8 DEF PlanRows
<1>10. Number' = Number
  BY <1>7 DEF Number
<1>11. ASSUME NEW t \in PlanTasks, ModeOf(t)' = "SENSOR"
       PROVE  ReadsOnce(t)'
  <2>1. ModeOf(t) = "SENSOR" /\ ReadsOnce(t)
    BY <1>9, <1>11 DEF ModeOf, ReadInv
  <2>2. \A w \in DOMAIN work \ {n} : Told(w, t)' <=> Told(w, t)
    BY <1>5 DEF Told
  <2>3. CASE Trigger[t] = "INHERIT_PLAN"
    <3>1. ~Told(n, t) /\ (Told(n, t)' <=> t \in work[n].tasks)
      BY <1>3, <1>4, <1>5, <2>3 DEF Told
    <3>2. Told(n, t)' => /\ sensor # Unset /\ work[n].reading = Number
                         /\ \A w \in DOMAIN work : Told(w, t) => work[w].reading # Number
      BY <1>2, <1>3, <2>1, <3>1 DEF ReadsOnce
    <3>3. plan.mode = "SENSOR"
      BY <2>1, <2>3 DEF ModeOf
    <3>4. sensor # Unset => Answered(st)
      BY <1>3, <1>6, <1>8, <3>3, ToldAnswers DEF ReadInv
    <3>5. sensor # Unset => Answered(StateOf(t))'
      BY <1>7, <1>9, <2>3, <3>4 DEF Answered, StateOf
    <3>6. \A w \in DOMAIN work : work[w].reading = Number /\ Told(w, t) => sensor # Unset
      BY <2>1 DEF ReadsOnce, Answered
    <3>7. \A v, w \in DOMAIN work' :
             v # w /\ Told(v, t)' /\ Told(w, t)' => work'[v].reading # work'[w].reading
      BY <1>4, <1>5, <2>1, <2>2, <3>2 DEF ReadsOnce
    <3>8. \A w \in DOMAIN work' :
             Told(w, t)' /\ work'[w].reading = Number' => Answered(StateOf(t))'
      BY <1>4, <1>5, <1>10, <2>2, <3>2, <3>5, <3>6
    <3>9. running' # Unset /\ t \in work'[Len(work')].tasks =>
              sensor' # Unset /\ work'[Len(work')].reading = Number' /\ Told(Len(work), t)'
      BY <1>4, <1>5, <1>7, <1>10, <3>1, <3>2
    <3> QED BY <3>7, <3>8, <3>9 DEF ReadsOnce
  <2>4. CASE Trigger[t] # "INHERIT_PLAN"
    <3>1. Told(n, t)' <=> Told(n, t)
      BY <1>4, <1>5, <2>4 DEF Told
    <3>2. Answered(StateOf(t)) => Answered(StateOf(t))'
      BY <1>7, <1>9, <2>4 DEF Answered, StateOf
    <3>3. \A w \in DOMAIN work : (Told(w, t)' <=> Told(w, t))
                                 /\ work'[w].reading = work[w].reading
      BY <1>4, <1>5, <2>2, <3>1
    <3> QED BY <1>2, <1>3, <1>4, <1>5, <1>7, <1>10, <2>1, <3>2, <3>3 DEF ReadsOnce
  <2> QED BY <2>3, <2>4
<1>12. \A w \in DOMAIN work' : work'[w].reading <= Number'
  BY <1>4, <1>5, <1>10 DEF ReadInv
<1>13. sensor' # Unset => sensor'.at <= now'
  BY <1>7 DEF ReadInv
<1> QED BY <1>11, <1>12, <1>13 DEF ReadInv

(* Telling a task answers the reading for a trigger of its own. *)
LEMMA TaskTellReads ==
    ASSUME EngineInv, ReadInv, NEW a \in PlanTasks, TellsTask(a)
    PROVE  ReadInv'
<1>1. PICK row : row = [work[Len(work)] EXCEPT !.told = work[Len(work)].told \cup {a}]
  OBVIOUS
<1>2. PICK n : n = Len(work)
  OBVIOUS
<1>3. /\ RowsTyped /\ running # Unset /\ work[n] \in WorkRows /\ a \in work[n].tasks
  BY <1>2, LastWork DEF TellsTask, EngineInv, RunOK
<1>4. /\ row \in WorkRows /\ row.recorded = work[n].recorded /\ row.reading = work[n].reading
      /\ row.tasks = work[n].tasks /\ row.told = work[n].told \cup {a}
  BY <1>1, <1>2, <1>3 DEF WorkRows
<1>5. /\ Len(work') = n /\ DOMAIN work' = DOMAIN work /\ n \in DOMAIN work
      /\ work'[n] = row /\ \A w \in DOMAIN work \ {n} : work'[w] = work[w]
  BY <1>1, <1>2, <1>3, <1>4, LastWritten DEF TellsTask
<1>6. PICK st : st = [nextDue |-> IF Trigger[a] = "INHERIT_PLAN" THEN Unset
                                  ELSE NextDueAfter(Trigger[a]),
                      lastGenerated |-> now,
                      counter |-> IF Trigger[a] = "INHERIT_PLAN" THEN Unset
                                  ELSE NextCounterOf(Trigger[a], planTask[a])]
  OBVIOUS
<1>7. /\ planTask' = [planTask EXCEPT ![a] = st] /\ UNCHANGED <<now, plan, sensor>>
      /\ running' # Unset => running # Unset
  BY <1>3, <1>6 DEF TellsTask
<1>8. planTask \in [PlanTasks -> States]
  BY <1>3 DEF RowsTyped
<1>9. planTask'[a] = st /\ \A t \in PlanTasks \ {a} : planTask'[t] = planTask[t]
  BY <1>7, <1>8
<1>10. Number' = Number
  BY <1>7 DEF Number
<1>11. ASSUME NEW t \in PlanTasks, ModeOf(t)' = "SENSOR"
       PROVE  ReadsOnce(t)'
  <2>1. ModeOf(t) = "SENSOR" /\ ReadsOnce(t)
    BY <1>7, <1>11 DEF ModeOf, ReadInv
  <2>2. \A w \in DOMAIN work \ {n} : Told(w, t)' <=> Told(w, t)
    BY <1>5 DEF Told
  <2>3. CASE t = a /\ Trigger[t] # "INHERIT_PLAN"
    <3>1. Told(n, t)'
      BY <1>3, <1>4, <1>5, <2>3 DEF Told
    <3>2. /\ sensor # Unset /\ work[n].reading = Number
          /\ ~Told(n, t) => \A w \in DOMAIN work : Told(w, t) => work[w].reading # Number
      BY <1>2, <1>3, <2>1, <2>3 DEF ReadsOnce
    <3>3. Trigger[t] = "SENSOR"
      BY <2>1, <2>3 DEF ModeOf
    <3>4. Answered(st)
      BY <1>3, <1>6, <1>8, <2>3, <3>2, <3>3, ToldAnswers DEF ReadInv
    <3>5. Answered(StateOf(t))'
      BY <1>7, <1>9, <2>3, <3>4 DEF Answered, StateOf
    <3>6. \A v, w \in DOMAIN work' :
             v # w /\ Told(v, t)' /\ Told(w, t)' => work'[v].reading # work'[w].reading
      BY <1>4, <1>5, <2>1, <2>2, <3>2 DEF ReadsOnce
    <3> QED BY <1>4, <1>5, <1>7, <1>10, <3>1, <3>2, <3>5, <3>6 DEF ReadsOnce
  <2>4. CASE t # a \/ Trigger[t] = "INHERIT_PLAN"
    <3>1. Told(n, t)' <=> Told(n, t)
      BY <1>4, <1>5, <2>4 DEF Told
    <3>2. Answered(StateOf(t)) => Answered(StateOf(t))'
      BY <1>7, <1>9, <2>4 DEF Answered, StateOf
    <3>3. \A w \in DOMAIN work : (Told(w, t)' <=> Told(w, t))
                                 /\ work'[w].reading = work[w].reading
      BY <1>4, <1>5, <2>2, <3>1
    <3> QED BY <1>2, <1>3, <1>4, <1>5, <1>7, <1>10, <2>1, <3>2, <3>3 DEF ReadsOnce
  <2> QED BY <2>3, <2>4
<1>12. \A w \in DOMAIN work' : work'[w].reading <= Number'
  BY <1>4, <1>5, <1>10 DEF ReadInv
<1>13. sensor' # Unset => sensor'.at <= now'
  BY <1>7 DEF ReadInv
<1> QED BY <1>11, <1>12, <1>13 DEF ReadInv

(* The engine starts with no reading answered. *)
LEMMA ReadStarts ==
    ASSUME EngineInit
    PROVE  ReadInv
<1>1. work = <<>> /\ DOMAIN work = {} /\ sensor = Unset /\ running = Unset
  BY DEF EngineInit
<1> QED BY <1>1 DEF ReadInv, ReadsOnce

(* Every step answers a reading once. *)
LEMMA ReadSteps ==
    ASSUME EngineInv, ReadInv, [EngineNext]_engineVars
    PROVE  ReadInv'
<1>1. RowsTyped /\ EngineStep /\ now \in Nat /\ plan \in PlanRows /\ plan.state \in States
  BY EngineSteps, ReadingNumbers DEF EngineInv, RowsTyped, PlanRows
<1>2. CASE RefreshSchedule
  <2>1. /\ plan' = [plan EXCEPT !.state = [plan.state EXCEPT !.nextDue = Synced(plan.state.nextDue)]]
        /\ UNCHANGED <<now, planTask, work, sensor, running>>
    BY <1>2 DEF RefreshSchedule
  <2>2. /\ plan'.mode = plan.mode /\ plan'.direction = plan.direction
        /\ plan'.state.counter = plan.state.counter
        /\ plan'.state.lastGenerated = plan.state.lastGenerated
    BY <1>1, <2>1 DEF PlanRows, States
  <2> QED BY <1>1, <2>1, <2>2, ReadingsUntouched
<1>3. CASE \E due \in Nat \cup {Unset}, tasks \in SUBSET PlanTasks : Starts(due, tasks)
  BY <1>3, StartReads
<1>4. CASE \E nextDue \in Nat \cup {Unset} : Tells(nextDue)
  BY <1>4, TellReads
<1>5. CASE \E t \in PlanTasks : TellsTask(t)
  BY <1>5, TaskTellReads
<1>6. CASE \E k \in DOMAIN work : CompleteWork(k)
  <2>1. PICK k \in DOMAIN work : CompleteWork(k)
    BY <1>6
  <2>2. PICK row : row = [work[k] EXCEPT !.done = TRUE]
    OBVIOUS
  <2>3. work[k] \in WorkRows /\ work \in Seq(WorkRows)
    BY <1>1, ReadingNumbers DEF RowsTyped
  <2>4. /\ row \in WorkRows /\ row.reading = work[k].reading /\ row.tasks = work[k].tasks
        /\ row.recorded = work[k].recorded /\ row.told = work[k].told
    BY <2>2, <2>3 DEF WorkRows
  <2>5. /\ DOMAIN work' = DOMAIN work /\ Len(work') = Len(work) /\ work'[k] = row
        /\ \A w \in DOMAIN work \ {k} : work'[w] = work[w]
    <3>1. work' = [work EXCEPT ![k] = row]
      BY <2>1, <2>2, CompletionKeeps
    <3> QED BY <2>3, <2>4, <3>1, WorkWritten
  <2>6. UNCHANGED <<now, planTask, sensor, running>>
    BY <2>1 DEF CompleteWork
  <2> QED BY <1>1, <2>1, <2>4, <2>5, <2>6, CompletionKeeps, ReadingsUntouched
<1>7. CASE \E due \in DueDates \cup {plan.state.nextDue}, active \in BOOLEAN : UpdatePlan(due, active)
  <2>1. PICK due \in DueDates \cup {plan.state.nextDue}, active \in BOOLEAN : UpdatePlan(due, active)
    BY <1>7
  <2>2. UNCHANGED <<now, planTask, work, sensor, running>>
    BY <2>1 DEF UpdatePlan
  <2> QED BY <1>1, <2>1, <2>2, UpdateKeeps, ReadingsUntouched
<1>8. CASE \E value \in Values, valid \in BOOLEAN : RecordReading(value, valid)
  BY <1>8, ReadingRecorded
<1>9. CASE Tick \/ RunEnds \/ UNCHANGED engineVars
  <2>1. /\ UNCHANGED <<plan, planTask, work, sensor>> /\ running' \in {running, Unset}
        /\ now' \in Nat /\ now <= now'
    BY <1>1, <1>9 DEF Tick, RunEnds, engineVars
  <2> QED BY <1>1, <2>1, ReadingsUntouched
<1> QED BY <1>1, <1>2, <1>3, <1>4, <1>5, <1>6, <1>7, <1>8, <1>9 DEF EngineStep

(* However often the engine runs, ends halfway and generates for other triggers, a task
   with a sensor trigger is generated at most once from one reading by the runs that reach
   its row (next_due_counter, last_generated_at). *)
THEOREM ReadingsGenerateOnce == EngineSpec => []OncePerReading
<1>1. EngineInit => EngineInv /\ ReadInv
  BY EngineStarts, ReadStarts
<1>2. EngineInv /\ ReadInv /\ [EngineNext]_engineVars => EngineInv' /\ ReadInv'
  BY EngineSteps, ReadSteps
<1>3. EngineInv /\ ReadInv => OncePerReading
  BY DEF ReadInv, ReadsOnce, OncePerReading
<1> QED BY <1>1, <1>2, <1>3, PTL DEF EngineSpec

-----------------------------------------------------------------------------
(* One piece of work for each occurrence *)

(* Where nobody sets a due date, and no lead window is as long as the time between two
   occurrences. *)
ShortLeads == DueDates = {} /\ \A lead \in Leads : lead < Frequency

(* Work the plan was told of is for dates before the next one. *)
AheadOfWork ==
    plan.mode = "CALENDAR" =>
        /\ plan.state.nextDue # Unset
        /\ \A w \in DOMAIN work : work[w].due # Unset =>
              /\ work[w].due <= now + plan.lead
              /\ work[w].recorded => work[w].due < plan.state.nextDue

DatesOnce ==
    \A v, w \in DOMAIN work :
        v # w /\ work[v].recorded /\ work[w].recorded /\ work[v].due # Unset =>
            work[v].due # work[w].due

OccurrenceInv == AheadOfWork /\ DatesOnce

(* Dates are dates. *)
LEMMA DateTypes ==
    ASSUME RowsTyped
    PROVE  /\ now \in Nat /\ plan.lead \in Nat /\ plan.lead \in Leads /\ Frequency \in Nat \ {0}
           /\ plan \in PlanRows /\ plan.state \in States
           /\ plan.state.nextDue \in Nat \cup {Unset} /\ Unset \notin Nat
           /\ \A w \in DOMAIN work : work[w] \in WorkRows /\ work[w].due \in Nat \cup {Unset}
<1>1. plan \in PlanRows /\ plan.state \in States /\ plan.lead \in Leads
      /\ plan.state.nextDue \in Nat \cup {Unset}
  BY DEF RowsTyped, PlanRows, States, Dues
<1>2. \A w \in DOMAIN work : work[w] \in WorkRows
  BY DEF RowsTyped
<1>3. \A w \in DOMAIN work : work[w].due \in Nat \cup {Unset}
  BY <1>2 DEF WorkRows, Dues
<1> QED BY <1>1, <1>2, <1>3, ReadingNumbers, PreventiveAssumption, UnsetAssumption

(* The next date may only move on, to one that no work is for yet. *)
LEMMA AheadAfter ==
    ASSUME ShortLeads, RowsTyped, RowsTyped', OccurrenceInv, now' = now \/ now' = now + 1,
           plan'.mode = plan.mode, plan'.lead = plan.lead,
           plan.mode = "CALENDAR" =>
               \/ plan'.state.nextDue = plan.state.nextDue
               \/ plan'.state.nextDue = now + Frequency
               \/ plan'.state.nextDue # Unset /\ plan'.state.nextDue > plan.state.nextDue,
           DOMAIN work' = DOMAIN work,
           \A w \in DOMAIN work : work'[w].due = work[w].due /\ work'[w].recorded = work[w].recorded
    PROVE  OccurrenceInv'
<1>1. DatesOnce'
  BY DEF DatesOnce, OccurrenceInv
<1>2. AheadOfWork'
  <2>1. plan.lead < Frequency
    BY DateTypes DEF ShortLeads
  <2>2. /\ now \in Nat /\ plan.lead \in Nat /\ Frequency \in Nat
        /\ plan.state.nextDue \in Nat \cup {Unset} /\ Unset \notin Nat
        /\ \A w \in DOMAIN work : work[w].due \in Nat \cup {Unset}
    BY DateTypes
  <2>3. plan'.state.nextDue \in Nat \cup {Unset}
    BY DEF RowsTyped, PlanRows, States, Dues
  <2> QED BY <2>1, <2>2, <2>3 DEF AheadOfWork, OccurrenceInv
<1> QED BY <1>1, <1>2 DEF OccurrenceInv

(* A run that starts is for a date its window has opened for. *)
LEMMA AheadStarts ==
    ASSUME ShortLeads, EngineInv, EngineInv', OccurrenceInv,
           NEW due \in Nat \cup {Unset}, NEW tasks \in SUBSET PlanTasks, Starts(due, tasks)
    PROVE  OccurrenceInv'
<1>1. PICK row : row = NewWork(due, tasks)
  OBVIOUS
<1>2. row \in WorkRows /\ row.due = due /\ row.recorded = FALSE
  <2>1. (IF sensor = Unset THEN 0 ELSE sensor.number) \in 0..MaxReadings
    BY PreventiveAssumption DEF EngineInv, RowsTyped, Readings
  <2> QED BY <1>1, <2>1 DEF NewWork, WorkRows, Dues
<1>3. work' = Append(work, row) /\ work \in Seq(WorkRows) /\ now' = now
      /\ plan' = [plan EXCEPT !.state = SyncedState]
  BY <1>1 DEF Starts, EngineInv, RowsTyped
<1>4. /\ DOMAIN work' = DOMAIN work \cup {Len(work) + 1}
      /\ work'[Len(work) + 1] = row
      /\ \A w \in DOMAIN work : work'[w] = work[w]
  BY <1>2, <1>3, WorkAdded
<1>5. /\ plan'.mode = plan.mode /\ plan'.lead = plan.lead
      /\ plan'.state.nextDue = Synced(plan.state.nextDue)
  <2>1. plan \in PlanRows /\ plan.state \in States
    BY DateTypes DEF EngineInv
  <2>2. SyncedState.nextDue = Synced(plan.state.nextDue)
    BY <2>1 DEF SyncedState, States
  <2> QED BY <1>3, <2>1, <2>2 DEF PlanRows
<1>6. DatesOnce'
  BY <1>2, <1>4 DEF DatesOnce, OccurrenceInv
<1>7. AheadOfWork'
  <2> SUFFICES ASSUME plan.mode = "CALENDAR"
               PROVE  AheadOfWork'
    BY <1>5 DEF AheadOfWork
  <2>1. plan.state.nextDue # Unset /\ Synced(plan.state.nextDue) = plan.state.nextDue
    BY DEF OccurrenceInv, AheadOfWork, Synced, FirstDue
  <2>2. due # Unset => due <= now + plan.lead
    <3>1. due # Unset => due \in Nat /\ now \in Nat /\ plan.lead \in Nat
      BY DateTypes DEF EngineInv
    <3> QED BY <3>1 DEF Starts, WindowOpen
  <2> QED BY <1>2, <1>3, <1>4, <1>5, <2>1, <2>2 DEF AheadOfWork, OccurrenceInv
<1> QED BY <1>6, <1>7 DEF OccurrenceInv

(* The plan that is told of its work moves on to a date after it. *)
LEMMA AheadTells ==
    ASSUME ShortLeads, EngineInv, EngineInv', OccurrenceInv,
           NEW nextDue \in Nat \cup {Unset}, Tells(nextDue)
    PROVE  OccurrenceInv'
<1>1. PICK row : row = [work[Len(work)] EXCEPT !.recorded = TRUE]
  OBVIOUS
<1>2. RowsTyped /\ running # Unset /\ running \in Runs /\ work[Len(work)] \in WorkRows
  BY LastWork DEF Tells, EngineInv
<1>3. row \in WorkRows /\ row.recorded /\ row.due = running.due
  <2>1. row \in WorkRows /\ row.recorded /\ row.due = work[Len(work)].due
    BY <1>1, <1>2 DEF WorkRows
  <2> QED BY <1>2, <2>1 DEF EngineInv, RunOK
<1>4. work' = [work EXCEPT ![Len(work)] = row] /\ now' = now
  BY <1>1 DEF Tells
<1>5. /\ DOMAIN work' = DOMAIN work /\ Len(work) \in DOMAIN work
      /\ work'[Len(work)] = row
      /\ \A w \in DOMAIN work \ {Len(work)} : work'[w] = work[w]
  BY <1>2, <1>3, <1>4, LastWritten
<1>6. plan'.mode = plan.mode /\ plan'.lead = plan.lead /\ plan'.state.nextDue = nextDue
  <2>1. plan \in PlanRows /\ plan.state \in States
    BY <1>2, DateTypes
  <2>2. plan' = [plan EXCEPT !.state = [nextDue |-> nextDue, lastGenerated |-> now,
                                        counter |-> NextCounterOf(plan.mode, plan.state)]]
    BY DEF Tells
  <2> QED BY <2>1, <2>2 DEF PlanRows
<1>7. /\ work[Len(work)].due = running.due /\ ~work[Len(work)].recorded
      /\ running.due # Unset => /\ plan.mode = "CALENDAR" /\ running.due \in Nat
                                /\ plan.state.nextDue = running.due
                                /\ planned = Dates(running.due, plan.horizon)
  BY <1>2, <1>5 DEF Tells, EngineInv, RunOK, NoDates, Runs, Dues
<1>8. /\ now \in Nat /\ plan.lead \in Nat /\ Frequency \in Nat \ {0} /\ Unset \notin Nat
      /\ plan.lead < Frequency /\ plan.horizon \in Nat \ {0}
      /\ \A w \in DOMAIN work : work[w].due \in Nat \cup {Unset}
  <2>1. plan.horizon \in Nat \ {0}
    BY <1>2, PreventiveAssumption DEF RowsTyped, PlanRows
  <2> QED BY <1>2, <2>1, DateTypes DEF ShortLeads
<1>9. DatesOnce'
  <2>1. \A w \in DOMAIN work : work[w].recorded => work[w].due # running.due \/ running.due = Unset
    BY <1>7, <1>8 DEF OccurrenceInv, AheadOfWork
  <2> QED BY <1>3, <1>5, <2>1 DEF DatesOnce, OccurrenceInv
<1>10. plan.mode = "CALENDAR" => /\ nextDue # Unset
                                 /\ \/ nextDue = now + Frequency
                                    \/ running.due # Unset /\ nextDue > running.due
  <2>1. CASE running.due = Unset
    BY <1>8, <2>1 DEF Tells, NextDueAfter
  <2>2. CASE running.due # Unset
    <3>1. PICK next : next = NextDueAfterOccurrence(running.due)
      OBVIOUS
    <3>2. nextDue = FirstDue(next)
      BY <1>7, <2>2, <3>1 DEF Tells, Synced, UsesOccurrences
    <3>3. next # Unset => next \in Nat /\ next > running.due
      <4>1. next # Unset => next \in Dates(running.due, plan.horizon) \ {running.due}
                            /\ next \in Nat \cup {Unset}
        BY <1>2, <1>7, <2>2, <3>1, DatesRemain
      <4>2. \A x \in Dates(running.due, plan.horizon) : running.due <= x
        BY <1>7, <1>8, <2>2, DatesFrom
      <4> QED BY <1>7, <2>2, <4>1, <4>2
    <3> QED BY <1>8, <2>2, <3>2, <3>3 DEF FirstDue
  <2> QED BY <2>1, <2>2
<1>11. AheadOfWork'
  <2> SUFFICES ASSUME plan.mode = "CALENDAR"
               PROVE  AheadOfWork'
    BY <1>6 DEF AheadOfWork
  <2>1. \A w \in DOMAIN work : work'[w].due = work[w].due
                               /\ (work'[w].recorded => work[w].recorded \/ w = Len(work))
    BY <1>3, <1>5, <1>7
  <2>2. \A w \in DOMAIN work : work[w].due # Unset => work[w].due <= now + plan.lead
    BY DEF OccurrenceInv, AheadOfWork
  <2>3. \A w \in DOMAIN work : work[w].due # Unset /\ work[w].recorded => work[w].due < plan.state.nextDue
    BY DEF OccurrenceInv, AheadOfWork
  <2>4. ASSUME NEW w \in DOMAIN work, work[w].due # Unset, work[w].recorded \/ w = Len(work)
        PROVE  work[w].due < nextDue
    BY <1>7, <1>8, <1>10, <2>2, <2>3, <2>4
  <2> QED BY <1>4, <1>5, <1>6, <1>10, <2>1, <2>2, <2>4 DEF AheadOfWork
<1> QED BY <1>9, <1>11 DEF OccurrenceInv

(* The first plan has a date, and no work. *)
LEMMA AheadBegins ==
    ASSUME EngineInit
    PROVE  OccurrenceInv
<1>1. work = <<>> /\ DOMAIN work = {}
  BY DEF EngineInit
<1>2. plan.mode = "CALENDAR" => plan.state.nextDue = Frequency
  <2>1. PICK policy \in Policies, mode \in Modes, horizon \in Horizons, lead \in Leads,
             direction \in Directions :
             plan = [policy |-> policy, mode |-> mode, horizon |-> horizon, lead |-> lead,
                     direction |-> direction, active |-> TRUE, lastCompleted |-> Unset,
                     state |-> [nextDue |-> IF mode = "SENSOR" THEN Unset ELSE Frequency,
                                lastGenerated |-> Unset, counter |-> Unset]]
    BY DEF EngineInit
  <2> QED BY <2>1
<1> QED BY <1>1, <1>2, PreventiveAssumption, UnsetAssumption
        DEF OccurrenceInv, AheadOfWork, DatesOnce

(* Every step keeps the next date ahead of the work. *)
LEMMA AheadSteps ==
    ASSUME ShortLeads, EngineInv, OccurrenceInv, [EngineNext]_engineVars
    PROVE  OccurrenceInv'
<1>1. EngineStep /\ EngineInv' /\ RowsTyped /\ RowsTyped' /\ plan \in PlanRows
      /\ plan.state \in States
  BY EngineSteps DEF EngineInv, RowsTyped, PlanRows
<1>2. CASE RefreshSchedule
  <2>1. /\ plan' = [plan EXCEPT !.state = [plan.state EXCEPT !.nextDue = Synced(plan.state.nextDue)]]
        /\ UNCHANGED <<now, work>>
    BY <1>2 DEF RefreshSchedule
  <2>2. /\ plan'.mode = plan.mode /\ plan'.lead = plan.lead
        /\ plan'.state.nextDue = Synced(plan.state.nextDue)
    BY <1>1, <2>1 DEF PlanRows, States
  <2>3. plan.mode = "CALENDAR" => Synced(plan.state.nextDue) = plan.state.nextDue
    BY DEF OccurrenceInv, AheadOfWork, Synced, FirstDue
  <2> QED BY <1>1, <2>1, <2>2, <2>3, AheadAfter
<1>3. CASE \E due \in Nat \cup {Unset}, tasks \in SUBSET PlanTasks : Starts(due, tasks)
  BY <1>1, <1>3, AheadStarts
<1>4. CASE \E nextDue \in Nat \cup {Unset} : Tells(nextDue)
  BY <1>1, <1>4, AheadTells
<1>5. CASE \E t \in PlanTasks : TellsTask(t)
  <2>1. PICK t \in PlanTasks : TellsTask(t)
    BY <1>5
  <2>2. PICK row : row = [work[Len(work)] EXCEPT !.told = work[Len(work)].told \cup {t}]
    OBVIOUS
  <2>3. running # Unset /\ work[Len(work)] \in WorkRows /\ running \in Runs
        /\ running.tasks \subseteq PlanTasks
    BY <1>1, <2>1, LastWork DEF TellsTask, Runs
  <2>4. /\ row \in WorkRows /\ row.recorded = work[Len(work)].recorded
        /\ row.due = work[Len(work)].due
    BY <2>1, <2>2, <2>3 DEF WorkRows
  <2>5. work' = [work EXCEPT ![Len(work)] = row] /\ UNCHANGED <<now, plan>>
    BY <2>1, <2>2 DEF TellsTask
  <2>6. /\ DOMAIN work' = DOMAIN work
        /\ \A w \in DOMAIN work : /\ work'[w].due = work[w].due
                                  /\ work'[w].recorded = work[w].recorded
    BY <1>1, <2>3, <2>4, <2>5, LastWritten
  <2> QED BY <1>1, <2>5, <2>6, AheadAfter
<1>6. CASE \E k \in DOMAIN work : CompleteWork(k)
  <2>1. PICK k \in DOMAIN work : CompleteWork(k)
    BY <1>6
  <2>2. PICK row : row = [work[k] EXCEPT !.done = TRUE]
    OBVIOUS
  <2>3. work[k] \in WorkRows /\ work \in Seq(WorkRows)
    BY <1>1, DateTypes DEF RowsTyped
  <2>4. row \in WorkRows /\ row.due = work[k].due /\ row.recorded = work[k].recorded
    BY <2>2, <2>3 DEF WorkRows
  <2>5. /\ DOMAIN work' = DOMAIN work
        /\ \A w \in DOMAIN work : /\ work'[w].due = work[w].due
                                  /\ work'[w].recorded = work[w].recorded
    <3>1. work' = [work EXCEPT ![k] = row]
      BY <2>1, <2>2, CompletionKeeps
    <3> QED BY <2>3, <2>4, <3>1, WorkWritten
  <2>6. now' = now
    BY <2>1 DEF CompleteWork
  <2>7. /\ plan'.mode = plan.mode /\ plan'.lead = plan.lead
        /\ \/ plan'.state.nextDue = plan.state.nextDue
           \/ plan'.state.nextDue = now + Frequency
    BY <2>1, CompletionKeeps
  <2> QED BY <1>1, <2>5, <2>6, <2>7, AheadAfter
<1>7. CASE \E due \in DueDates \cup {plan.state.nextDue}, active \in BOOLEAN : UpdatePlan(due, active)
  <2>1. PICK due \in DueDates \cup {plan.state.nextDue}, active \in BOOLEAN : UpdatePlan(due, active)
    BY <1>7
  <2>2. UNCHANGED <<now, work>>
    BY <2>1 DEF UpdatePlan
  <2>3. plan'.mode = plan.mode /\ plan'.lead = plan.lead /\ plan'.state = plan.state
    BY <2>1, UpdateKeeps DEF ShortLeads
  <2> QED BY <1>1, <2>2, <2>3, AheadAfter
<1>8. CASE \/ \E value \in Values, valid \in BOOLEAN : RecordReading(value, valid)
           \/ Tick \/ RunEnds \/ UNCHANGED engineVars
  <2>1. UNCHANGED <<plan, work>>
    BY <1>8, WorldKeeps
  <2>2. now' = now \/ now' = now + 1
    BY <1>8 DEF RecordReading, Tick, RunEnds, engineVars
  <2> QED BY <1>1, <2>1, <2>2, AheadAfter
<1> QED BY <1>1, <1>2, <1>3, <1>4, <1>5, <1>6, <1>7, <1>8 DEF EngineStep

(* No two pieces of work that the plan was told of are for the same due date, over refreshes,
   late and early runs, runs that end halfway and completions, while nobody sets a due date
   and no lead window reaches past the next occurrence (a floating plan whose work is
   completed early may otherwise come back to the same date). *)
THEOREM OccurrencesGeneratedOnce ==
    ASSUME ShortLeads
    PROVE  EngineSpec => []OncePerOccurrence
<1>1. EngineInit => EngineInv /\ OccurrenceInv
  BY EngineStarts, AheadBegins
<1>2. EngineInv /\ OccurrenceInv /\ [EngineNext]_engineVars => EngineInv' /\ OccurrenceInv'
  BY EngineSteps, AheadSteps
<1>3. EngineInv /\ OccurrenceInv => OncePerOccurrence
  BY DEF EngineInv, OccurrenceInv, DatesOnce, OncePerOccurrence
<1> QED BY <1>1, <1>2, <1>3, PTL DEF EngineSpec

-----------------------------------------------------------------------------
(* The cadence *)

(* Where the tasks follow the plan, nobody sets a due date, and another date is planned
   behind the next. *)
SteadySchedule ==
    /\ DueDates = {}
    /\ 1 \notin Horizons
    /\ \A t \in PlanTasks : Trigger[t] = "INHERIT_PLAN"

OnCadence(due) == \E k \in Nat : due = k * Frequency

(* The next date starts the schedule; of a fixed plan it is on the cadence, of a floating
   one it follows the last completion. *)
CadenceInv ==
    plan.mode = "CALENDAR" =>
        /\ plan.state.nextDue # Unset
        /\ planned = {} \/ planned = Dates(plan.state.nextDue, plan.horizon)
        /\ running # Unset /\ ~work[Len(work)].recorded => running.due # Unset
        /\ plan.policy = "FIXED" =>
              /\ OnCadence(plan.state.nextDue)
              /\ \A w \in DOMAIN work : work[w].due # Unset => OnCadence(work[w].due)
        /\ plan.policy = "FLOATING" /\ plan.lastCompleted # Unset =>
              plan.state.nextDue >= plan.lastCompleted + Frequency

(* A multiple of a number leaves no remainder. *)
LEMMA MultipleDivides ==
    ASSUME NEW n \in Nat \ {0}, NEW k \in Nat
    PROVE  (k * n) % n = 0
<1>1. PICK x \in Nat : x = n * k
  OBVIOUS
<1>2. PICK q \in Nat, r \in 0..n - 1 : x = n * q + r /\ r = x % n
  <2>1. x = n * (x \div n) + (x % n) /\ x \div n \in Nat /\ x % n \in 0..n - 1
    BY <1>1
  <2> QED BY <2>1
<1>3. CASE k > q
  <2>1. PICK m \in Nat : k = q + 1 + m
    <3>1. k - q - 1 \in Nat /\ k = q + 1 + (k - q - 1)
      BY <1>3
    <3> QED BY <3>1
  <2>2. n * k = n * q + n + n * m /\ n * m \in Nat
    BY <2>1
  <2> QED BY <1>1, <1>2, <2>2
<1>4. CASE k < q
  <2>1. PICK m \in Nat : q = k + 1 + m
    <3>1. q - k - 1 \in Nat /\ q = k + 1 + (q - k - 1)
      BY <1>4
    <3> QED BY <3>1
  <2>2. n * q = n * k + n + n * m /\ n * m \in Nat
    BY <2>1
  <2> QED BY <1>1, <1>2, <2>2
<1>5. CASE k = q
  <2>1. r = 0
    BY <1>1, <1>2, <1>5
  <2> QED BY <1>1, <1>2, <2>1
<1> QED BY <1>3, <1>4, <1>5

(* A horizon that starts on the cadence stays on it. *)
LEMMA HorizonOnCadence ==
    ASSUME NEW first \in Nat, OnCadence(first), NEW count \in Nat
    PROVE  \A due \in Dates(first, count) : OnCadence(due) /\ due % Frequency = 0
<1> SUFFICES ASSUME NEW i \in 0..count - 1
             PROVE  OnCadence(first + i * Frequency) /\ (first + i * Frequency) % Frequency = 0
  BY DEF Dates
<1>1. PICK k \in Nat : first = k * Frequency
  BY DEF OnCadence
<1>2. Frequency \in Nat \ {0} /\ k + i \in Nat
  BY PreventiveAssumption
<1>3. first + i * Frequency = (k + i) * Frequency
  BY <1>1, <1>2
<1> QED BY <1>2, <1>3, MultipleDivides DEF OnCadence

(* A run of a calendar plan whose tasks follow it has an occurrence. *)
LEMMA RunHasDate ==
    ASSUME SteadySchedule, NEW due, NEW tasks, Starts(due, tasks), plan.mode = "CALENDAR"
    PROVE  due # Unset
<1> SUFFICES ASSUME due = Unset PROVE FALSE
  OBVIOUS
<1>1. ~PlanDue(Horizon(plan.state.nextDue), SyncedState)
  BY DEF Starts
<1>2. Selected(Horizon(plan.state.nextDue), SyncedState) = {}
  BY <1>1 DEF Selected, SteadySchedule
<1> QED BY <1>1, <1>2 DEF Starts, CandidateDue

(* A plan that starts a run is synced. *)
LEMMA CadenceStarts ==
    ASSUME SteadySchedule, EngineInv, CadenceInv,
           NEW due \in Nat \cup {Unset}, NEW tasks \in SUBSET PlanTasks, Starts(due, tasks)
    PROVE  CadenceInv'
<1>1. PICK row : row = NewWork(due, tasks)
  OBVIOUS
<1>2. row \in WorkRows /\ row.due = due
  <2>1. (IF sensor = Unset THEN 0 ELSE sensor.number) \in 0..MaxReadings
    BY PreventiveAssumption DEF EngineInv, RowsTyped, Readings
  <2> QED BY <1>1, <2>1 DEF NewWork, WorkRows, Dues
<1>3. /\ work' = Append(work, row) /\ work \in Seq(WorkRows)
      /\ plan' = [plan EXCEPT !.state = SyncedState]
      /\ planned' = Horizon(plan.state.nextDue) /\ running'.due = due
  BY <1>1 DEF Starts, EngineInv, RowsTyped
<1>4. /\ DOMAIN work' = DOMAIN work \cup {Len(work) + 1}
      /\ work'[Len(work) + 1] = row
      /\ \A w \in DOMAIN work : work'[w] = work[w]
  BY <1>2, <1>3, WorkAdded
<1>5. /\ plan'.mode = plan.mode /\ plan'.policy = plan.policy /\ plan'.horizon = plan.horizon
      /\ plan'.lastCompleted = plan.lastCompleted
      /\ plan'.state.nextDue = Synced(plan.state.nextDue)
  <2>1. plan \in PlanRows /\ plan.state \in States
    BY DateTypes DEF EngineInv
  <2>2. SyncedState.nextDue = Synced(plan.state.nextDue)
    BY <2>1 DEF SyncedState, States
  <2> QED BY <1>3, <2>1, <2>2 DEF PlanRows
<1> SUFFICES ASSUME plan.mode = "CALENDAR"
             PROVE  CadenceInv'
  BY <1>5 DEF CadenceInv
<1>6. due # Unset /\ due = Synced(plan.state.nextDue)
  BY RunHasDate DEF Starts
<1>7. Synced(plan.state.nextDue) = plan.state.nextDue
      /\ planned' = Dates(plan.state.nextDue, plan.horizon)
  <2>1. plan.state.nextDue \in Nat \cup {Unset} /\ plan.state.nextDue # Unset /\ RowsTyped
    BY DateTypes DEF CadenceInv, EngineInv
  <2>2. FirstDue(plan.state.nextDue) = plan.state.nextDue
    BY <2>1 DEF FirstDue
  <2> QED BY <1>3, <2>1, <2>2, ScheduleSynced
<1> QED BY <1>2, <1>3, <1>4, <1>5, <1>6, <1>7 DEF CadenceInv, OnCadence

(* The date after the one that was generated is the next on the cadence. *)
LEMMA CadenceTells ==
    ASSUME SteadySchedule, EngineInv, CadenceInv,
           NEW nextDue \in Nat \cup {Unset}, Tells(nextDue)
    PROVE  CadenceInv'
<1>1. PICK row : row = [work[Len(work)] EXCEPT !.recorded = TRUE]
  OBVIOUS
<1>2. RowsTyped /\ running # Unset /\ running \in Runs /\ work[Len(work)] \in WorkRows
  BY LastWork DEF Tells, EngineInv
<1>3. row \in WorkRows /\ row.recorded /\ row.due = work[Len(work)].due
  BY <1>1, <1>2 DEF WorkRows
<1>4. work' = [work EXCEPT ![Len(work)] = row]
  BY <1>1 DEF Tells
<1>5. /\ DOMAIN work' = DOMAIN work /\ Len(work) \in DOMAIN work /\ Len(work') = Len(work)
      /\ work'[Len(work)] = row
      /\ \A w \in DOMAIN work \ {Len(work)} : work'[w] = work[w]
  BY <1>2, <1>3, <1>4, LastWritten
<1>6. /\ plan'.mode = plan.mode /\ plan'.policy = plan.policy /\ plan'.horizon = plan.horizon
      /\ plan'.lastCompleted = plan.lastCompleted /\ plan'.state.nextDue = nextDue
  <2>1. plan \in PlanRows /\ plan.state \in States
    BY <1>2, DateTypes
  <2>2. plan' = [plan EXCEPT !.state = [nextDue |-> nextDue, lastGenerated |-> now,
                                        counter |-> NextCounterOf(plan.mode, plan.state)]]
    BY DEF Tells
  <2> QED BY <2>1, <2>2 DEF PlanRows
<1> SUFFICES ASSUME plan.mode = "CALENDAR"
             PROVE  CadenceInv'
  BY <1>6 DEF CadenceInv
<1>7. PICK due \in Nat : due = running.due /\ due = plan.state.nextDue /\ due # Unset
  <2>1. running.due # Unset
    BY <1>2 DEF CadenceInv, Tells
  <2>2. plan.state.nextDue = running.due
    BY <1>2, <2>1 DEF EngineInv, RunOK, Tells
  <2> QED BY <1>2, <2>1, <2>2 DEF Runs, Dues
<1>8. planned = Dates(due, plan.horizon) /\ ~work[Len(work)].recorded
  BY <1>2, <1>7 DEF EngineInv, RunOK, Tells
<1>9. PICK next : next = NextDueAfterOccurrence(due)
  OBVIOUS
<1>10. plan.horizon \in Nat /\ plan.horizon > 1 /\ Frequency \in Nat \ {0} /\ Unset \notin Nat
  <2>1. plan.horizon \in Horizons /\ plan.horizon # 1
    BY <1>2 DEF RowsTyped, PlanRows, SteadySchedule
  <2>2. plan.horizon \in Nat \ {0}
    BY <2>1, PreventiveAssumption
  <2>3. plan.horizon \in Nat /\ plan.horizon > 1
    BY <2>1, <2>2
  <2> QED BY <2>3, PreventiveAssumption, UnsetAssumption
<1>11. due + Frequency \in planned \ {due}
  <2>1. due + Frequency = due + 1 * Frequency /\ 1 \in 0..plan.horizon - 1
        /\ due + Frequency # due
    BY <1>10
  <2> QED BY <1>8, <2>1 DEF Dates
<1>12. next \in Nat /\ next \in Dates(due, plan.horizon) /\ next # due /\ next # Unset
  <2>1. Remaining(due) = planned \ {due} /\ planned \subseteq Nat
    BY <1>2 DEF Remaining, RowsTyped, Dues
  <2>2. next = Min(Remaining(due))
    BY <1>9, <1>11, <2>1 DEF NextDueAfterOccurrence
  <2>3. next \in planned \ {due}
    BY <1>11, <2>1, <2>2, MinOfDates
  <2> QED BY <1>8, <1>10, <2>1, <2>3
<1>13. nextDue = next /\ planned' = Dates(next, plan.horizon)
  <2>1. FirstDue(next) = next
    BY <1>12 DEF FirstDue
  <2>2. nextDue = Synced(next) /\ planned' = Horizon(next)
    BY <1>7, <1>9 DEF Tells
  <2> QED BY <1>2, <1>12, <2>1, <2>2, ScheduleSynced
<1>14. next >= due
  BY <1>7, <1>10, <1>12, DatesFrom
<1>15. plan.policy = "FIXED" => OnCadence(next)
  BY <1>7, <1>10, <1>12, HorizonOnCadence DEF CadenceInv
<1>16. plan.policy = "FIXED" =>
           \A w \in DOMAIN work' : work'[w].due # Unset => OnCadence(work'[w].due)
  BY <1>3, <1>5 DEF CadenceInv
<1>17. plan.policy = "FLOATING" /\ plan.lastCompleted # Unset =>
           next >= plan.lastCompleted + Frequency
  <2>1. plan.lastCompleted # Unset => plan.lastCompleted \in Nat
    BY <1>2, PreventiveAssumption DEF RowsTyped, PlanRows, Times
  <2> QED BY <1>7, <1>10, <1>12, <1>14, <2>1 DEF CadenceInv
<1>18. plan'.policy = "FIXED" => OnCadence(plan'.state.nextDue) /\
           \A w \in DOMAIN work' : work'[w].due # Unset => OnCadence(work'[w].due)
  BY <1>6, <1>13, <1>15, <1>16
<1> QED BY <1>3, <1>5, <1>6, <1>12, <1>13, <1>17, <1>18 DEF CadenceInv, OnCadence

(* Steps that leave the work, the next date and the schedule as they are. *)
LEMMA CadenceUntouched ==
    ASSUME CadenceInv, plan'.mode = plan.mode, plan'.policy = plan.policy,
           plan'.horizon = plan.horizon, running' \in {Unset, running},
           plan.mode = "CALENDAR" =>
               /\ plan'.lastCompleted = plan.lastCompleted \/ plan.policy # "FLOATING"
               /\ plan'.state.nextDue = plan.state.nextDue
               /\ planned' \in {planned, {}, Dates(plan.state.nextDue, plan.horizon)},
           Len(work') = Len(work), DOMAIN work' = DOMAIN work,
           running' # Unset => Len(work) \in DOMAIN work,
           \A w \in DOMAIN work : work'[w].due = work[w].due /\ work'[w].recorded = work[w].recorded
    PROVE  CadenceInv'
<1> SUFFICES ASSUME plan.mode = "CALENDAR"
             PROVE  CadenceInv'
  BY DEF CadenceInv
<1>1. running' # Unset /\ ~work'[Len(work')].recorded => running'.due # Unset
  BY DEF CadenceInv
<1>2. plan'.policy = "FIXED" =>
           /\ OnCadence(plan'.state.nextDue)
           /\ \A w \in DOMAIN work' : work'[w].due # Unset => OnCadence(work'[w].due)
  BY DEF CadenceInv
<1>3. plan'.policy = "FLOATING" /\ plan'.lastCompleted # Unset =>
              plan'.state.nextDue >= plan'.lastCompleted + Frequency
  BY DEF CadenceInv
<1>4. /\ plan'.state.nextDue # Unset
      /\ planned' = {} \/ planned' = Dates(plan'.state.nextDue, plan'.horizon)
  BY DEF CadenceInv, Dates
<1> QED BY <1>1, <1>2, <1>3, <1>4 DEF CadenceInv, OnCadence, Dates

(* The first date is on the cadence. *)
LEMMA CadenceBegins ==
    ASSUME EngineInit
    PROVE  CadenceInv
<1>1. work = <<>> /\ DOMAIN work = {} /\ planned = {} /\ running = Unset
  BY DEF EngineInit
<1>2. plan.lastCompleted = Unset /\ (plan.mode = "CALENDAR" => plan.state.nextDue = Frequency)
  <2>1. PICK policy \in Policies, mode \in Modes, horizon \in Horizons, lead \in Leads,
             direction \in Directions :
             plan = [policy |-> policy, mode |-> mode, horizon |-> horizon, lead |-> lead,
                     direction |-> direction, active |-> TRUE, lastCompleted |-> Unset,
                     state |-> [nextDue |-> IF mode = "SENSOR" THEN Unset ELSE Frequency,
                                lastGenerated |-> Unset, counter |-> Unset]]
    BY DEF EngineInit
  <2> QED BY <2>1
<1>3. OnCadence(Frequency)
  <2>1. Frequency = 1 * Frequency
    BY PreventiveAssumption
  <2> QED BY <2>1 DEF OnCadence
<1> QED BY <1>1, <1>2, <1>3, PreventiveAssumption, UnsetAssumption DEF CadenceInv

(* Every step keeps the cadence. *)
LEMMA CadenceSteps ==
    ASSUME SteadySchedule, EngineInv, CadenceInv, [EngineNext]_engineVars
    PROVE  CadenceInv'
<1>1. EngineStep /\ RowsTyped /\ plan \in PlanRows /\ plan.state \in States
      /\ plan.state.nextDue \in Nat \cup {Unset} /\ now \in Nat
  BY EngineSteps, DateTypes DEF EngineInv
<1>2. CASE RefreshSchedule
  <2>1. /\ plan' = [plan EXCEPT !.state = [plan.state EXCEPT !.nextDue = Synced(plan.state.nextDue)]]
        /\ planned' = Horizon(plan.state.nextDue)
        /\ UNCHANGED <<work, running>> /\ running = Unset
    BY <1>2 DEF RefreshSchedule
  <2>2. /\ plan'.mode = plan.mode /\ plan'.policy = plan.policy
        /\ plan'.horizon = plan.horizon /\ plan'.lastCompleted = plan.lastCompleted
        /\ plan'.state.nextDue = Synced(plan.state.nextDue)
    BY <1>1, <2>1 DEF PlanRows, States
  <2>3. plan.mode = "CALENDAR" =>
            /\ Synced(plan.state.nextDue) = plan.state.nextDue
            /\ planned' = Dates(plan.state.nextDue, plan.horizon)
    <3> SUFFICES ASSUME plan.mode = "CALENDAR"
                 PROVE  /\ Synced(plan.state.nextDue) = plan.state.nextDue
                        /\ planned' = Dates(plan.state.nextDue, plan.horizon)
      OBVIOUS
    <3>1. FirstDue(plan.state.nextDue) = plan.state.nextDue
      BY DEF CadenceInv, FirstDue
    <3> QED BY <1>1, <2>1, <3>1, ScheduleSynced
  <2> QED BY <2>1, <2>2, <2>3, CadenceUntouched
<1>3. CASE \E due \in Nat \cup {Unset}, tasks \in SUBSET PlanTasks : Starts(due, tasks)
  BY <1>3, CadenceStarts
<1>4. CASE \E nextDue \in Nat \cup {Unset} : Tells(nextDue)
  BY <1>4, CadenceTells
<1>5. CASE \E t \in PlanTasks : TellsTask(t)
  <2>1. PICK t \in PlanTasks : TellsTask(t)
    BY <1>5
  <2>2. PICK row : row = [work[Len(work)] EXCEPT !.told = work[Len(work)].told \cup {t}]
    OBVIOUS
  <2>3. running # Unset /\ work[Len(work)] \in WorkRows /\ work[Len(work)].recorded
    BY <1>1, <2>1, LastWork DEF TellsTask
  <2>4. /\ row \in WorkRows /\ row.recorded /\ row.due = work[Len(work)].due
    BY <2>2, <2>3 DEF WorkRows
  <2>5. work' = [work EXCEPT ![Len(work)] = row] /\ UNCHANGED <<plan, planned>>
    BY <2>1, <2>2 DEF TellsTask
  <2>6. /\ DOMAIN work' = DOMAIN work /\ Len(work') = Len(work)
        /\ work'[Len(work)].recorded
        /\ \A w \in DOMAIN work : work'[w].due = work[w].due
    BY <1>1, <2>3, <2>4, <2>5, LastWritten
  <2> QED BY <2>5, <2>6 DEF CadenceInv, OnCadence, Dates
<1>6. CASE \E k \in DOMAIN work : CompleteWork(k)
  <2>1. PICK k \in DOMAIN work : CompleteWork(k)
    BY <1>6
  <2>2. PICK row : row = [work[k] EXCEPT !.done = TRUE]
    OBVIOUS
  <2>3. work[k] \in WorkRows /\ work \in Seq(WorkRows)
    BY <1>1, <2>1, DateTypes DEF RowsTyped
  <2>4. row \in WorkRows /\ row.due = work[k].due /\ row.recorded = work[k].recorded
    BY <2>2, <2>3 DEF WorkRows
  <2>5. /\ DOMAIN work' = DOMAIN work /\ Len(work') = Len(work)
        /\ \A w \in DOMAIN work : /\ work'[w].due = work[w].due
                                  /\ work'[w].recorded = work[w].recorded
    <3>1. work' = [work EXCEPT ![k] = row]
      BY <2>1, <2>2, CompletionKeeps
    <3> QED BY <2>1, <2>3, <2>4, <3>1, WorkWritten
  <2>6. running = Unset /\ running' = Unset
    BY <2>1 DEF CompleteWork
  <2>7. /\ plan'.mode = plan.mode /\ plan'.policy = plan.policy /\ plan'.horizon = plan.horizon
        /\ \/ /\ plan'.state = plan.state /\ planned' = planned
              /\ ~Floating \/ plan' = plan
           \/ /\ Floating /\ plan'.state.nextDue = now + Frequency /\ planned' = {}
              /\ plan'.lastCompleted = now
    BY <2>1, CompletionKeeps
  <2>8. CASE plan'.state = plan.state /\ planned' = planned /\ (~Floating \/ plan' = plan)
    BY <2>5, <2>6, <2>7, <2>8, CadenceUntouched DEF Floating
  <2>9. CASE /\ Floating /\ plan'.state.nextDue = now + Frequency /\ planned' = {}
             /\ plan'.lastCompleted = now
    BY <1>1, <2>6, <2>7, <2>9, PreventiveAssumption, UnsetAssumption DEF CadenceInv, Floating
  <2> QED BY <2>7, <2>8, <2>9
<1>7. CASE \E due \in DueDates \cup {plan.state.nextDue}, active \in BOOLEAN : UpdatePlan(due, active)
  <2>1. PICK due \in DueDates \cup {plan.state.nextDue}, active \in BOOLEAN : UpdatePlan(due, active)
    BY <1>7
  <2>2. UNCHANGED <<planned, work, running>> /\ running = Unset
    BY <2>1 DEF UpdatePlan
  <2>3. /\ plan'.mode = plan.mode /\ plan'.policy = plan.policy /\ plan'.horizon = plan.horizon
        /\ plan'.lastCompleted = plan.lastCompleted /\ plan'.state = plan.state
    BY <2>1, UpdateKeeps DEF SteadySchedule
  <2> QED BY <2>2, <2>3, CadenceUntouched
<1>8. CASE \/ \E value \in Values, valid \in BOOLEAN : RecordReading(value, valid)
           \/ Tick \/ RunEnds \/ UNCHANGED engineVars
  <2>1. UNCHANGED <<plan, planned, work>>
    BY <1>8, WorldKeeps
  <2>2. running' \in {Unset, running}
    BY <1>8 DEF RecordReading, Tick, RunEnds, engineVars
  <2> QED BY <2>1, <2>2 DEF CadenceInv, OnCadence, Dates
<1> QED BY <1>1, <1>2, <1>3, <1>4, <1>5, <1>6, <1>7, <1>8 DEF EngineStep

(* A fixed plan keeps its future dates and its work on the planned cadence, and a floating
   one plans no date before the last completion and a frequency, while its tasks follow
   the plan, nobody sets a due date and the horizon has a second occurrence to go on
   from. *)
THEOREM CadenceIsKept ==
    ASSUME SteadySchedule
    PROVE  EngineSpec => []CadenceKept
<1>1. EngineInit => EngineInv /\ CadenceInv
  BY EngineStarts, CadenceBegins
<1>2. EngineInv /\ CadenceInv /\ [EngineNext]_engineVars => EngineInv' /\ CadenceInv'
  BY EngineSteps, CadenceSteps
<1>3. EngineInv /\ CadenceInv => CadenceKept
  <2> SUFFICES ASSUME EngineInv, CadenceInv, plan.mode = "CALENDAR"
               PROVE  CadenceKept
    BY DEF CadenceKept, UsesOccurrences, Floating
  <2>1. /\ plan.state.nextDue \in Nat /\ plan.horizon \in Nat \ {0} /\ Frequency \in Nat
        /\ plan.lastCompleted # Unset => plan.lastCompleted \in Nat
    <3>1. plan.horizon \in Horizons /\ plan.lastCompleted \in Times \cup {Unset}
      BY DEF EngineInv, RowsTyped, PlanRows
    <3>2. plan.horizon \in Nat \ {0}
      BY <3>1, PreventiveAssumption
    <3>3. Times \subseteq Nat
      BY PreventiveAssumption DEF Times
    <3>4. plan.lastCompleted \in Nat \cup {Unset}
      BY <3>1, <3>3
    <3> QED BY <3>2, <3>4, DateTypes DEF EngineInv, CadenceInv
  <2>2. \A due \in planned : due \in Nat /\ plan.state.nextDue <= due
                             /\ due \in Dates(plan.state.nextDue, plan.horizon)
    BY <2>1, DatesFrom DEF CadenceInv
  <2>3. plan.policy = "FIXED" => \A due \in planned : due % Frequency = 0
    BY <2>1, <2>2, HorizonOnCadence DEF CadenceInv
  <2>4. plan.policy = "FIXED" =>
            \A w \in DOMAIN work : work[w].due # Unset => work[w].due % Frequency = 0
    BY MultipleDivides, PreventiveAssumption DEF CadenceInv, OnCadence
  <2>5. plan.policy = "FLOATING" /\ plan.lastCompleted # Unset =>
            \A due \in planned : due >= plan.lastCompleted + Frequency
    BY <2>1, <2>2 DEF CadenceInv
  <2> QED BY <2>3, <2>4, <2>5 DEF CadenceKept, Floating
<1> QED BY <1>1, <1>2, <1>3, PTL DEF EngineSpec

(* The next planned occurrence of a fixed plan leaves the schedule only when work was
   generated for it (_apply_plan_generation_state, _sync_calendar_plan_instances), under
   the same conditions. *)
THEOREM OccurrencesNotSkipped ==
    ASSUME SteadySchedule
    PROVE  EngineSpec => NoOccurrenceSkipped
<1>1. EngineInit => EngineInv /\ CadenceInv
  BY EngineStarts, CadenceBegins
<1>2. EngineInv /\ CadenceInv /\ [EngineNext]_engineVars => EngineInv' /\ CadenceInv'
  BY EngineSteps, CadenceSteps
<1> DEFINE Skips == plan.policy = "FIXED" /\ planned # {} =>
                        \/ Min(planned) \in planned'
                        \/ \E w \in DOMAIN work : work[w].due = Min(planned)
<1>3. EngineInv /\ CadenceInv /\ [EngineNext]_engineVars => [Skips]_engineVars
  <2> SUFFICES ASSUME EngineInv, CadenceInv, [EngineNext]_engineVars,
                      plan.policy = "FIXED", planned # {}
               PROVE  Skips
    OBVIOUS
  <2>1. plan.mode = "CALENDAR" /\ RowsTyped /\ plan.horizon \in Nat \ {0}
        /\ plan.state.nextDue \in Nat
    <3>1. plan.mode = "CALENDAR"
      BY DEF EngineInv, NoDates
    <3>2. plan.horizon \in Nat \ {0}
      BY PreventiveAssumption DEF EngineInv, RowsTyped, PlanRows
    <3> QED BY <3>1, <3>2, DateTypes DEF EngineInv, CadenceInv
  <2>2. planned = Dates(plan.state.nextDue, plan.horizon)
        /\ Min(planned) = plan.state.nextDue /\ Min(planned) \in planned
    BY <2>1, DatesFrom DEF CadenceInv
  <2>3. Horizon(plan.state.nextDue) = planned
    <3>1. FirstDue(plan.state.nextDue) = plan.state.nextDue
      BY <2>1, UnsetAssumption DEF FirstDue
    <3> QED BY <2>1, <2>2, <3>1, ScheduleSynced
  <2>4. EngineStep
    BY EngineSteps
  <2>5. CASE RefreshSchedule
    BY <2>2, <2>3, <2>5 DEF RefreshSchedule
  <2>6. CASE \E due \in Nat \cup {Unset}, tasks \in SUBSET PlanTasks : Starts(due, tasks)
    BY <2>2, <2>3, <2>6 DEF Starts
  <2>7. CASE \E nextDue \in Nat \cup {Unset} : Tells(nextDue)
    <3>1. running # Unset /\ ~work[Len(work)].recorded
      BY <2>7 DEF Tells
    <3>2. running.due # Unset /\ work[Len(work)].due = running.due
          /\ plan.state.nextDue = running.due
      BY <2>1, <3>1 DEF EngineInv, RunOK, CadenceInv
    <3>3. Len(work) \in DOMAIN work
      BY <2>1, <3>1, LastWork
    <3> QED BY <2>2, <3>2, <3>3
  <2>8. CASE \E t \in PlanTasks : TellsTask(t)
    BY <2>2, <2>8 DEF TellsTask
  <2>9. CASE \E k \in DOMAIN work : CompleteWork(k)
    BY <2>2, <2>9 DEF CompleteWork, Floating
  <2>10. CASE \E due \in DueDates \cup {plan.state.nextDue}, active \in BOOLEAN : UpdatePlan(due, active)
    BY <2>2, <2>10 DEF UpdatePlan
  <2>11. CASE \/ \E value \in Values, valid \in BOOLEAN : RecordReading(value, valid)
              \/ Tick \/ RunEnds \/ UNCHANGED engineVars
    BY <2>2, <2>11, WorldKeeps
  <2> QED BY <2>4, <2>5, <2>6, <2>7, <2>8, <2>9, <2>10, <2>11 DEF EngineStep
<1> QED BY <1>1, <1>2, <1>3, PTL DEF EngineSpec, NoOccurrenceSkipped
===============================================================================
