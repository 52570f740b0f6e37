----------------------------- MODULE ProjectWork -----------------------------
(* Projects, resources, project memberships, tasks, assignments, cost items, calendar
   events and baselines: which row refers to which, what every create and delete of
   the project services does to the rows that refer to the one it removes, and the
   governed changes of costs and baselines that wait for an approver in between.

   Identifiers are never reused, so a deleted row stays Gone.  The engine of the
   application does not switch on SQLite's foreign keys (create_engine is called
   without the pragma), so a row disappears only where a service deletes it.
   An approval commits what the handler does and then its decision, and the process
   may end between the two.                                                        *)
EXTENDS Integers, FiniteSets

CONSTANTS None, Gone,
          Projects, Resources, Members, Tasks, Assignments, Costs, Events,
          Baselines, Requests,   \* rows of each kind that may be created
          MaxVersion             \* bound on the edits of one cost item

ASSUME WorkAssumption == MaxVersion \in Nat \ {0}

VARIABLES db,       \* the tables
          request   \* governance requests

vars == <<db, request>>

ResourceRows == [active : BOOLEAN]
MemberRows == [project : Projects, resource : Resources, active : BOOLEAN]
TaskRows == [project : Projects]
AssignmentRows == [task : Tasks, resource : Resources, member : Members]
CostRows == [project : Projects, task : Tasks \cup {None}, version : 1..MaxVersion]
EventRows == [project : Projects \cup {None}, task : Tasks \cup {None}]
BaselineRows == [project : Projects, tasks : (SUBSET Tasks) \ {{}}]

RequestRows == [type : {"cost.add", "cost.update", "cost.delete", "baseline.create"},
                entity : Projects \cup Tasks \cup Costs,
                project : Projects,
                expected : 0..MaxVersion,   \* the version the requester saw, 0: not given
                status : {"PENDING", "APPROVED", "REJECTED"}]

(* Identifiers and rows are never taken for a missing or a deleted row, nor a project
   for a cost item. *)
ASSUME RowsAssumption == /\ None # Gone
                         /\ {None, Gone} \cap (ResourceRows \cup MemberRows) = {}
                         /\ Costs \cap Projects = {}

Table(keys, rows) == [keys -> rows \cup {None, Gone}]

(* TypeOK: every table holds rows of its own shape; a baseline snapshots at least one
   task and an edited cost item counts its versions from one. *)
TypeOK == /\ db \in [project : Table(Projects, {"LIVE"}),
                     resource : Table(Resources, ResourceRows),
                     member : Table(Members, MemberRows),
                     task : Table(Tasks, TaskRows),
                     assignment : Table(Assignments, AssignmentRows),
                     cost : Table(Costs, CostRows),
                     event : Table(Events, EventRows),
                     baseline : Table(Baselines, BaselineRows)]
          /\ request \in [Requests -> RequestRows \cup {None}]

Empty(keys) == [k \in keys |-> None]

Init == /\ db = [project |-> Empty(Projects), resource |-> Empty(Resources),
                 member |-> Empty(Members), task |-> Empty(Tasks),
                 assignment |-> Empty(Assignments), cost |-> Empty(Costs),
                 event |-> Empty(Events), baseline |-> Empty(Baselines)]
        /\ request = Empty(Requests)

Live(table) == {k \in DOMAIN table : table[k] \notin {None, Gone}}
Without(table, keys) == [k \in DOMAIN table |-> IF k \in keys THEN Gone ELSE table[k]]

TasksOf(p) == {t \in Live(db.task) : db.task[t].project = p}
AssignmentsOf(tasks) == {x \in Live(db.assignment) : db.assignment[x].task \in tasks}

EventsOf(tasks) == {e \in Live(db.event) : db.event[e].task \in tasks}
CostsOf(tasks) == {c \in Live(db.cost) : db.cost[c].task \in tasks}

(* Every operation on the tables leaves the requests alone. *)
Write(tables) == db' = tables /\ UNCHANGED request

-----------------------------------------------------------------------------
(* Projects and resources *)

CreateProject(p) == /\ db.project[p] = None
                    /\ Write([db EXCEPT !.project[p] = "LIVE"])

DeleteProject(p) ==
    /\ p \in Live(db.project)
    /\ LET tasks == TasksOf(p)
       IN  Write([db EXCEPT
             !.task = Without(@, tasks),
             !.assignment = Without(@, AssignmentsOf(tasks)),
             !.cost = Without(@, {c \in Live(@) : @[c].project = p}),
             !.event = Without(@, EventsOf(tasks) \cup {e \in Live(@) : @[e].project = p}),
             !.project[p] = Gone])

CreateResource(r, active) == /\ db.resource[r] = None
                             /\ Write([db EXCEPT !.resource[r] = [active |-> active]])

UpdateResource(r, active) == /\ r \in Live(db.resource)
                             /\ Write([db EXCEPT !.resource[r].active = active])

DeleteResource(r) ==
    /\ r \in Live(db.resource)
    /\ Write([db EXCEPT
         !.assignment = Without(@, {x \in Live(@) : @[x].resource = r}),
         !.member = Without(@, {m \in Live(@) : @[m].resource = r}),
         !.resource[r] = Gone])

-----------------------------------------------------------------------------
(* Memberships (ProjectResourceService) *)

GetForProject(p, r) == {m \in Live(db.member) : /\ db.member[m].project = p
                                                /\ db.member[m].resource = r}

AddToProject(m, p, r, active) ==
    /\ db.member[m] = None
    /\ p \in Live(db.project)
    /\ r \in Live(db.resource)
    /\ db.resource[r].active
    /\ GetForProject(p, r) = {}
    /\ Write([db EXCEPT !.member[m] = [project |-> p, resource |-> r, active |-> active]])

(* update and set_active *)
SetActive(m, active) == /\ m \in Live(db.member)
                        /\ Write([db EXCEPT !.member[m].active = active])

DeleteMember(m) == /\ m \in Live(db.member)
                   /\ Write([db EXCEPT !.member[m] = Gone])

-----------------------------------------------------------------------------
(* Tasks and assignments *)

CreateTask(t, p) == /\ db.task[t] = None
                    /\ p \in Live(db.project)
                    /\ Write([db EXCEPT !.task[t] = [project |-> p]])

DeleteTask(t) == /\ t \in Live(db.task)
                 /\ Write([db EXCEPT !.assignment = Without(@, AssignmentsOf({t})),
                                     !.event = Without(@, EventsOf({t})),
                                     !.cost = Without(@, CostsOf({t})),
                                     !.task[t] = Gone])

Assigned(tables, x, t, m) ==
    [tables EXCEPT !.assignment[x] =
        [task |-> t, resource |-> tables.member[m].resource, member |-> m]]

MemberMayWork(tables, t, m) == /\ tables.member[m].project = tables.task[t].project
                               /\ tables.member[m].active

(* assign_project_resource.  With the strict policy an over-allocated resource is
   refused, which changes nothing. *)
AssignProjectResource(x, t, m) ==
    /\ db.assignment[x] = None
    /\ t \in Live(db.task)
    /\ m \in Live(db.member)
    /\ MemberMayWork(db, t, m)
    /\ Write(Assigned(db, x, t, m))

(* assign_resource with a membership in place, or creating one in a commit of its own;
   the second half may still be refused (an inactive resource, the strict policy), and
   the new membership stays. *)
AssignResource(x, m, t, r) ==
    /\ db.assignment[x] = None
    /\ t \in Live(db.task)
    /\ r \in Live(db.resource)
    /\ LET p == db.task[t].project
           joined == [db EXCEPT !.member[m] = [project |-> p, resource |-> r,
                                               active |-> db.resource[r].active]]
       IN  \/ /\ m \in GetForProject(p, r)
              /\ MemberMayWork(db, t, m)
              /\ Write(Assigned(db, x, t, m))
           \/ /\ GetForProject(p, r) = {}
              /\ db.member[m] = None
              /\ MemberMayWork(joined, t, m)
              /\ Write(Assigned(joined, x, t, m))
           \/ /\ GetForProject(p, r) = {}
              /\ db.member[m] = None
              /\ Write(joined)

UnassignResource(x) == /\ x \in Live(db.assignment)
                       /\ db.assignment[x].task \in Live(db.task)
                       /\ Write([db EXCEPT !.assignment[x] = Gone])

-----------------------------------------------------------------------------
(* Calendar events *)

(* create_event checks none of the identifiers it is given; the caller takes them from
   rows on display.  sync_task_to_calendar creates the event of a task. *)
CreateEvent(e, p, t) ==
    /\ db.event[e] = None
    /\ p \in Live(db.project) \cup {None}
    /\ t \in (IF p = None THEN {} ELSE TasksOf(p)) \cup {None}
    /\ Write([db EXCEPT !.event[e] = [project |-> p, task |-> t]])

DeleteEvent(e) == /\ e \in Live(db.event)
                  /\ Write([db EXCEPT !.event[e] = Gone])

-----------------------------------------------------------------------------
(* Cost items and baselines.  Each operation is a function of the tables it is applied
   to, so that the same one runs at once for an administrator and later, with the
   payload of a request, for everyone else. *)

CostTargetProjectOnly(p, entity) == p \in Live(db.project)

(* _require_project and _resolve_task_for_project; entity is the task, or the project. *)
CostTarget(p, entity) ==
    /\ p \in Live(db.project)
    /\ entity \in Projects => entity = p
    /\ entity \in Tasks => entity \in Live(db.task) /\ db.task[entity].project = p

CostAdded(c, p, entity) ==
    [db EXCEPT !.cost[c] = [project |-> p, version |-> 1,
                            task |-> IF entity \in Tasks THEN entity ELSE None]]

CostUpdatableUnchecked(c, expected) == c \in Live(db.cost)

(* update_cost_item: a version that is given must be the current one. *)
CostUpdatable(c, expected) == /\ c \in Live(db.cost)
                              /\ expected \in {0, db.cost[c].version}

CostUpdated(c) == [db EXCEPT !.cost[c].version = @ + 1]
CostDeleted(c) == [db EXCEPT !.cost[c] = Gone]

Baselinable(p) == p \in Live(db.project) /\ TasksOf(p) # {}
BaselineCreated(b, p) == [db EXCEPT !.baseline[b] = [project |-> p, tasks |-> TasksOf(p)]]

AddCostItem(c, p, entity) == /\ db.cost[c] = None
                             /\ CostTarget(p, entity)
                             /\ Write(CostAdded(c, p, entity))

UpdateCostItem(c, expected) == /\ CostUpdatable(c, expected)
                               /\ db.cost[c].version < MaxVersion
                               /\ Write(CostUpdated(c))

DeleteCostItem(c) == /\ c \in Live(db.cost)
                     /\ Write(CostDeleted(c))

CreateBaseline(b, p) == /\ db.baseline[b] = None
                        /\ Baselinable(p)
                        /\ Write(BaselineCreated(b, p))

DeleteBaseline(b) == /\ b \in Live(db.baseline)
                     /\ Write([db EXCEPT !.baseline[b] = Gone])

-----------------------------------------------------------------------------
(* Governance: the operation of a user who is not an administrator becomes a request,
   one pending at a time for an entity of a type.  A cost item's identifier, the
   task's and the project's all count as entities of type cost_item. *)

EntityType(type) == IF type = "baseline.create" THEN "project_baseline" ELSE "cost_item"

PendingForSameType(type, entity) ==
    {q \in Requests : /\ request[q] # None
                      /\ request[q].status = "PENDING"
                      /\ request[q].type = type
                      /\ request[q].entity = entity}

PendingFor(type, entity) ==
    {q \in Requests : /\ request[q] # None
                      /\ request[q].status = "PENDING"
                      /\ EntityType(request[q].type) = EntityType(type)
                      /\ request[q].entity = entity}

RequestChange(q, type, entity, p, expected) ==
    /\ request[q] = None
    /\ PendingFor(type, entity) = {}
    /\ request' = [request EXCEPT ![q] = [type |-> type, entity |-> entity, project |-> p,
                                          expected |-> expected, status |-> "PENDING"]]
    /\ UNCHANGED db

RequestCostAdd(q, p, entity) == /\ CostTarget(p, entity)
                                /\ RequestChange(q, "cost.add", entity, p, 0)

(* The editor passes the version of the item it shows. *)
RequestCostUpdate(q, c) ==
    /\ c \in Live(db.cost)
    /\ RequestChange(q, "cost.update", c, db.cost[c].project, db.cost[c].version)

RequestCostDelete(q, c) ==
    /\ c \in Live(db.cost)
    /\ RequestChange(q, "cost.delete", c, db.cost[c].project, 0)

RequestBaseline(q, p) == /\ p \in Live(db.project)
                         /\ RequestChange(q, "baseline.create", p, p, 0)

Decide(q, status) == request' = [request EXCEPT ![q].status = status]

(* The decision is committed after the handler, unless the process ends between. *)
Approve(q) == Decide(q, "APPROVED") \/ UNCHANGED request

IsPending(q, type) == /\ request[q] # None
                      /\ request[q].status = "PENDING"
                      /\ request[q].type = type

(* approve_and_apply: the handler runs the operation again, checks included; an
   exception leaves the request pending. *)
ApproveCostAdd(q, c) == /\ IsPending(q, "cost.add")
                        /\ db.cost[c] = None
                        /\ CostTarget(request[q].project, request[q].entity)
                        /\ db' = CostAdded(c, request[q].project, request[q].entity)
                        /\ Approve(q)

ApproveCostUpdate(q) == /\ IsPending(q, "cost.update")
                        /\ CostUpdatable(request[q].entity, request[q].expected)
                        /\ db.cost[request[q].entity].version < MaxVersion
                        /\ db' = CostUpdated(request[q].entity)
                        /\ Approve(q)

ApproveCostDelete(q) == /\ IsPending(q, "cost.delete")
                        /\ request[q].entity \in Live(db.cost)
                        /\ db' = CostDeleted(request[q].entity)
                        /\ Approve(q)

ApproveBaseline(q, b) == /\ IsPending(q, "baseline.create")
                         /\ db.baseline[b] = None
                         /\ Baselinable(request[q].project)
                         /\ db' = BaselineCreated(b, request[q].project)
                         /\ Approve(q)

RejectRequest(q) == /\ request[q] # None
                    /\ request[q].status = "PENDING"
                    /\ Decide(q, "REJECTED")
                    /\ UNCHANGED db

-----------------------------------------------------------------------------
ProjectNext == \E p \in Projects :
    \/ CreateProject(p)
    \/ DeleteProject(p)
    \/ \E t \in Tasks : CreateTask(t, p)
    \/ \E m \in Members, r \in Resources, active \in BOOLEAN : AddToProject(m, p, r, active)

ResourceNext ==
    \/ \E r \in Resources : DeleteResource(r)
    \/ \E r \in Resources, active \in BOOLEAN :
          CreateResource(r, active) \/ UpdateResource(r, active)
    \/ \E m \in Members : DeleteMember(m)
    \/ \E m \in Members, active \in BOOLEAN : SetActive(m, active)

TaskNext ==
    \/ \E t \in Tasks : DeleteTask(t)
    \/ \E x \in Assignments, t \in Tasks, m \in Members : AssignProjectResource(x, t, m)
    \/ \E x \in Assignments, t \in Tasks, m \in Members, r \in Resources :
          AssignResource(x, m, t, r)
    \/ \E x \in Assignments : UnassignResource(x)
    \/ \E e \in Events, p \in Projects \cup {None}, t \in Tasks \cup {None} :
          CreateEvent(e, p, t)
    \/ \E e \in Events : DeleteEvent(e)

CostNext ==
    \/ \E c \in Costs, p \in Projects, entity \in Projects \cup Tasks :
          AddCostItem(c, p, entity)
    \/ \E c \in Costs, expected \in 0..MaxVersion : UpdateCostItem(c, expected)
    \/ \E c \in Costs : DeleteCostItem(c)
    \/ \E b \in Baselines, p \in Projects : CreateBaseline(b, p)
    \/ \E b \in Baselines : DeleteBaseline(b)

GovernanceNext == \E q \in Requests :
    \/ \E p \in Projects, entity \in Projects \cup Tasks : RequestCostAdd(q, p, entity)
    \/ \E c \in Costs : RequestCostUpdate(q, c) \/ RequestCostDelete(q, c)
    \/ \E p \in Projects : RequestBaseline(q, p)
    \/ \E c \in Costs : ApproveCostAdd(q, c)
    \/ ApproveCostUpdate(q)
    \/ ApproveCostDelete(q)
    \/ \E b \in Baselines : ApproveBaseline(q, b)
    \/ RejectRequest(q)

Next == ProjectNext \/ ResourceNext \/ TaskNext \/ CostNext \/ GovernanceNext

Spec == Init /\ [][Next]_vars

-----------------------------------------------------------------------------
(* AssignmentsResolve: whatever is deleted, in whatever order, an assignment always has
   its task, that task's project and its resource, and it agrees with its membership on
   resource and project while the membership exists: reports follow these references
   without looking back. *)
AssignmentsResolve ==
    \A x \in Live(db.assignment) :
        LET row == db.assignment[x]
            m == row.member
        IN  /\ row.task \in Live(db.task)
            /\ db.task[row.task].project \in Live(db.project)
            /\ row.resource \in Live(db.resource)
            /\ m \in Live(db.member) =>
                  /\ db.member[m].resource = row.resource
                  /\ db.member[m].project = db.task[row.task].project

(* MembershipsUnique: a resource is never on a project twice and never after it was
   deleted, although memberships are created by two services, one of them while it
   assigns: the planned labour of a baseline would be counted double. *)
MembershipsUnique ==
    \A m \in Live(db.member) :
        /\ db.member[m].resource \in Live(db.resource)
        /\ GetForProject(db.member[m].project, db.member[m].resource) = {m}

(* CostsResolve: a cost item belongs to an existing project and, if to a task, to one of
   that project; also one whose request waited while tasks and projects were deleted. *)
CostsResolve ==
    \A c \in Live(db.cost) :
        /\ db.cost[c].project \in Live(db.project)
        /\ db.cost[c].task # None =>
              /\ db.cost[c].task \in Live(db.task)
              /\ db.task[db.cost[c].task].project = db.cost[c].project

(* EventsResolve: an event's project and task exist. *)
EventsResolve ==
    \A e \in Live(db.event) :
        /\ db.event[e].project # None => db.event[e].project \in Live(db.project)
        /\ db.event[e].task # None => db.event[e].task \in Live(db.task)

(* RowsResolve: whatever is created, approved and deleted, in whatever order, the references
   of assignments, cost items and events that reports follow without looking lead to rows,
   and memberships are unique and of a resource that exists.  Left out, because the code
   leaves them behind: memberships and baselines of a deleted project, and an assignment's
   reference to a membership that was deleted. *)
RowsResolve == /\ TypeOK
               /\ AssignmentsResolve
               /\ MembershipsUnique
               /\ CostsResolve
               /\ EventsResolve

(* OneRequestPerItem: at most one request is pending about one cost item, so that an
   update and a deletion of it can never both wait for an approver. *)
OneRequestPerItem ==
    \A q1, q2 \in Requests :
        /\ request[q1] # None /\ request[q1].status = "PENDING"
        /\ request[q2] # None /\ request[q2].status = "PENDING"
        /\ request[q1].entity \in Costs
        /\ request[q1].entity = request[q2].entity
        => q1 = q2

(* ApprovedEditIsFresh: approving an edit never overwrites a change its requester had
   not seen: the item still has the version it was requested on. *)
ApprovedEditIsFresh ==
    [][\A q \in Requests :
          /\ request[q] # None /\ request[q].type = "cost.update"
          /\ request'[q].status = "APPROVED" /\ request[q].status = "PENDING"
          => db.cost[request[q].entity].version = request[q].expected]_vars
=============================================================================
