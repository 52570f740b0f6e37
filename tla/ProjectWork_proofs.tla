--------------------------- MODULE ProjectWork_proofs ---------------------------
(* Proofs about ProjectWork, for every set of projects, resources, memberships, tasks,
   assignments, cost items, events, baselines and requests.

   RowsResolve is not inductive: an assignment may be created on any live task, so every
   live task must have its project (TasksResolve), and an assignment keeps naming a
   membership that was deleted, so that membership must never be created again
   (MembersKnown).  OneRequestPerItem and ApprovedEditIsFresh rest on what the requests
   of a type say (RequestsFormed).                                                     *)
EXTENDS ProjectWork, TLAPS

-----------------------------------------------------------------------------
(* The tables *)

ProjectTable == Table(Projects, {"LIVE"})
ResourceTable == Table(Resources, ResourceRows)
MemberTable == Table(Members, MemberRows)
TaskTable == Table(Tasks, TaskRows)
AssignmentTable == Table(Assignments, AssignmentRows)
CostTable == Table(Costs, CostRows)
EventTable == Table(Events, EventRows)
BaselineTable == Table(Baselines, BaselineRows)

Tables == [project : ProjectTable, resource : ResourceTable, member : MemberTable,
           task : TaskTable, assignment : AssignmentTable, cost : CostTable,
           event : EventTable, baseline : BaselineTable]

RequestTable == [Requests -> RequestRows \cup {None}]

(* The type invariant, as membership of the tables. *)
LEMMA TablesTyped == TypeOK <=> db \in Tables /\ request \in RequestTable
  BY DEF TypeOK, Tables, ProjectTable, ResourceTable, MemberTable, TaskTable,
         AssignmentTable, CostTable, EventTable, BaselineTable, RequestTable

(* The same after a step. *)
LEMMA TypedAfter ==
    ASSUME db' \in Tables, request' \in RequestTable
    PROVE  TypeOK'
  BY DEF TypeOK, Tables, ProjectTable, ResourceTable, MemberTable, TaskTable,
         AssignmentTable, CostTable, EventTable, BaselineTable, RequestTable

(* A membership is neither missing nor deleted. *)
LEMMA MemberNotNone == {None, Gone} \cap MemberRows = {}
  BY RowsAssumption

(* A live row of a table is a row, at one of its keys. *)
LEMMA LiveRows ==
    ASSUME NEW K, NEW R, NEW f \in Table(K, R)
    PROVE  Live(f) \subseteq K /\ \A k \in Live(f) : f[k] \in R
  BY DEF Table, Live

(* Deleting the rows of a set of keys *)
LEMMA DeletedRows ==
    ASSUME NEW K, NEW R, NEW f \in Table(K, R), NEW S
    PROVE  /\ Without(f, S) \in Table(K, R)
           /\ Live(Without(f, S)) = Live(f) \ S
           /\ \A k \in K : Without(f, S)[k] = IF k \in S THEN Gone ELSE f[k]
  BY DEF Table, Live, Without

(* Writing one row, and deleting one *)
LEMMA WrittenRow ==
    ASSUME NEW K, NEW R, NEW f \in Table(K, R), NEW k \in K, NEW r \in R, r \notin {None, Gone},
           NEW g, g = [f EXCEPT ![k] = r]
    PROVE  /\ g \in Table(K, R)
           /\ Live(g) = Live(f) \cup {k}
  BY DEF Table, Live

(* Deleting one row. *)
LEMMA DeletedRow ==
    ASSUME NEW K, NEW R, NEW f \in Table(K, R), NEW k \in K, NEW g, g = [f EXCEPT ![k] = Gone]
    PROVE  /\ g \in Table(K, R)
           /\ Live(g) = Live(f) \ {k}
  BY DEF Table, Live

-----------------------------------------------------------------------------
(* References *)

TasksResolve == \A t \in Live(db.task) : db.task[t].project \in Live(db.project)

MembersKnown == \A x \in Live(db.assignment) : db.member[db.assignment[x].member] # None

RowsInv == /\ RowsResolve
           /\ TasksResolve
           /\ MembersKnown

(* What a step leaves of the rows that others refer to *)
ProjectsKept == Live(db.project) \subseteq Live(db'.project)
ResourcesKept == Live(db.resource) \subseteq Live(db'.resource)
TasksKept == \A t \in Live(db.task) : t \in Live(db'.task) /\ db'.task[t] = db.task[t]
MembersKept ==
    \A m \in Members : db.member[m] # None =>
        /\ db'.member[m] # None
        /\ m \in Live(db'.member) =>
              /\ m \in Live(db.member)
              /\ db'.member[m].project = db.member[m].project
              /\ db'.member[m].resource = db.member[m].resource

(* ... and of the rows that refer to others *)
NoneNew(before, after) == \A k \in Live(after) : k \in Live(before) /\ after[k] = before[k]

(* Live rows have the shape of their table. *)
LEMMA RowsTyped ==
    ASSUME TypeOK
    PROVE  /\ Live(db.project) \subseteq Projects
           /\ Live(db.resource) \subseteq Resources
           /\ \A m \in Live(db.member) : m \in Members /\ db.member[m] \in MemberRows
           /\ \A t \in Live(db.task) : t \in Tasks /\ db.task[t] \in TaskRows
           /\ \A x \in Live(db.assignment) :
                 x \in Assignments /\ db.assignment[x] \in AssignmentRows
           /\ \A c \in Live(db.cost) : c \in Costs /\ db.cost[c] \in CostRows
           /\ \A e \in Live(db.event) : e \in Events /\ db.event[e] \in EventRows
<1>1. db \in Tables
  BY TablesTyped
<1>2. /\ db.project \in ProjectTable /\ db.resource \in ResourceTable
      /\ db.member \in MemberTable /\ db.task \in TaskTable
      /\ db.assignment \in AssignmentTable /\ db.cost \in CostTable
      /\ db.event \in EventTable
  BY <1>1 DEF Tables
<1> QED BY <1>2 DEF Table, Live, ProjectTable, ResourceTable, MemberTable, TaskTable,
                    AssignmentTable, CostTable, EventTable

(* Assignments keep resolving when no row they refer to goes and none of them is new. *)
LEMMA AssignmentsStay ==
    ASSUME RowsInv, ProjectsKept, ResourcesKept, TasksKept, MembersKept,
           NoneNew(db.assignment, db'.assignment)
    PROVE  AssignmentsResolve' /\ MembersKnown'
<1> SUFFICES ASSUME NEW x \in Live(db'.assignment)
             PROVE  LET row == db'.assignment[x]
                        m == row.member
                    IN  /\ row.task \in Live(db'.task)
                        /\ db'.task[row.task].project \in Live(db'.project)
                        /\ row.resource \in Live(db'.resource)
                        /\ m \in Live(db'.member) =>
                              /\ db'.member[m].resource = row.resource
                              /\ db'.member[m].project = db'.task[row.task].project
                        /\ db'.member[m] # None
  BY DEF AssignmentsResolve, MembersKnown
<1>1. x \in Live(db.assignment) /\ db'.assignment[x] = db.assignment[x]
  BY DEF NoneNew
<1>2. db.assignment[x].member \in Members
  BY <1>1, RowsTyped DEF RowsInv, RowsResolve, AssignmentRows
<1> DEFINE row == db.assignment[x]
<1>3. /\ row.task \in Live(db.task)
      /\ db.task[row.task].project \in Live(db.project)
      /\ row.resource \in Live(db.resource)
      /\ row.member \in Live(db.member) =>
            /\ db.member[row.member].resource = row.resource
            /\ db.member[row.member].project = db.task[row.task].project
      /\ db.member[row.member] # None
  BY <1>1 DEF RowsInv, RowsResolve, AssignmentsResolve, MembersKnown
<1> QED BY <1>1, <1>2, <1>3 DEF ProjectsKept, ResourcesKept, TasksKept, MembersKept

(* Tasks keep resolving when no project goes and no task is new. *)
LEMMA TasksStay ==
    ASSUME RowsInv, ProjectsKept, NoneNew(db.task, db'.task)
    PROVE  TasksResolve'
  BY DEF RowsInv, TasksResolve, ProjectsKept, NoneNew

(* Memberships stay unique when the table stays. *)
LEMMA MembersStay ==
    ASSUME RowsInv, ResourcesKept, UNCHANGED db.member
    PROVE  MembershipsUnique'
  BY DEF RowsInv, RowsResolve, MembershipsUnique, ResourcesKept, GetForProject

(* Cost items keep resolving when no row they refer to goes and none of them moves. *)
LEMMA CostsStay ==
    ASSUME RowsInv, ProjectsKept, TasksKept,
           \A c \in Live(db'.cost) : /\ c \in Live(db.cost)
                                     /\ db'.cost[c].project = db.cost[c].project
                                     /\ db'.cost[c].task = db.cost[c].task
    PROVE  CostsResolve'
  BY DEF RowsInv, RowsResolve, CostsResolve, ProjectsKept, TasksKept

(* Calendar events keep resolving when no row they refer to goes and none is new. *)
LEMMA EventsStay ==
    ASSUME RowsInv, ProjectsKept, TasksKept, NoneNew(db.event, db'.event)
    PROVE  EventsResolve'
  BY DEF RowsInv, RowsResolve, EventsResolve, ProjectsKept, TasksKept, NoneNew

(* Tables that a step leaves alone are kept. *)
LEMMA SameTables ==
    /\ UNCHANGED db.project => ProjectsKept
    /\ UNCHANGED db.resource => ResourcesKept
    /\ UNCHANGED db.task => TasksKept /\ NoneNew(db.task, db'.task)
    /\ UNCHANGED db.assignment => NoneNew(db.assignment, db'.assignment)
    /\ UNCHANGED db.event => NoneNew(db.event, db'.event)
    /\ UNCHANGED db.cost =>
          \A c \in Live(db'.cost) : /\ c \in Live(db.cost)
                                    /\ db'.cost[c].project = db.cost[c].project
                                    /\ db'.cost[c].task = db.cost[c].task
  BY DEF ProjectsKept, ResourcesKept, TasksKept, NoneNew

(* Memberships that stay are kept. *)
LEMMA SameMembers ==
    ASSUME UNCHANGED db.member PROVE MembersKept
  BY DEF MembersKept

-----------------------------------------------------------------------------
(* One table written *)

(* Writing the table of projects leaves the others alone. *)
LEMMA ProjectWritten ==
    ASSUME db \in Tables, NEW f \in ProjectTable, db' = [db EXCEPT !.project = f]
    PROVE  /\ db' \in Tables /\ db'.project = f
           /\ UNCHANGED <<db.resource, db.member, db.task, db.assignment,
                          db.cost, db.event, db.baseline>>
  BY DEF Tables

(* Writing the table of resources leaves the others alone. *)
LEMMA ResourceWritten ==
    ASSUME db \in Tables, NEW f \in ResourceTable, db' = [db EXCEPT !.resource = f]
    PROVE  /\ db' \in Tables /\ db'.resource = f
           /\ UNCHANGED <<db.project, db.member, db.task, db.assignment,
                          db.cost, db.event, db.baseline>>
  BY DEF Tables

(* Writing the table of memberships leaves the others alone. *)
LEMMA MemberWritten ==
    ASSUME db \in Tables, NEW f \in MemberTable, db' = [db EXCEPT !.member = f]
    PROVE  /\ db' \in Tables /\ db'.member = f
           /\ UNCHANGED <<db.project, db.resource, db.task, db.assignment,
                          db.cost, db.event, db.baseline>>
  BY DEF Tables

(* Writing the table of tasks leaves the others alone. *)
LEMMA TaskWritten ==
    ASSUME db \in Tables, NEW f \in TaskTable, db' = [db EXCEPT !.task = f]
    PROVE  /\ db' \in Tables /\ db'.task = f
           /\ UNCHANGED <<db.project, db.resource, db.member, db.assignment,
                          db.cost, db.event, db.baseline>>
  BY DEF Tables

(* Writing the table of assignments leaves the others alone. *)
LEMMA AssignmentWritten ==
    ASSUME db \in Tables, NEW f \in AssignmentTable, db' = [db EXCEPT !.assignment = f]
    PROVE  /\ db' \in Tables /\ db'.assignment = f
           /\ UNCHANGED <<db.project, db.resource, db.member, db.task,
                          db.cost, db.event, db.baseline>>
  BY DEF Tables

(* Writing the table of cost items leaves the others alone. *)
LEMMA CostWritten ==
    ASSUME db \in Tables, NEW f \in CostTable, db' = [db EXCEPT !.cost = f]
    PROVE  /\ db' \in Tables /\ db'.cost = f
           /\ UNCHANGED <<db.project, db.resource, db.member, db.task,
                          db.assignment, db.event, db.baseline>>
  BY DEF Tables

(* Writing the table of calendar events leaves the others alone. *)
LEMMA EventWritten ==
    ASSUME db \in Tables, NEW f \in EventTable, db' = [db EXCEPT !.event = f]
    PROVE  /\ db' \in Tables /\ db'.event = f
           /\ UNCHANGED <<db.project, db.resource, db.member, db.task,
                          db.assignment, db.cost, db.baseline>>
  BY DEF Tables

(* Writing the table of baselines leaves the others alone. *)
LEMMA BaselineWritten ==
    ASSUME db \in Tables, NEW f \in BaselineTable, db' = [db EXCEPT !.baseline = f]
    PROVE  /\ db' \in Tables /\ db'.baseline = f
           /\ UNCHANGED <<db.project, db.resource, db.member, db.task,
                          db.assignment, db.cost, db.event>>
  BY DEF Tables

-----------------------------------------------------------------------------
(* Projects and resources *)

(* create_project. *)
LEMMA ProjectCreated ==
    ASSUME RowsInv, NEW p \in Projects, CreateProject(p)
    PROVE  RowsInv'
<1> DEFINE f == [db.project EXCEPT ![p] = "LIVE"]
<1>1. db \in Tables /\ request \in RequestTable /\ UNCHANGED request
  BY TablesTyped DEF RowsInv, RowsResolve, CreateProject, Write
<1>2. db.project \in ProjectTable
  BY <1>1 DEF Tables
<1>3. f \in ProjectTable /\ Live(db.project) \subseteq Live(f)
  <2>1. f \in ProjectTable
    BY <1>2 DEF ProjectTable, Table
  <2>2. \A k \in Live(db.project) : k # p
    BY DEF CreateProject, Live
  <2> QED BY <1>2, <2>1, <2>2 DEF Live, ProjectTable, Table
<1>4. db' = [db EXCEPT !.project = f]
  BY <1>1 DEF CreateProject, Write, Tables
<1> HIDE DEF f
<1>5. /\ db' \in Tables /\ db'.project = f
      /\ UNCHANGED <<db.resource, db.member, db.task, db.assignment, db.cost, db.event>>
  BY <1>1, <1>3, <1>4, ProjectWritten
<1>6. ProjectsKept
  BY <1>3, <1>5 DEF ProjectsKept
<1>7. TypeOK'
  BY <1>1, <1>5, TypedAfter
<1> QED BY <1>5, <1>6, <1>7, SameTables, SameMembers, AssignmentsStay, TasksStay, MembersStay,
           CostsStay, EventsStay DEF RowsInv, RowsResolve

(* create_resource and update_resource. *)
LEMMA ResourceSaved ==
    ASSUME RowsInv, NEW r \in Resources, NEW active \in BOOLEAN,
           CreateResource(r, active) \/ UpdateResource(r, active)
    PROVE  RowsInv'
<1> DEFINE f == [db.resource EXCEPT ![r] = [active |-> active]]
<1>1. db \in Tables /\ request \in RequestTable /\ UNCHANGED request
  BY TablesTyped DEF RowsInv, RowsResolve, CreateResource, UpdateResource, Write
<1>2. db.resource \in ResourceTable
  BY <1>1 DEF Tables
<1>3. [active |-> active] \in ResourceRows /\ [active |-> active] \notin {None, Gone}
  BY RowsAssumption DEF ResourceRows
<1>4. f \in ResourceTable /\ Live(db.resource) \subseteq Live(f)
  <2>1. f \in ResourceTable /\ Live(f) = Live(db.resource) \cup {r}
    <3>1. f = [db.resource EXCEPT ![r] = [active |-> active]]
      OBVIOUS
    <3> HIDE DEF f
    <3> QED BY <1>2, <1>3, <3>1, WrittenRow DEF ResourceTable
  <2> QED BY <2>1
<1>5. db' = [db EXCEPT !.resource = f]
  <2>1. CASE CreateResource(r, active)
    BY <2>1, <1>1 DEF CreateResource, Write, Tables
  <2>2. CASE UpdateResource(r, active)
    <3>1. db.resource[r] \in ResourceRows
      BY <2>2, <1>2 DEF UpdateResource, ResourceTable, Table, Live
    <3>2. [db.resource[r] EXCEPT !.active = active] = [active |-> active]
      BY <3>1 DEF ResourceRows
    <3>3. db' = [db EXCEPT !.resource =
                    [db.resource EXCEPT ![r] = [db.resource[r] EXCEPT !.active = active]]]
      BY <2>2, <1>1, <1>2 DEF UpdateResource, Write, Tables
    <3> QED BY <3>2, <3>3
  <2> QED BY <2>1, <2>2
<1> HIDE DEF f
<1>6. /\ db' \in Tables /\ db'.resource = f
      /\ UNCHANGED <<db.project, db.member, db.task, db.assignment, db.cost, db.event>>
  BY <1>1, <1>4, <1>5, ResourceWritten
<1>7. ResourcesKept
  BY <1>4, <1>6 DEF ResourcesKept
<1>8. TypeOK'
  BY <1>1, <1>6, TypedAfter
<1> QED BY <1>6, <1>7, <1>8, SameTables, SameMembers, AssignmentsStay, TasksStay, MembersStay,
           CostsStay, EventsStay DEF RowsInv, RowsResolve

(* delete_project, with everything that belongs to the project. *)
LEMMA ProjectDeleted ==
    ASSUME RowsInv, NEW p \in Projects, DeleteProject(p)
    PROVE  RowsInv'
<1> DEFINE tasks == TasksOf(p)
           assignments == AssignmentsOf(tasks)
           costs == {c \in Live(db.cost) : db.cost[c].project = p}
           events == EventsOf(tasks) \cup {e \in Live(db.event) : db.event[e].project = p}
           projects == [db.project EXCEPT ![p] = Gone]
<1>1. db \in Tables /\ request \in RequestTable /\ UNCHANGED request
  BY TablesTyped DEF RowsInv, RowsResolve, DeleteProject, Write
<1>2. db' = [db EXCEPT !.task = Without(@, tasks),
                       !.assignment = Without(@, assignments),
                       !.cost = Without(@, costs),
                       !.event = Without(@, events),
                       !.project[p] = Gone]
  BY <1>1 DEF DeleteProject, Write, Tables
<1>3. /\ db.project \in ProjectTable /\ db.resource \in ResourceTable
      /\ db.member \in MemberTable /\ db.task \in TaskTable
      /\ db.assignment \in AssignmentTable /\ db.cost \in CostTable
      /\ db.event \in EventTable /\ db.baseline \in BaselineTable
  BY <1>1 DEF Tables
<1> HIDE DEF tasks, assignments, costs, events
<1>4. db' = [project |-> projects, resource |-> db.resource,
             member |-> db.member, task |-> Without(db.task, tasks),
             assignment |-> Without(db.assignment, assignments),
             cost |-> Without(db.cost, costs),
             event |-> Without(db.event, events), baseline |-> db.baseline]
  BY <1>1, <1>2 DEF Tables
<1>5. projects \in ProjectTable /\ Live(projects) = Live(db.project) \ {p}
  <2>1. projects = [db.project EXCEPT ![p] = Gone]
    OBVIOUS
  <2> HIDE DEF projects
  <2> QED BY <1>3, <2>1, DeletedRow DEF ProjectTable
<1>6. /\ Without(db.task, tasks) \in TaskTable
      /\ Live(Without(db.task, tasks)) = Live(db.task) \ tasks
      /\ \A t \in Tasks : t \notin tasks => Without(db.task, tasks)[t] = db.task[t]
  BY <1>3, DeletedRows DEF TaskTable
<1>7. /\ Without(db.assignment, assignments) \in AssignmentTable
      /\ Live(Without(db.assignment, assignments)) = Live(db.assignment) \ assignments
      /\ \A x \in Assignments : x \notin assignments =>
             Without(db.assignment, assignments)[x] = db.assignment[x]
  BY <1>3, DeletedRows DEF AssignmentTable
<1>8. /\ Without(db.cost, costs) \in CostTable
      /\ Live(Without(db.cost, costs)) = Live(db.cost) \ costs
      /\ \A c \in Costs : c \notin costs => Without(db.cost, costs)[c] = db.cost[c]
  BY <1>3, DeletedRows DEF CostTable
<1>9. /\ Without(db.event, events) \in EventTable
      /\ Live(Without(db.event, events)) = Live(db.event) \ events
      /\ \A e \in Events : e \notin events => Without(db.event, events)[e] = db.event[e]
  BY <1>3, DeletedRows DEF EventTable
<1> HIDE DEF projects
<1>10. db' \in Tables
  BY <1>3, <1>4, <1>5, <1>6, <1>7, <1>8, <1>9 DEF Tables
<1>11. TypeOK'
  BY <1>1, <1>10, TypedAfter
<1>12. /\ Live(db'.project) = Live(db.project) \ {p}
       /\ UNCHANGED <<db.resource, db.member>>
       /\ Live(db'.task) = Live(db.task) \ tasks
       /\ \A t \in Live(db'.task) : db'.task[t] = db.task[t] /\ db.task[t].project # p
       /\ Live(db'.assignment) = Live(db.assignment) \ assignments
       /\ \A x \in Live(db'.assignment) : db'.assignment[x] = db.assignment[x]
       /\ Live(db'.cost) = Live(db.cost) \ costs
       /\ \A c \in Live(db'.cost) : db'.cost[c] = db.cost[c]
       /\ Live(db'.event) = Live(db.event) \ events
       /\ \A e \in Live(db'.event) : db'.event[e] = db.event[e]
  BY <1>4, <1>5, <1>6, <1>7, <1>8, <1>9, RowsTyped DEF RowsInv, RowsResolve, tasks, TasksOf
<1>13. TasksResolve'
  BY <1>12 DEF RowsInv, TasksResolve
<1>14. AssignmentsResolve' /\ MembersKnown'
  <2> SUFFICES ASSUME NEW x \in Live(db'.assignment)
               PROVE  LET row == db.assignment[x]
                          m == row.member
                      IN  /\ row.task \in Live(db'.task)
                          /\ db'.task[row.task].project \in Live(db'.project)
                          /\ row.resource \in Live(db.resource)
                          /\ m \in Live(db.member) =>
                                /\ db.member[m].resource = row.resource
                                /\ db.member[m].project = db'.task[row.task].project
                          /\ db.member[m] # None
    BY <1>12 DEF AssignmentsResolve, MembersKnown
  <2> DEFINE row == db.assignment[x]
  <2>1. x \in Live(db.assignment) /\ row.task \notin tasks
    BY <1>12 DEF assignments, AssignmentsOf
  <2>2. /\ row.task \in Live(db.task)
        /\ db.task[row.task].project \in Live(db.project)
        /\ row.resource \in Live(db.resource)
        /\ row.member \in Live(db.member) =>
              /\ db.member[row.member].resource = row.resource
              /\ db.member[row.member].project = db.task[row.task].project
        /\ db.member[row.member] # None
    BY <2>1 DEF RowsInv, RowsResolve, AssignmentsResolve, MembersKnown
  <2>3. row.task \in Live(db'.task)
    BY <1>12, <2>1, <2>2
  <2> QED BY <1>12, <2>2, <2>3
<1>15. MembershipsUnique'
  BY <1>12, SameTables, MembersStay
<1>16. CostsResolve'
  BY <1>12 DEF RowsInv, RowsResolve, CostsResolve, costs, tasks, TasksOf
<1>17. EventsResolve'
  BY <1>12 DEF RowsInv, RowsResolve, EventsResolve, events, EventsOf
<1> QED BY <1>11, <1>13, <1>14, <1>15, <1>16, <1>17 DEF RowsInv, RowsResolve

(* delete_resource, with the memberships and assignments of the resource. *)
LEMMA ResourceDeleted ==
    ASSUME RowsInv, NEW r \in Resources, DeleteResource(r)
    PROVE  RowsInv'
<1> DEFINE assignments == {x \in Live(db.assignment) : db.assignment[x].resource = r}
           members == {m \in Live(db.member) : db.member[m].resource = r}
           resources == [db.resource EXCEPT ![r] = Gone]
<1>1. db \in Tables /\ request \in RequestTable /\ UNCHANGED request
  BY TablesTyped DEF RowsInv, RowsResolve, DeleteResource, Write
<1>2. db' = [db EXCEPT !.assignment = Without(@, assignments),
                       !.member = Without(@, members),
                       !.resource[r] = Gone]
  BY <1>1 DEF DeleteResource, Write, Tables
<1>3. /\ db.project \in ProjectTable /\ db.resource \in ResourceTable
      /\ db.member \in MemberTable /\ db.task \in TaskTable
      /\ db.assignment \in AssignmentTable /\ db.cost \in CostTable
      /\ db.event \in EventTable /\ db.baseline \in BaselineTable
  BY <1>1 DEF Tables
<1> HIDE DEF assignments, members
<1>4. db' = [db EXCEPT !.assignment = Without(db.assignment, assignments),
                       !.member = Without(db.member, members),
                       !.resource = resources]
  BY <1>1, <1>2 DEF Tables
<1>5. resources \in ResourceTable /\ Live(resources) = Live(db.resource) \ {r}
  <2>1. resources = [db.resource EXCEPT ![r] = Gone]
    OBVIOUS
  <2> HIDE DEF resources
  <2> QED BY <1>3, <2>1, DeletedRow DEF ResourceTable
<1>6. /\ Without(db.assignment, assignments) \in AssignmentTable
      /\ Live(Without(db.assignment, assignments)) = Live(db.assignment) \ assignments
      /\ \A x \in Assignments : x \notin assignments =>
             Without(db.assignment, assignments)[x] = db.assignment[x]
  BY <1>3, DeletedRows DEF AssignmentTable
<1>7. /\ Without(db.member, members) \in MemberTable
      /\ Live(Without(db.member, members)) = Live(db.member) \ members
      /\ \A m \in Members :
             Without(db.member, members)[m] = IF m \in members THEN Gone ELSE db.member[m]
  BY <1>3, DeletedRows DEF MemberTable
<1> HIDE DEF resources
<1>8. /\ db' \in Tables
      /\ UNCHANGED <<db.project, db.task, db.cost, db.event>>
      /\ db'.assignment = Without(db.assignment, assignments)
      /\ db'.member = Without(db.member, members)
      /\ db'.resource = resources
  BY <1>1, <1>4, <1>5, <1>6, <1>7 DEF Tables
<1>9. TypeOK'
  BY <1>1, <1>8, TypedAfter
<1>10. /\ Live(db'.resource) = Live(db.resource) \ {r}
       /\ Live(db'.assignment) = Live(db.assignment) \ assignments
       /\ \A x \in Live(db'.assignment) : db'.assignment[x] = db.assignment[x]
       /\ Live(db'.member) = Live(db.member) \ members
       /\ \A m \in Members : db.member[m] # None => db'.member[m] # None
       /\ \A m \in Live(db'.member) : db'.member[m] = db.member[m]
  BY <1>5, <1>6, <1>7, <1>8, RowsTyped, RowsAssumption DEF RowsInv, RowsResolve
<1>11. AssignmentsResolve' /\ MembersKnown'
  <2> SUFFICES ASSUME NEW x \in Live(db'.assignment)
               PROVE  LET row == db.assignment[x]
                          m == row.member
                      IN  /\ row.task \in Live(db.task)
                          /\ db.task[row.task].project \in Live(db.project)
                          /\ row.resource \in Live(db'.resource)
                          /\ m \in Live(db'.member) =>
                                /\ db'.member[m].resource = row.resource
                                /\ db'.member[m].project = db.task[row.task].project
                          /\ db'.member[m] # None
    BY <1>8, <1>10 DEF AssignmentsResolve, MembersKnown
  <2> DEFINE row == db.assignment[x]
  <2>1. x \in Live(db.assignment) /\ row.resource # r /\ row.member \in Members
    BY <1>10, RowsTyped DEF RowsInv, RowsResolve, assignments, AssignmentRows
  <2>2. /\ row.task \in Live(db.task)
        /\ db.task[row.task].project \in Live(db.project)
        /\ row.resource \in Live(db.resource)
        /\ row.member \in Live(db.member) =>
              /\ db.member[row.member].resource = row.resource
              /\ db.member[row.member].project = db.task[row.task].project
        /\ db.member[row.member] # None
    BY <2>1 DEF RowsInv, RowsResolve, AssignmentsResolve, MembersKnown
  <2>3. /\ db'.member[row.member] # None
        /\ row.member \in Live(db'.member) =>
              row.member \in Live(db.member) /\ db'.member[row.member] = db.member[row.member]
    BY <1>10, <2>1, <2>2
  <2>4. row.resource \in Live(db'.resource)
    BY <1>10, <2>1, <2>2
  <2> QED BY <2>2, <2>3, <2>4
<1>12. MembershipsUnique'
  <2>1. \A m \in Live(db'.member) : /\ m \in Live(db.member) /\ db'.member[m] = db.member[m]
                                    /\ db.member[m].resource # r
    <3> SUFFICES ASSUME NEW m \in Live(db'.member)
                 PROVE  /\ m \in Live(db.member) /\ db'.member[m] = db.member[m]
                        /\ db.member[m].resource # r
      OBVIOUS
    <3>1. m \in Live(db.member) /\ m \notin members
      BY <1>10
    <3>2. m \in Members
      BY <3>1, RowsTyped DEF RowsInv, RowsResolve
    <3> QED BY <1>10, <3>1, <3>2 DEF members
  <2> QED BY <1>10, <2>1 DEF RowsInv, RowsResolve, MembershipsUnique, GetForProject
<1> QED BY <1>8, <1>9, <1>11, <1>12, SameTables, TasksStay, CostsStay, EventsStay
        DEF RowsInv, RowsResolve

-----------------------------------------------------------------------------
(* Memberships *)

(* Table f is the memberships with a new one m of resource r in project p. *)
JoinedBy(f, m, p, r) ==
    /\ f \in MemberTable
    /\ Live(f) = Live(db.member) \cup {m}
    /\ \A n \in Members \ {m} : f[n] = db.member[n]
    /\ f[m].project = p /\ f[m].resource = r

(* A new membership joins its resource to its project and changes no other. *)
LEMMA NewMember ==
    ASSUME db \in Tables, NEW m \in Members, NEW p \in Projects, NEW r \in Resources,
           NEW active \in BOOLEAN, NEW f,
           f = [db.member EXCEPT ![m] = [project |-> p, resource |-> r, active |-> active]]
    PROVE  JoinedBy(f, m, p, r)
<1> DEFINE row == [project |-> p, resource |-> r, active |-> active]
<1>1. row \in MemberRows /\ row \notin {None, Gone}
  BY MemberNotNone DEF MemberRows
<1>2. row.project = p /\ row.resource = r
  OBVIOUS
<1>3. db.member \in MemberTable
  BY DEF Tables
<1>4. f = [db.member EXCEPT ![m] = row]
  OBVIOUS
<1> HIDE DEF row
<1>5. f \in MemberTable /\ Live(f) = Live(db.member) \cup {m}
      /\ f[m] = row /\ \A j \in Members \ {m} : f[j] = db.member[j]
  <2>1. f \in MemberTable /\ Live(f) = Live(db.member) \cup {m}
    BY <1>1, <1>3, <1>4, WrittenRow DEF MemberTable
  <2>2. f[m] = row /\ \A j \in Members \ {m} : f[j] = db.member[j]
    BY <1>3, <1>4 DEF MemberTable, Table
  <2> QED BY <2>1, <2>2
<1> QED BY <1>2, <1>5 DEF JoinedBy

(* A resource that was not on the project joins it once. *)
LEMMA MemberJoins ==
    ASSUME RowsInv, NEW m \in Members, NEW p \in Projects, NEW r \in Live(db.resource),
           db.member[m] = None, GetForProject(p, r) = {},
           JoinedBy(db'.member, m, p, r), UNCHANGED db.resource
    PROVE  MembershipsUnique' /\ MembersKept
<1>1. m \notin Live(db.member)
  BY DEF Live
<1>2. \A n \in Live(db.member) : n \in Members /\ n # m /\ db'.member[n] = db.member[n]
  BY <1>1, RowsTyped DEF RowsInv, RowsResolve, JoinedBy
<1>3. ASSUME NEW n \in Live(db'.member)
      PROVE  /\ db'.member[n].resource \in Live(db.resource)
             /\ {k \in Live(db'.member) : /\ db'.member[k].project = db'.member[n].project
                                          /\ db'.member[k].resource = db'.member[n].resource}
                  = {n}
  <2>1. CASE n = m
    <3>1. \A k \in Live(db.member) :
             ~(db.member[k].project = p /\ db.member[k].resource = r)
      BY DEF GetForProject
    <3> QED BY <1>2, <2>1, <3>1 DEF JoinedBy
  <2>2. CASE n # m
    <3>1. n \in Live(db.member) /\ db'.member[n] = db.member[n]
      BY <1>2, <2>2 DEF JoinedBy
    <3>2. /\ db.member[n].resource \in Live(db.resource)
          /\ GetForProject(db.member[n].project, db.member[n].resource) = {n}
      BY <3>1 DEF RowsInv, RowsResolve, MembershipsUnique
    <3>3. ~(db.member[n].project = p /\ db.member[n].resource = r)
      BY <3>1 DEF GetForProject
    <3> QED BY <1>2, <2>2, <3>1, <3>2, <3>3 DEF JoinedBy, GetForProject
  <2> QED BY <2>1, <2>2
<1>4. MembershipsUnique'
  BY <1>3 DEF MembershipsUnique, GetForProject
<1>5. MembersKept
  <2> SUFFICES ASSUME NEW n \in Members, db.member[n] # None
               PROVE  /\ db'.member[n] # None
                      /\ n \in Live(db'.member) =>
                            n \in Live(db.member) /\ db'.member[n] = db.member[n]
    BY DEF MembersKept
  <2> QED BY DEF JoinedBy
<1> QED BY <1>4, <1>5

(* add_to_project. *)
LEMMA AddedToProject ==
    ASSUME RowsInv, NEW m \in Members, NEW p \in Projects, NEW r \in Resources,
           NEW active \in BOOLEAN, AddToProject(m, p, r, active)
    PROVE  RowsInv'
<1> DEFINE f == [db.member EXCEPT ![m] = [project |-> p, resource |-> r, active |-> active]]
<1>1. db \in Tables /\ request \in RequestTable /\ UNCHANGED request
  BY TablesTyped DEF RowsInv, RowsResolve, AddToProject, Write
<1>2. JoinedBy(f, m, p, r)
  BY <1>1, NewMember
<1>3. db' = [db EXCEPT !.member = f]
  BY <1>1 DEF AddToProject, Write, Tables
<1> HIDE DEF f
<1>4. /\ db' \in Tables /\ db'.member = f
      /\ UNCHANGED <<db.project, db.resource, db.task, db.assignment, db.cost, db.event>>
  BY <1>1, <1>2, <1>3, MemberWritten DEF JoinedBy
<1>5. MembershipsUnique' /\ MembersKept
  BY <1>2, <1>4, MemberJoins DEF AddToProject
<1>6. TypeOK'
  BY <1>1, <1>4, TypedAfter
<1> QED BY <1>4, <1>5, <1>6, SameTables, AssignmentsStay, TasksStay, CostsStay, EventsStay
        DEF RowsInv, RowsResolve

(* set_active and delete of a membership. *)
LEMMA MemberChanged ==
    ASSUME RowsInv, NEW m \in Members,
           DeleteMember(m) \/ \E active \in BOOLEAN : SetActive(m, active)
    PROVE  RowsInv'
<1>1. db \in Tables /\ request \in RequestTable /\ UNCHANGED request
  BY TablesTyped DEF RowsInv, RowsResolve, DeleteMember, SetActive, Write
<1>2. db.member \in MemberTable /\ m \in Live(db.member) /\ db.member[m] \in MemberRows
  BY <1>1, RowsTyped DEF Tables, RowsInv, RowsResolve, DeleteMember, SetActive
<1>3. PICK f \in MemberTable :
         /\ db' = [db EXCEPT !.member = f]
         /\ Live(f) \subseteq Live(db.member)
         /\ \A n \in Members : db.member[n] # None => f[n] # None
         /\ \A n \in Live(f) : /\ f[n].project = db.member[n].project
                              /\ f[n].resource = db.member[n].resource
  <2>1. CASE DeleteMember(m)
    <3>1. PICK f : f = [db.member EXCEPT ![m] = Gone]
      OBVIOUS
    <3>2. db' = [db EXCEPT !.member = f]
      BY <1>1, <2>1, <3>1 DEF DeleteMember, Write, Tables
    <3>3. /\ f \in MemberTable /\ Live(f) = Live(db.member) \ {m}
          /\ f[m] = Gone /\ \A j \in Members \ {m} : f[j] = db.member[j]
      <4>1. f \in MemberTable /\ Live(f) = Live(db.member) \ {m}
        BY <1>2, <3>1, DeletedRow DEF MemberTable
      <4>2. f[m] = Gone /\ \A j \in Members \ {m} : f[j] = db.member[j]
        BY <1>2, <3>1 DEF MemberTable, Table
      <4> QED BY <4>1, <4>2
    <3>4. Live(db.member) \subseteq Members
      BY RowsTyped DEF RowsInv, RowsResolve
    <3> QED BY <3>2, <3>3, <3>4, RowsAssumption
  <2>2. CASE \E active \in BOOLEAN : SetActive(m, active)
    <3>1. PICK active \in BOOLEAN : SetActive(m, active)
      BY <2>2
    <3>2. PICK row : row = [db.member[m] EXCEPT !.active = active]
      OBVIOUS
    <3>3. /\ row \in MemberRows /\ row.project = db.member[m].project
          /\ row.resource = db.member[m].resource
      BY <1>2, <3>2 DEF MemberRows
    <3>4. PICK f : f = [db.member EXCEPT ![m] = row]
      OBVIOUS
    <3>5. db' = [db EXCEPT !.member = f]
      BY <1>1, <1>2, <3>1, <3>2, <3>4 DEF SetActive, Write, Tables
    <3>6. /\ f \in MemberTable /\ Live(f) = Live(db.member) \cup {m}
          /\ f[m] = row /\ \A j \in Members \ {m} : f[j] = db.member[j]
      <4>1. f \in MemberTable /\ Live(f) = Live(db.member) \cup {m}
        BY <1>2, <3>3, <3>4, WrittenRow, MemberNotNone DEF MemberTable
      <4>2. f[m] = row /\ \A j \in Members \ {m} : f[j] = db.member[j]
        BY <1>2, <3>4 DEF MemberTable, Table
      <4> QED BY <4>1, <4>2
    <3>7. Live(db.member) \subseteq Members
      BY RowsTyped DEF RowsInv, RowsResolve
    <3> QED BY <1>2, <3>3, <3>5, <3>6, <3>7, MemberNotNone
  <2> QED BY <2>1, <2>2
<1>4. /\ db' \in Tables /\ db'.member = f
      /\ UNCHANGED <<db.project, db.resource, db.task, db.assignment, db.cost, db.event>>
  BY <1>1, <1>3, MemberWritten
<1>5. MembersKept
  BY <1>3, <1>4 DEF MembersKept
<1>6. MembershipsUnique'
  <2> SUFFICES ASSUME NEW n \in Live(f)
               PROVE  /\ f[n].resource \in Live(db.resource)
                      /\ {k \in Live(f) : /\ f[k].project = f[n].project
                                          /\ f[k].resource = f[n].resource} = {n}
    BY <1>4 DEF MembershipsUnique, GetForProject
  <2>1. n \in Live(db.member)
    BY <1>3
  <2>2. /\ db.member[n].resource \in Live(db.resource)
        /\ \A k \in Live(db.member) :
              db.member[k].project = db.member[n].project
              /\ db.member[k].resource = db.member[n].resource => k = n
    <3>1. /\ db.member[n].resource \in Live(db.resource)
          /\ GetForProject(db.member[n].project, db.member[n].resource) = {n}
      BY <2>1 DEF RowsInv, RowsResolve, MembershipsUnique
    <3>2. ASSUME NEW k \in Live(db.member),
                 db.member[k].project = db.member[n].project,
                 db.member[k].resource = db.member[n].resource
          PROVE  k = n
      <4>1. k \in GetForProject(db.member[n].project, db.member[n].resource)
        BY <3>2 DEF GetForProject
      <4> QED BY <3>1, <4>1
    <3> QED BY <3>1, <3>2
  <2> QED BY <1>3, <2>1, <2>2
<1>7. TypeOK'
  BY <1>1, <1>4, TypedAfter
<1> QED BY <1>4, <1>5, <1>6, <1>7, SameTables, AssignmentsStay, TasksStay, CostsStay,
           EventsStay DEF RowsInv, RowsResolve

-----------------------------------------------------------------------------
(* Tasks and assignments *)

(* create_task. *)
LEMMA TaskCreated ==
    ASSUME RowsInv, NEW t \in Tasks, NEW p \in Projects, CreateTask(t, p)
    PROVE  RowsInv'
<1> DEFINE row == [project |-> p]
<1>1. db \in Tables /\ request \in RequestTable /\ UNCHANGED request
  BY TablesTyped DEF RowsInv, RowsResolve, CreateTask, Write
<1>2. db.task \in TaskTable /\ p \in Live(db.project) /\ t \notin Live(db.task)
  BY <1>1 DEF Tables, CreateTask, Live
<1>3. row \in TaskRows /\ row.project = p
  BY DEF TaskRows
<1>4. PICK f : f = [db.task EXCEPT ![t] = row]
  OBVIOUS
<1>5. db' = [db EXCEPT !.task = f]
  BY <1>1, <1>4 DEF CreateTask, Write, Tables
<1> HIDE DEF row
<1>6. /\ f \in TaskTable /\ f[t] = row /\ \A u \in Tasks \ {t} : f[u] = db.task[u]
  BY <1>2, <1>3, <1>4 DEF TaskTable, Table
<1>7. /\ db' \in Tables /\ db'.task = f
      /\ UNCHANGED <<db.project, db.resource, db.member, db.assignment, db.cost, db.event>>
  BY <1>1, <1>5, <1>6, TaskWritten
<1>8. Live(f) \subseteq Live(db.task) \cup {t}
  BY <1>2, <1>6 DEF Live, TaskTable, Table
<1>9. TasksKept
  <2>1. \A u \in Live(db.task) : u \in Tasks /\ u # t
    BY <1>2, RowsTyped DEF RowsInv, RowsResolve
  <2>2. \A u \in Live(db.task) : u \in Live(f)
    BY <1>6, <2>1 DEF Live, TaskTable, Table
  <2> QED BY <1>6, <1>7, <2>1, <2>2 DEF TasksKept
<1>10. TasksResolve'
  <2> SUFFICES ASSUME NEW u \in Live(f) PROVE f[u].project \in Live(db.project)
    BY <1>7 DEF TasksResolve
  <2>1. u \in Tasks
    BY <1>6 DEF Live, TaskTable, Table
  <2> QED BY <1>2, <1>3, <1>6, <1>8, <2>1 DEF RowsInv, TasksResolve
<1>11. TypeOK'
  BY <1>1, <1>7, TypedAfter
<1> QED BY <1>7, <1>9, <1>10, <1>11, SameTables, SameMembers, AssignmentsStay, MembersStay,
           CostsStay, EventsStay DEF RowsInv, RowsResolve

(* delete_task, with the rows that refer to the task. *)
LEMMA TaskDeleted ==
    ASSUME RowsInv, NEW t \in Tasks, DeleteTask(t)
    PROVE  RowsInv'
<1> DEFINE assignments == AssignmentsOf({t})
           costs == CostsOf({t})
           events == EventsOf({t})
           tasks == [db.task EXCEPT ![t] = Gone]
<1>1. db \in Tables /\ request \in RequestTable /\ UNCHANGED request
  BY TablesTyped DEF RowsInv, RowsResolve, DeleteTask, Write
<1>2. db' = [db EXCEPT !.assignment = Without(@, assignments), !.event = Without(@, events),
                       !.cost = Without(@, costs), !.task[t] = Gone]
  BY <1>1 DEF DeleteTask, Write, Tables
<1>3. /\ db.project \in ProjectTable /\ db.resource \in ResourceTable
      /\ db.member \in MemberTable /\ db.task \in TaskTable
      /\ db.assignment \in AssignmentTable /\ db.cost \in CostTable
      /\ db.event \in EventTable /\ db.baseline \in BaselineTable
  BY <1>1 DEF Tables
<1> HIDE DEF assignments, costs, events
<1>4. db' = [db EXCEPT !.assignment = Without(db.assignment, assignments),
                       !.event = Without(db.event, events),
                       !.cost = Without(db.cost, costs), !.task = tasks]
  BY <1>1, <1>2 DEF Tables
<1>5. /\ tasks \in TaskTable /\ Live(tasks) = Live(db.task) \ {t}
      /\ \A u \in Tasks \ {t} : tasks[u] = db.task[u]
  <2>1. tasks = [db.task EXCEPT ![t] = Gone]
    OBVIOUS
  <2> HIDE DEF tasks
  <2>2. tasks \in TaskTable /\ Live(tasks) = Live(db.task) \ {t}
    BY <1>3, <2>1, DeletedRow DEF TaskTable
  <2>3. \A u \in Tasks \ {t} : tasks[u] = db.task[u]
    BY <1>3, <2>1 DEF TaskTable, Table
  <2> QED BY <2>2, <2>3
<1>6. /\ Without(db.assignment, assignments) \in AssignmentTable
      /\ Live(Without(db.assignment, assignments)) = Live(db.assignment) \ assignments
      /\ \A x \in Assignments : x \notin assignments =>
             Without(db.assignment, assignments)[x] = db.assignment[x]
  BY <1>3, DeletedRows DEF AssignmentTable
<1>7. /\ Without(db.cost, costs) \in CostTable
      /\ Live(Without(db.cost, costs)) = Live(db.cost) \ costs
      /\ \A c \in Costs : c \notin costs => Without(db.cost, costs)[c] = db.cost[c]
  BY <1>3, DeletedRows DEF CostTable
<1>8. /\ Without(db.event, events) \in EventTable
      /\ Live(Without(db.event, events)) = Live(db.event) \ events
      /\ \A e \in Events : e \notin events => Without(db.event, events)[e] = db.event[e]
  BY <1>3, DeletedRows DEF EventTable
<1> HIDE DEF tasks
<1>9. /\ db' \in Tables
      /\ UNCHANGED <<db.project, db.resource, db.member>>
      /\ db'.assignment = Without(db.assignment, assignments)
      /\ db'.cost = Without(db.cost, costs)
      /\ db'.event = Without(db.event, events)
      /\ db'.task = tasks
  BY <1>1, <1>4, <1>5, <1>6, <1>7, <1>8 DEF Tables
<1>10. TypeOK'
  BY <1>1, <1>9, TypedAfter
<1>11. /\ Live(db'.task) = Live(db.task) \ {t}
       /\ \A u \in Live(db'.task) : db'.task[u] = db.task[u]
       /\ Live(db'.assignment) = Live(db.assignment) \ assignments
       /\ \A x \in Live(db'.assignment) : db'.assignment[x] = db.assignment[x]
       /\ Live(db'.cost) = Live(db.cost) \ costs
       /\ \A c \in Live(db'.cost) : db'.cost[c] = db.cost[c]
       /\ Live(db'.event) = Live(db.event) \ events
       /\ \A e \in Live(db'.event) : db'.event[e] = db.event[e]
  BY <1>5, <1>6, <1>7, <1>8, <1>9, RowsTyped DEF RowsInv, RowsResolve
<1>12. TasksResolve'
  BY <1>9, <1>11 DEF RowsInv, TasksResolve
<1>13. AssignmentsResolve' /\ MembersKnown'
  <2> SUFFICES ASSUME NEW x \in Live(db'.assignment)
               PROVE  LET row == db.assignment[x]
                          m == row.member
                      IN  /\ row.task \in Live(db'.task)
                          /\ db'.task[row.task].project \in Live(db.project)
                          /\ row.resource \in Live(db.resource)
                          /\ m \in Live(db.member) =>
                                /\ db.member[m].resource = row.resource
                                /\ db.member[m].project = db'.task[row.task].project
                          /\ db.member[m] # None
    BY <1>9, <1>11 DEF AssignmentsResolve, MembersKnown
  <2> DEFINE row == db.assignment[x]
  <2>1. x \in Live(db.assignment) /\ row.task # t
    BY <1>11 DEF assignments, AssignmentsOf
  <2>2. /\ row.task \in Live(db.task)
        /\ db.task[row.task].project \in Live(db.project)
        /\ row.resource \in Live(db.resource)
        /\ row.member \in Live(db.member) =>
              /\ db.member[row.member].resource = row.resource
              /\ db.member[row.member].project = db.task[row.task].project
        /\ db.member[row.member] # None
    BY <2>1 DEF RowsInv, RowsResolve, AssignmentsResolve, MembersKnown
  <2>3. row.task \in Live(db'.task)
    BY <1>11, <2>1, <2>2
  <2> QED BY <1>11, <2>2, <2>3
<1>14. MembershipsUnique'
  BY <1>9, SameTables, MembersStay
<1>15. CostsResolve'
  BY <1>9, <1>11 DEF RowsInv, RowsResolve, CostsResolve, costs, CostsOf
<1>16. EventsResolve'
  BY <1>9, <1>11 DEF RowsInv, RowsResolve, EventsResolve, events, EventsOf
<1> QED BY <1>10, <1>12, <1>13, <1>14, <1>15, <1>16 DEF RowsInv, RowsResolve

(* An assignment made through membership m, with or without creating m *)
LEMMA AssignmentMade ==
    ASSUME RowsInv, NEW x \in Assignments, db.assignment[x] = None,
           NEW t \in Live(db.task), NEW m \in Members, NEW r \in Live(db.resource),
           NEW f \in MemberTable,
           m \in Live(f), f[m].resource = r, f[m].project = db.task[t].project,
           db' = [db EXCEPT !.member = f,
                            !.assignment =
                               [db.assignment EXCEPT ![x] = [task |-> t, resource |-> r, member |-> m]]],
           UNCHANGED request, MembershipsUnique', MembersKept
    PROVE  RowsInv'
<1> DEFINE row == [task |-> t, resource |-> r, member |-> m]
<1>1. db \in Tables /\ request \in RequestTable
  BY TablesTyped DEF RowsInv, RowsResolve
<1>2. db.assignment \in AssignmentTable
  BY <1>1 DEF Tables
<1>3. /\ row \in AssignmentRows /\ row.task = t /\ row.resource = r /\ row.member = m
  BY RowsTyped DEF RowsInv, RowsResolve, AssignmentRows
<1>4. PICK g : g = [db.assignment EXCEPT ![x] = row]
  OBVIOUS
<1>5. db' = [db EXCEPT !.member = f, !.assignment = g]
  BY <1>4
<1> HIDE DEF row
<1>6. /\ g \in AssignmentTable /\ g[x] = row
      /\ \A y \in Assignments \ {x} : g[y] = db.assignment[y]
  BY <1>2, <1>3, <1>4 DEF AssignmentTable, Table
<1>7. /\ db' \in Tables /\ db'.member = f /\ db'.assignment = g
      /\ UNCHANGED <<db.project, db.resource, db.task, db.cost, db.event>>
  BY <1>1, <1>5, <1>6 DEF Tables
<1>8. TypeOK'
  BY <1>1, <1>7, TypedAfter
<1>9. ASSUME NEW y \in Live(g), y # x
      PROVE  y \in Live(db.assignment) /\ g[y] = db.assignment[y]
  BY <1>2, <1>6, <1>9 DEF Live, AssignmentTable, Table
<1>10. ASSUME NEW y \in Live(g)
       PROVE  LET a == g[y]
                  n == a.member
              IN  /\ a.task \in Live(db.task)
                  /\ db.task[a.task].project \in Live(db.project)
                  /\ a.resource \in Live(db.resource)
                  /\ n \in Live(f) =>
                        /\ f[n].resource = a.resource
                        /\ f[n].project = db.task[a.task].project
                  /\ f[n] # None
  <2>1. CASE y = x
    <3>1. db.task[t].project \in Live(db.project)
      BY DEF RowsInv, TasksResolve
    <3>2. f[m] # None
      BY DEF Live
    <3> QED BY <1>3, <1>6, <2>1, <3>1, <3>2
  <2>2. CASE y # x
    <3>1. y \in Live(db.assignment) /\ g[y] = db.assignment[y]
      BY <1>9, <2>2
    <3>2. db.assignment[y].member \in Members
      BY <3>1, RowsTyped DEF RowsInv, RowsResolve, AssignmentRows
    <3> DEFINE a == db.assignment[y]
    <3>3. /\ a.task \in Live(db.task)
          /\ db.task[a.task].project \in Live(db.project)
          /\ a.resource \in Live(db.resource)
          /\ a.member \in Live(db.member) =>
                /\ db.member[a.member].resource = a.resource
                /\ db.member[a.member].project = db.task[a.task].project
          /\ db.member[a.member] # None
      BY <3>1 DEF RowsInv, RowsResolve, AssignmentsResolve, MembersKnown
    <3> QED BY <1>7, <3>1, <3>2, <3>3 DEF MembersKept
  <2> QED BY <2>1, <2>2
<1>11. AssignmentsResolve' /\ MembersKnown'
  <2> SUFFICES ASSUME NEW y \in Live(db'.assignment)
               PROVE  LET a == db'.assignment[y]
                          n == a.member
                      IN  /\ a.task \in Live(db'.task)
                          /\ db'.task[a.task].project \in Live(db'.project)
                          /\ a.resource \in Live(db'.resource)
                          /\ n \in Live(db'.member) =>
                                /\ db'.member[n].resource = a.resource
                                /\ db'.member[n].project = db'.task[a.task].project
                          /\ db'.member[n] # None
    BY DEF AssignmentsResolve, MembersKnown
  <2> QED BY <1>7, <1>10
<1> QED BY <1>7, <1>8, <1>11, SameTables, TasksStay, CostsStay, EventsStay
        DEF RowsInv, RowsResolve

(* assign_project_resource, and assign_resource with a membership in place *)
LEMMA AssignedToMember ==
    ASSUME RowsInv, NEW x \in Assignments, db.assignment[x] = None,
           NEW t \in Live(db.task), NEW m \in Live(db.member), MemberMayWork(db, t, m),
           Write(Assigned(db, x, t, m))
    PROVE  RowsInv'
<1> DEFINE r == db.member[m].resource
<1>1. db \in Tables /\ m \in Members
  BY TablesTyped, RowsTyped DEF RowsInv, RowsResolve
<1>2. db.member \in MemberTable /\ r \in Live(db.resource)
  BY <1>1 DEF Tables, RowsInv, RowsResolve, MembershipsUnique
<1>3. db.member[m].project = db.task[t].project
  BY DEF MemberMayWork
<1>4. UNCHANGED request
  BY DEF Write
<1>5. db' = [db EXCEPT !.assignment =
                [db.assignment EXCEPT ![x] = [task |-> t, resource |-> r, member |-> m]]]
  BY <1>1 DEF Write, Assigned, Tables
<1>6. db' = [db EXCEPT !.member = db.member,
                       !.assignment =
                [db.assignment EXCEPT ![x] = [task |-> t, resource |-> r, member |-> m]]]
  BY <1>1, <1>5 DEF Tables
<1>7. UNCHANGED <<db.member, db.resource>>
  BY <1>1, <1>5 DEF Tables
<1>8. MembershipsUnique' /\ MembersKept
  BY <1>7, MembersStay, SameMembers, SameTables
<1> HIDE DEF r
<1>9. db.member[m].resource = r
  BY DEF r
<1> QED BY <1>1, <1>2, <1>3, <1>4, <1>6, <1>8, <1>9, AssignmentMade

(* assign_resource, which makes the membership the resource lacks. *)
LEMMA AssignedByResource ==
    ASSUME RowsInv, NEW x \in Assignments, NEW m \in Members, NEW t \in Tasks,
           NEW r \in Resources, AssignResource(x, m, t, r)
    PROVE  RowsInv'
<1> DEFINE p == db.task[t].project
           active == db.resource[r].active
           joined == [db EXCEPT !.member[m] = [project |-> p, resource |-> r, active |-> active]]
<1>1. /\ db.assignment[x] = None /\ t \in Live(db.task) /\ r \in Live(db.resource)
  BY DEF AssignResource
<1>2. db \in Tables /\ request \in RequestTable
  BY TablesTyped DEF RowsInv, RowsResolve
<1>3. p \in Projects /\ active \in BOOLEAN
  <2>1. db.task[t] \in TaskRows
    BY <1>1, RowsTyped DEF RowsInv, RowsResolve
  <2>2. db.resource[r] \in ResourceRows
    BY <1>1, <1>2 DEF Tables, ResourceTable, Table, Live
  <2> QED BY <2>1, <2>2 DEF TaskRows, ResourceRows
<1>4. PICK f : f = [db.member EXCEPT ![m] = [project |-> p, resource |-> r, active |-> active]]
  OBVIOUS
<1>5. joined = [db EXCEPT !.member = f]
  BY <1>2, <1>4 DEF Tables
<1>6. JoinedBy(f, m, p, r)
  BY <1>2, <1>3, <1>4, NewMember
<1>7. \/ /\ m \in GetForProject(p, r) /\ MemberMayWork(db, t, m)
         /\ Write(Assigned(db, x, t, m))
      \/ /\ GetForProject(p, r) = {} /\ db.member[m] = None
         /\ Write(Assigned(joined, x, t, m))
      \/ /\ GetForProject(p, r) = {} /\ db.member[m] = None
         /\ Write(joined)
  BY DEF AssignResource
<1> HIDE DEF joined, p, active
<1>8. CASE m \in GetForProject(p, r) /\ MemberMayWork(db, t, m) /\ Write(Assigned(db, x, t, m))
  BY <1>1, <1>8, AssignedToMember DEF GetForProject
<1>9. ASSUME GetForProject(p, r) = {}, db.member[m] = None, db'.member = f,
             UNCHANGED db.resource
      PROVE  MembershipsUnique' /\ MembersKept
  BY <1>1, <1>3, <1>6, <1>9, MemberJoins
<1>10. CASE /\ GetForProject(p, r) = {} /\ db.member[m] = None
            /\ Write(Assigned(joined, x, t, m))
  <2>1. f \in MemberTable /\ m \in Live(f) /\ f[m].project = p /\ f[m].resource = r
    BY <1>6 DEF JoinedBy
  <2>2. joined \in Tables /\ joined.member = f /\ joined.assignment = db.assignment
    BY <1>2, <1>5, <2>1 DEF Tables
  <2>3. db' = [joined EXCEPT !.assignment =
                  [db.assignment EXCEPT ![x] = [task |-> t, resource |-> r, member |-> m]]]
    BY <1>10, <2>1, <2>2 DEF Write, Assigned, Tables
  <2>4. db' = [db EXCEPT !.member = f,
                         !.assignment =
                  [db.assignment EXCEPT ![x] = [task |-> t, resource |-> r, member |-> m]]]
    BY <1>2, <1>5, <2>3 DEF Tables
  <2>5. db'.member = f /\ UNCHANGED db.resource
    BY <1>2, <2>4 DEF Tables
  <2>6. MembershipsUnique' /\ MembersKept
    BY <1>9, <1>10, <2>5
  <2>7. UNCHANGED request
    BY <1>10 DEF Write
  <2> QED BY <1>1, <2>1, <2>4, <2>6, <2>7, AssignmentMade DEF p
<1>11. CASE GetForProject(p, r) = {} /\ db.member[m] = None /\ Write(joined)
  <2>1. db' = [db EXCEPT !.member = f] /\ UNCHANGED request
    BY <1>5, <1>11 DEF Write
  <2>2. /\ db' \in Tables /\ db'.member = f
        /\ UNCHANGED <<db.project, db.resource, db.task, db.assignment, db.cost, db.event>>
    BY <1>2, <1>6, <2>1, MemberWritten DEF JoinedBy
  <2>3. MembershipsUnique' /\ MembersKept
    BY <1>9, <1>11, <2>2
  <2>4. TypeOK'
    BY <1>2, <2>1, <2>2, TypedAfter
  <2> QED BY <2>2, <2>3, <2>4, SameTables, AssignmentsStay, TasksStay, CostsStay, EventsStay
          DEF RowsInv, RowsResolve
<1> QED BY <1>7, <1>8, <1>10, <1>11

(* unassign_resource. *)
LEMMA Unassigned ==
    ASSUME RowsInv, NEW x \in Assignments, UnassignResource(x)
    PROVE  RowsInv'
<1>1. db \in Tables /\ request \in RequestTable /\ UNCHANGED request
  BY TablesTyped DEF RowsInv, RowsResolve, UnassignResource, Write
<1>2. PICK f : f = [db.assignment EXCEPT ![x] = Gone]
  OBVIOUS
<1>3. db' = [db EXCEPT !.assignment = f]
  BY <1>1, <1>2 DEF UnassignResource, Write, Tables
<1>4. /\ f \in AssignmentTable /\ Live(f) = Live(db.assignment) \ {x}
      /\ \A y \in Assignments \ {x} : f[y] = db.assignment[y]
  <2>1. db.assignment \in AssignmentTable
    BY <1>1 DEF Tables
  <2>2. f \in AssignmentTable /\ Live(f) = Live(db.assignment) \ {x}
    BY <1>2, <2>1, DeletedRow DEF AssignmentTable
  <2> QED BY <1>2, <2>1, <2>2 DEF AssignmentTable, Table
<1>5. /\ db' \in Tables /\ db'.assignment = f
      /\ UNCHANGED <<db.project, db.resource, db.member, db.task, db.cost, db.event>>
  BY <1>1, <1>3, <1>4, AssignmentWritten
<1>6. NoneNew(db.assignment, db'.assignment)
  BY <1>4, <1>5, RowsTyped DEF NoneNew, RowsInv, RowsResolve
<1>7. TypeOK'
  BY <1>1, <1>5, TypedAfter
<1> QED BY <1>5, <1>6, <1>7, SameTables, SameMembers, AssignmentsStay, TasksStay, MembersStay,
           CostsStay, EventsStay DEF RowsInv, RowsResolve

-----------------------------------------------------------------------------
(* Events, cost items and baselines *)

(* Calendar events are made and deleted. *)
LEMMA EventChanged ==
    ASSUME RowsInv, NEW e \in Events,
           DeleteEvent(e) \/ \E p \in Projects \cup {None}, t \in Tasks \cup {None} :
                                CreateEvent(e, p, t)
    PROVE  RowsInv'
<1>1. db \in Tables /\ request \in RequestTable /\ UNCHANGED request
  BY TablesTyped DEF RowsInv, RowsResolve, DeleteEvent, CreateEvent, Write
<1>2. db.event \in EventTable
  BY <1>1 DEF Tables
<1>3. PICK row \in EventRows \cup {Gone} :
         /\ db' = [db EXCEPT !.event = [db.event EXCEPT ![e] = row]]
         /\ row # Gone => /\ row.project # None => row.project \in Live(db.project)
                          /\ row.task # None => row.task \in Live(db.task)
  <2>1. CASE DeleteEvent(e)
    BY <1>1, <2>1 DEF DeleteEvent, Write, Tables
  <2>2. ASSUME NEW p \in Projects \cup {None}, NEW t \in Tasks \cup {None}, CreateEvent(e, p, t)
        PROVE  \E row \in EventRows :
                  /\ db' = [db EXCEPT !.event = [db.event EXCEPT ![e] = row]]
                  /\ row.project # None => row.project \in Live(db.project)
                  /\ row.task # None => row.task \in Live(db.task)
    <3> DEFINE row == [project |-> p, task |-> t]
    <3>1. row \in EventRows /\ row.project = p /\ row.task = t
      BY DEF EventRows
    <3>2. /\ p # None => p \in Live(db.project)
          /\ t # None => t \in Live(db.task)
      BY <2>2 DEF CreateEvent, TasksOf
    <3>3. db' = [db EXCEPT !.event = [db.event EXCEPT ![e] = row]]
      BY <1>1, <2>2 DEF CreateEvent, Write, Tables
    <3> QED BY <3>1, <3>2, <3>3
  <2> QED BY <2>1, <2>2
<1>4. PICK f : f = [db.event EXCEPT ![e] = row]
  OBVIOUS
<1>5. f \in EventTable /\ f[e] = row /\ \A d \in Events \ {e} : f[d] = db.event[d]
  BY <1>2, <1>4 DEF EventTable, Table
<1>6. /\ db' \in Tables /\ db'.event = f
      /\ UNCHANGED <<db.project, db.resource, db.member, db.task, db.assignment, db.cost>>
  BY <1>1, <1>3, <1>4, <1>5, EventWritten
<1>7. EventsResolve'
  <2> SUFFICES ASSUME NEW d \in Live(f)
               PROVE  /\ f[d].project # None => f[d].project \in Live(db.project)
                      /\ f[d].task # None => f[d].task \in Live(db.task)
    BY <1>6 DEF EventsResolve
  <2>1. d \in Events /\ f[d] # Gone
    BY <1>5 DEF Live, EventTable, Table
  <2>2. CASE d = e
    BY <1>3, <1>5, <2>1, <2>2
  <2>3. CASE d # e
    <3>1. d \in Live(db.event) /\ f[d] = db.event[d]
      BY <1>2, <1>5, <2>1, <2>3 DEF Live, EventTable, Table
    <3> QED BY <3>1 DEF RowsInv, RowsResolve, EventsResolve
  <2> QED BY <2>2, <2>3
<1>8. TypeOK'
  BY <1>1, <1>6, TypedAfter
<1> QED BY <1>6, <1>7, <1>8, SameTables, SameMembers, AssignmentsStay, TasksStay, MembersStay,
           CostsStay DEF RowsInv, RowsResolve

(* The three operations on cost items, applied at once or when a request is approved *)
CostWrite(c) ==
    \/ \E p, entity : CostTarget(p, entity) /\ db.cost[c] = None /\ db' = CostAdded(c, p, entity)
    \/ c \in Live(db.cost) /\ db.cost[c].version < MaxVersion /\ db' = CostUpdated(c)
    \/ c \in Live(db.cost) /\ db' = CostDeleted(c)

(* A cost item is made, changed or deleted, directly or by an approved request. *)
LEMMA CostChanged ==
    ASSUME RowsInv, NEW c \in Costs, CostWrite(c), request' \in RequestTable
    PROVE  RowsInv'
<1>1. db \in Tables
  BY TablesTyped DEF RowsInv, RowsResolve
<1>2. db.cost \in CostTable /\ Live(db.project) \subseteq Projects
  BY <1>1, RowsTyped DEF Tables, RowsInv, RowsResolve
<1>3. PICK row \in CostRows \cup {Gone} :
         /\ db' = [db EXCEPT !.cost = [db.cost EXCEPT ![c] = row]]
         /\ row # Gone => /\ row.project \in Live(db.project)
                          /\ row.task # None => /\ row.task \in Live(db.task)
                                                /\ db.task[row.task].project = row.project
  <2>1. ASSUME NEW p, NEW entity, CostTarget(p, entity), db' = CostAdded(c, p, entity)
        PROVE  \E row \in CostRows :
                  /\ db' = [db EXCEPT !.cost = [db.cost EXCEPT ![c] = row]]
                  /\ row.project \in Live(db.project)
                  /\ row.task # None => /\ row.task \in Live(db.task)
                                        /\ db.task[row.task].project = row.project
    <3> DEFINE owner == IF entity \in Tasks THEN entity ELSE None
               row == [project |-> p, version |-> 1, task |-> owner]
    <3>1. p \in Live(db.project)
      BY <2>1 DEF CostTarget
    <3>2. row \in CostRows /\ row.project = p /\ row.task = owner
      BY <1>2, <3>1, WorkAssumption DEF CostRows
    <3>3. owner # None => owner \in Live(db.task) /\ db.task[owner].project = p
      BY <2>1 DEF CostTarget
    <3>4. db' = [db EXCEPT !.cost = [db.cost EXCEPT ![c] = row]]
      BY <1>1, <2>1 DEF CostAdded, Tables
    <3> HIDE DEF row, owner
    <3> QED BY <3>1, <3>2, <3>3, <3>4
  <2>2. CASE c \in Live(db.cost) /\ db.cost[c].version < MaxVersion /\ db' = CostUpdated(c)
    <3> DEFINE row == [db.cost[c] EXCEPT !.version = @ + 1]
    <3>1. db.cost[c] \in CostRows
      BY <2>2, RowsTyped DEF RowsInv, RowsResolve
    <3>2. row \in CostRows /\ row.project = db.cost[c].project /\ row.task = db.cost[c].task
      BY <2>2, <3>1, WorkAssumption DEF CostRows
    <3>3. db' = [db EXCEPT !.cost = [db.cost EXCEPT ![c] = row]]
      BY <1>1, <2>2 DEF CostUpdated, Tables
    <3>4. /\ db.cost[c].project \in Live(db.project)
          /\ db.cost[c].task # None =>
                /\ db.cost[c].task \in Live(db.task)
                /\ db.task[db.cost[c].task].project = db.cost[c].project
      BY <2>2 DEF RowsInv, RowsResolve, CostsResolve
    <3> HIDE DEF row
    <3> QED BY <3>2, <3>3, <3>4
  <2>3. CASE c \in Live(db.cost) /\ db' = CostDeleted(c)
    BY <1>1, <2>3 DEF CostDeleted, Tables
  <2> QED BY <2>1, <2>2, <2>3 DEF CostWrite
<1>4. PICK f : f = [db.cost EXCEPT ![c] = row]
  OBVIOUS
<1>5. f \in CostTable /\ f[c] = row /\ \A d \in Costs \ {c} : f[d] = db.cost[d]
  BY <1>2, <1>4 DEF CostTable, Table
<1>6. /\ db' \in Tables /\ db'.cost = f
      /\ UNCHANGED <<db.project, db.resource, db.member, db.task, db.assignment, db.event>>
  BY <1>1, <1>3, <1>4, <1>5, CostWritten
<1>7. CostsResolve'
  <2> SUFFICES ASSUME NEW d \in Live(f)
               PROVE  /\ f[d].project \in Live(db.project)
                      /\ f[d].task # None =>
                            /\ f[d].task \in Live(db.task)
                            /\ db.task[f[d].task].project = f[d].project
    BY <1>6 DEF CostsResolve
  <2>1. d \in Costs /\ f[d] # Gone
    BY <1>5 DEF Live, CostTable, Table
  <2>2. CASE d = c
    BY <1>3, <1>5, <2>1, <2>2
  <2>3. CASE d # c
    <3>1. d \in Live(db.cost) /\ f[d] = db.cost[d]
      BY <1>2, <1>5, <2>1, <2>3 DEF Live, CostTable, Table
    <3> QED BY <3>1 DEF RowsInv, RowsResolve, CostsResolve
  <2> QED BY <2>2, <2>3
<1>8. TypeOK'
  BY <1>6, TypedAfter
<1> QED BY <1>6, <1>7, <1>8, SameTables, SameMembers, AssignmentsStay, TasksStay, MembersStay,
           EventsStay DEF RowsInv, RowsResolve

BaselineWrite(b) ==
    \/ \E p \in Projects : Baselinable(p) /\ db' = BaselineCreated(b, p)
    \/ db' = [db EXCEPT !.baseline[b] = Gone]

(* A baseline is made or deleted, directly or by an approved request. *)
LEMMA BaselineChanged ==
    ASSUME RowsInv, NEW b \in Baselines, BaselineWrite(b), request' \in RequestTable
    PROVE  RowsInv'
<1>1. db \in Tables
  BY TablesTyped DEF RowsInv, RowsResolve
<1>2. PICK row \in BaselineRows \cup {Gone} :
         db' = [db EXCEPT !.baseline = [db.baseline EXCEPT ![b] = row]]
  <2>1. ASSUME NEW p \in Projects, Baselinable(p), db' = BaselineCreated(b, p)
        PROVE  \E row \in BaselineRows :
                  db' = [db EXCEPT !.baseline = [db.baseline EXCEPT ![b] = row]]
    <3>1. TasksOf(p) \in (SUBSET Tasks) \ {{}}
      BY <2>1, RowsTyped DEF Baselinable, TasksOf, RowsInv, RowsResolve
    <3>2. [project |-> p, tasks |-> TasksOf(p)] \in BaselineRows
      BY <3>1 DEF BaselineRows
    <3>3. db' = [db EXCEPT !.baseline =
                    [db.baseline EXCEPT ![b] = [project |-> p, tasks |-> TasksOf(p)]]]
      BY <1>1, <2>1 DEF BaselineCreated, Tables
    <3> QED BY <3>2, <3>3
  <2>2. CASE db' = [db EXCEPT !.baseline[b] = Gone]
    BY <1>1, <2>2 DEF Tables
  <2> QED BY <2>1, <2>2 DEF BaselineWrite
<1>3. PICK f : f = [db.baseline EXCEPT ![b] = row]
  OBVIOUS
<1>4. f \in BaselineTable
  BY <1>1, <1>3 DEF Tables, BaselineTable, Table
<1>5. /\ db' \in Tables
      /\ UNCHANGED <<db.project, db.resource, db.member, db.task, db.assignment, db.cost,
                     db.event>>
  BY <1>1, <1>2, <1>3, <1>4, BaselineWritten
<1>6. TypeOK'
  BY <1>5, TypedAfter
<1> QED BY <1>5, <1>6, SameTables, SameMembers, AssignmentsStay, TasksStay, MembersStay,
           CostsStay, EventsStay DEF RowsInv, RowsResolve

-----------------------------------------------------------------------------
(* Governance *)

RequestsFormed ==
    \A q \in Requests : request[q] # None =>
        /\ request[q].type = "baseline.create" => request[q].entity \in Projects
        /\ request[q].type = "cost.update" => request[q].expected # 0

RequestsInv == /\ request \in RequestTable
               /\ OneRequestPerItem
               /\ RequestsFormed

IInv == RowsInv /\ RequestsInv

(* request_change refuses a second pending request for one item. *)
LEMMA RequestMade ==
    ASSUME RequestsInv, NEW q \in Requests,
           NEW type \in {"cost.add", "cost.update", "cost.delete", "baseline.create"},
           NEW entity \in Projects \cup Tasks \cup Costs, NEW p \in Projects,
           NEW expected \in 0..MaxVersion,
           type = "baseline.create" => entity \in Projects,
           type = "cost.update" => expected # 0,
           RequestChange(q, type, entity, p, expected)
    PROVE  RequestsInv'
<1> DEFINE row == [type |-> type, entity |-> entity, project |-> p, expected |-> expected,
                   status |-> "PENDING"]
<1>1. /\ row \in RequestRows /\ row.type = type /\ row.entity = entity
      /\ row.expected = expected /\ row.status = "PENDING"
  BY DEF RequestRows
<1>2. request' = [request EXCEPT ![q] = row] /\ PendingFor(type, entity) = {}
  BY DEF RequestChange
<1> HIDE DEF row
<1>3. \A r \in Requests : request'[r] = IF r = q THEN row ELSE request[r]
  BY <1>2 DEF RequestsInv, RequestTable
<1>4. request' \in RequestTable
  BY <1>1, <1>2 DEF RequestsInv, RequestTable
<1>5. RequestsFormed'
  BY <1>1, <1>3 DEF RequestsInv, RequestsFormed
<1>6. ASSUME NEW r \in Requests, request[r] # None, request[r].status = "PENDING",
             request[r].entity = entity, entity \in Costs
      PROVE  FALSE
  <2>1. request[r].type # "baseline.create" /\ type # "baseline.create"
    BY <1>6, RowsAssumption DEF RequestsInv, RequestsFormed
  <2>2. r \in PendingFor(type, entity)
    BY <1>6, <2>1 DEF PendingFor, EntityType
  <2> QED BY <1>2, <2>2
<1>7. OneRequestPerItem'
  <2> SUFFICES ASSUME NEW q1 \in Requests, NEW q2 \in Requests,
                      request'[q1] # None, request'[q1].status = "PENDING",
                      request'[q2] # None, request'[q2].status = "PENDING",
                      request'[q1].entity \in Costs,
                      request'[q1].entity = request'[q2].entity
               PROVE  q1 = q2
    BY DEF OneRequestPerItem
  <2>1. CASE q1 # q /\ q2 # q
    BY <1>3, <2>1 DEF RequestsInv, OneRequestPerItem
  <2>2. CASE q1 = q \/ q2 = q
    BY <1>1, <1>3, <1>6, <2>2
  <2> QED BY <2>1, <2>2
<1> QED BY <1>4, <1>5, <1>7 DEF RequestsInv

(* A decided request is no longer pending; the others stay. *)
LEMMA RequestDecided ==
    ASSUME RequestsInv, NEW q \in Requests, request[q] # None,
           NEW status \in {"APPROVED", "REJECTED"},
           Decide(q, status) \/ UNCHANGED request
    PROVE  RequestsInv'
<1>1. CASE UNCHANGED request
  BY <1>1 DEF RequestsInv, OneRequestPerItem, RequestsFormed
<1>2. CASE Decide(q, status)
  <2> DEFINE row == [request[q] EXCEPT !.status = status]
  <2>1. request[q] \in RequestRows
    BY DEF RequestsInv, RequestTable
  <2>2. /\ row \in RequestRows /\ row.status = status /\ row.type = request[q].type
        /\ row.entity = request[q].entity /\ row.expected = request[q].expected
    BY <2>1 DEF RequestRows
  <2>3. request' = [request EXCEPT ![q] = row]
    BY <1>2 DEF Decide, RequestsInv, RequestTable
  <2> HIDE DEF row
  <2>4. \A r \in Requests : request'[r] = IF r = q THEN row ELSE request[r]
    BY <2>3 DEF RequestsInv, RequestTable
  <2>5. request' \in RequestTable
    BY <2>2, <2>3 DEF RequestsInv, RequestTable
  <2>6. RequestsFormed'
    BY <2>2, <2>4 DEF RequestsInv, RequestsFormed
  <2>7. OneRequestPerItem'
    BY <2>2, <2>4 DEF RequestsInv, OneRequestPerItem
  <2> QED BY <2>5, <2>6, <2>7 DEF RequestsInv
<1> QED BY <1>1, <1>2

(* Requests that stay are as unique and well formed as before. *)
LEMMA RequestsStay ==
    ASSUME RequestsInv, UNCHANGED request
    PROVE  RequestsInv'
  BY DEF RequestsInv, OneRequestPerItem, RequestsFormed

(* Rows that stay resolve as before. *)
LEMMA RowsStay ==
    ASSUME RowsInv, UNCHANGED db, request' \in RequestTable
    PROVE  RowsInv'
<1>1. db' \in Tables
  BY TablesTyped DEF RowsInv, RowsResolve
<1>2. TypeOK'
  BY <1>1, TypedAfter
<1>3. /\ UNCHANGED <<db.project, db.resource, db.member, db.task, db.assignment, db.cost,
                     db.event>>
  OBVIOUS
<1> QED BY <1>2, <1>3, SameTables, SameMembers, AssignmentsStay, TasksStay, MembersStay,
           CostsStay, EventsStay DEF RowsInv, RowsResolve

(* The governed operations file a request and change no row. *)
LEMMA Requested ==
    ASSUME IInv, NEW q \in Requests,
           \/ \E p \in Projects, entity \in Projects \cup Tasks : RequestCostAdd(q, p, entity)
           \/ \E c \in Costs : RequestCostUpdate(q, c) \/ RequestCostDelete(q, c)
           \/ \E p \in Projects : RequestBaseline(q, p)
    PROVE  IInv'
<1>1. ASSUME NEW c \in Live(db.cost)
      PROVE  /\ c \in Costs /\ db.cost[c].project \in Projects
             /\ db.cost[c].version \in 1..MaxVersion
  BY RowsTyped DEF IInv, RowsInv, RowsResolve, CostRows
<1>2. 0 \in 0..MaxVersion /\ \A v \in 1..MaxVersion : v \in 0..MaxVersion /\ v # 0
  BY WorkAssumption
<1>3. RequestsInv' /\ UNCHANGED db
  <2>1. ASSUME NEW p \in Projects, NEW entity \in Projects \cup Tasks,
               RequestCostAdd(q, p, entity)
        PROVE  RequestsInv' /\ UNCHANGED db
    <3>1. RequestChange(q, "cost.add", entity, p, 0)
      BY <2>1 DEF RequestCostAdd
    <3> QED BY <1>2, <3>1, RequestMade DEF IInv, RequestChange
  <2>2. ASSUME NEW c \in Costs, RequestCostUpdate(q, c)
        PROVE  RequestsInv' /\ UNCHANGED db
    <3>1. /\ c \in Live(db.cost)
          /\ RequestChange(q, "cost.update", c, db.cost[c].project, db.cost[c].version)
      BY <2>2 DEF RequestCostUpdate
    <3>2. PICK p \in Projects, v \in 1..MaxVersion : RequestChange(q, "cost.update", c, p, v)
      BY <1>1, <3>1
    <3> QED BY <1>2, <3>2, RequestMade DEF IInv, RequestChange
  <2>3. ASSUME NEW c \in Costs, RequestCostDelete(q, c)
        PROVE  RequestsInv' /\ UNCHANGED db
    <3>1. c \in Live(db.cost) /\ RequestChange(q, "cost.delete", c, db.cost[c].project, 0)
      BY <2>3 DEF RequestCostDelete
    <3>2. PICK p \in Projects : RequestChange(q, "cost.delete", c, p, 0)
      BY <1>1, <3>1
    <3> QED BY <1>2, <3>2, RequestMade DEF IInv, RequestChange
  <2>4. ASSUME NEW p \in Projects, RequestBaseline(q, p)
        PROVE  RequestsInv' /\ UNCHANGED db
    <3>1. RequestChange(q, "baseline.create", p, p, 0)
      BY <2>4 DEF RequestBaseline
    <3> QED BY <1>2, <3>1, RequestMade DEF IInv, RequestChange
  <2> QED BY <2>1, <2>2, <2>3, <2>4
<1>4. RowsInv'
  BY <1>3, RowsStay DEF IInv, RequestsInv
<1> QED BY <1>3, <1>4 DEF IInv

(* Approving a request applies it and then marks it; the process may end in between. *)
LEMMA Approved ==
    ASSUME IInv, NEW q \in Requests,
           \/ \E c \in Costs : ApproveCostAdd(q, c)
           \/ ApproveCostUpdate(q)
           \/ ApproveCostDelete(q)
           \/ \E b \in Baselines : ApproveBaseline(q, b)
    PROVE  IInv'
<1>1. /\ request[q] # None
      /\ Decide(q, "APPROVED") \/ UNCHANGED request
  BY DEF ApproveCostAdd, ApproveCostUpdate, ApproveCostDelete, ApproveBaseline, IsPending,
         Approve
<1>2. RequestsInv'
  BY <1>1, RequestDecided DEF IInv
<1>3. request[q] \in RequestRows
  BY <1>1 DEF IInv, RequestsInv, RequestTable
<1>4. (\E c \in Costs : CostWrite(c)) \/ (\E b \in Baselines : BaselineWrite(b))
  <2>1. Live(db.cost) \subseteq Costs
    BY RowsTyped DEF IInv, RowsInv, RowsResolve
  <2>2. ASSUME NEW c \in Costs, ApproveCostAdd(q, c) PROVE CostWrite(c)
    BY <2>2 DEF ApproveCostAdd, CostWrite
  <2>3. CASE ApproveCostUpdate(q)
    BY <2>1, <2>3 DEF ApproveCostUpdate, CostUpdatable, CostWrite
  <2>4. CASE ApproveCostDelete(q)
    BY <2>1, <2>4 DEF ApproveCostDelete, CostWrite
  <2>5. ASSUME NEW b \in Baselines, ApproveBaseline(q, b) PROVE BaselineWrite(b)
    BY <1>3, <2>5 DEF ApproveBaseline, BaselineWrite, RequestRows
  <2> QED BY <2>2, <2>3, <2>4, <2>5
<1>5. RowsInv'
  BY <1>2, <1>4, CostChanged, BaselineChanged DEF IInv, RequestsInv
<1> QED BY <1>2, <1>5 DEF IInv

(* A rejected request is marked and changes no row. *)
LEMMA Rejected ==
    ASSUME IInv, NEW q \in Requests, RejectRequest(q)
    PROVE  IInv'
<1>1. RequestsInv'
  BY RequestDecided DEF IInv, RejectRequest
<1>2. RowsInv'
  BY <1>1, RowsStay DEF IInv, RejectRequest, RequestsInv
<1> QED BY <1>1, <1>2 DEF IInv

-----------------------------------------------------------------------------
(* Initially there are no rows and no requests. *)
LEMMA IInvInit == Init => IInv
<1> SUFFICES ASSUME Init PROVE IInv
  OBVIOUS
<1>1. /\ db = [project |-> Empty(Projects), resource |-> Empty(Resources),
               member |-> Empty(Members), task |-> Empty(Tasks),
               assignment |-> Empty(Assignments), cost |-> Empty(Costs),
               event |-> Empty(Events), baseline |-> Empty(Baselines)]
      /\ request = Empty(Requests)
  BY DEF Init
<1>2. ASSUME NEW K, NEW R PROVE Empty(K) \in Table(K, R)
  BY DEF Empty, Table
<1>3. ASSUME NEW K PROVE Live(Empty(K)) = {}
  BY DEF Empty, Live
<1>4. db \in Tables
  BY <1>1, <1>2 DEF Tables, ProjectTable, ResourceTable, MemberTable, TaskTable,
         AssignmentTable, CostTable, EventTable, BaselineTable
<1>5. request \in RequestTable /\ \A q \in Requests : request[q] = None
  BY <1>1 DEF RequestTable, Empty
<1>6. /\ Live(db.member) = {} /\ Live(db.task) = {} /\ Live(db.assignment) = {}
      /\ Live(db.cost) = {} /\ Live(db.event) = {}
  BY <1>1, <1>3
<1>7. RowsInv
  BY <1>4, <1>5, <1>6, TablesTyped
     DEF RowsInv, RowsResolve, TasksResolve, MembersKnown, AssignmentsResolve,
         MembershipsUnique, CostsResolve, EventsResolve
<1> QED BY <1>5, <1>7 DEF IInv, RequestsInv, OneRequestPerItem, RequestsFormed

(* The direct operations leave the requests alone. *)
LEMMA RequestsLeftAlone ==
    ASSUME ProjectNext \/ ResourceNext \/ TaskNext \/ CostNext
    PROVE  UNCHANGED request
<1>1. CASE ProjectNext
  BY <1>1, Zenon DEF ProjectNext, CreateProject, DeleteProject, CreateTask, AddToProject, Write
<1>2. CASE ResourceNext
  BY <1>2, Zenon DEF ResourceNext, CreateResource, UpdateResource, DeleteResource, SetActive,
                     DeleteMember, Write
<1>3. CASE TaskNext
  <2>1. ASSUME NEW x \in Assignments, NEW t \in Tasks, NEW m \in Members,
               NEW r \in Resources, AssignResource(x, m, t, r)
        PROVE  UNCHANGED request
    BY <2>1, Zenon DEF AssignResource, Write
  <2>2. ASSUME NEW e \in Events, NEW p, NEW t, CreateEvent(e, p, t) PROVE UNCHANGED request
    BY <2>2, Zenon DEF CreateEvent, Write
  <2>3. ASSUME \/ \E t \in Tasks : DeleteTask(t)
               \/ \E x \in Assignments, t \in Tasks, m \in Members : AssignProjectResource(x, t, m)
               \/ \E x \in Assignments : UnassignResource(x)
               \/ \E e \in Events : DeleteEvent(e)
        PROVE  UNCHANGED request
    BY <2>3, Zenon DEF DeleteTask, AssignProjectResource, UnassignResource, DeleteEvent, Write
  <2> QED BY <1>3, <2>1, <2>2, <2>3 DEF TaskNext
<1>4. CASE CostNext
  BY <1>4, Zenon DEF CostNext, AddCostItem, UpdateCostItem, DeleteCostItem, CreateBaseline,
                     DeleteBaseline, Write
<1> QED BY <1>1, <1>2, <1>3, <1>4

(* The direct operations keep the invariant. *)
LEMMA TablesStep ==
    ASSUME IInv, ProjectNext \/ ResourceNext \/ TaskNext \/ CostNext
    PROVE  IInv'
<1>1. UNCHANGED request
  BY RequestsLeftAlone
<1>2. RequestsInv' /\ request' \in RequestTable
  BY <1>1, RequestsStay DEF IInv, RequestsInv
<1>3. ASSUME ProjectNext PROVE RowsInv'
  BY <1>3, ProjectCreated, ProjectDeleted, TaskCreated, AddedToProject DEF IInv, ProjectNext
<1>4. ASSUME ResourceNext PROVE RowsInv'
  BY <1>4, ResourceDeleted, ResourceSaved, MemberChanged DEF IInv, ResourceNext
<1>5. ASSUME TaskNext PROVE RowsInv'
  <2>1. ASSUME NEW x \in Assignments, NEW t \in Tasks, NEW m \in Members,
               AssignProjectResource(x, t, m)
        PROVE  RowsInv'
    BY <2>1, AssignedToMember DEF AssignProjectResource, IInv
  <2> QED BY <1>5, <2>1, TaskDeleted, AssignedByResource, Unassigned, EventChanged
          DEF IInv, TaskNext
<1>6. ASSUME CostNext PROVE RowsInv'
  <2>1. ASSUME NEW c \in Costs, NEW p \in Projects, NEW entity \in Projects \cup Tasks,
               AddCostItem(c, p, entity)
        PROVE  CostWrite(c)
    BY <2>1 DEF AddCostItem, CostWrite, Write
  <2>2. ASSUME NEW c \in Costs, NEW expected \in 0..MaxVersion, UpdateCostItem(c, expected)
        PROVE  CostWrite(c)
    BY <2>2 DEF UpdateCostItem, CostUpdatable, CostWrite, Write
  <2>3. ASSUME NEW c \in Costs, DeleteCostItem(c) PROVE CostWrite(c)
    BY <2>3 DEF DeleteCostItem, CostWrite, Write
  <2>4. ASSUME NEW b \in Baselines, NEW p \in Projects, CreateBaseline(b, p)
        PROVE  BaselineWrite(b)
    BY <2>4 DEF CreateBaseline, BaselineWrite, Write
  <2>5. ASSUME NEW b \in Baselines, DeleteBaseline(b) PROVE BaselineWrite(b)
    BY <2>5 DEF DeleteBaseline, BaselineWrite, Write
  <2>6. (\E c \in Costs : CostWrite(c)) \/ (\E b \in Baselines : BaselineWrite(b))
    BY <1>6, <2>1, <2>2, <2>3, <2>4, <2>5 DEF CostNext
  <2> QED BY <1>2, <2>6, CostChanged, BaselineChanged DEF IInv
<1>7. RowsInv'
  BY <1>3, <1>4, <1>5, <1>6 DEF IInv
<1> QED BY <1>2, <1>7 DEF IInv

(* Every operation keeps the invariant. *)
LEMMA IInvStep ==
    ASSUME IInv, [Next]_vars
    PROVE  IInv'
<1>1. CASE UNCHANGED vars
  <2>1. UNCHANGED db /\ UNCHANGED request
    BY <1>1 DEF vars
  <2> QED BY <2>1, RequestsStay, RowsStay DEF IInv, RequestsInv
<1>2. CASE ProjectNext \/ ResourceNext \/ TaskNext \/ CostNext
  BY <1>2, TablesStep
<1>3. CASE GovernanceNext
  BY <1>3, Requested, Approved, Rejected DEF GovernanceNext
<1> QED BY <1>1, <1>2, <1>3 DEF Next

(* The inductive invariant. *)
THEOREM ProjectInvariant == Spec => []IInv
<1>1. Init => IInv
  BY IInvInit
<1>2. IInv /\ [Next]_vars => IInv'
  BY IInvStep
<1> QED BY <1>1, <1>2, PTL DEF Spec

(* RowsResolve: whatever is created, assigned, approved and deleted, in whatever order, an
   assignment has its task, project and resource, a cost item its project and task, and an
   event its own (reports follow these without looking back), a membership has its
   resource, and no resource is on a project twice.  It says nothing of the memberships and
   baselines that delete_project leaves behind, nor of an assignment's membership that was
   deleted. *)
THEOREM ReferencesResolve == Spec => []RowsResolve
<1>1. IInv => RowsResolve
  BY DEF IInv, RowsInv
<1> QED BY <1>1, ProjectInvariant, PTL

(* OneRequestPerItem: an update and a deletion of one cost item never both wait. *)
THEOREM OneRequest == Spec => []OneRequestPerItem
<1>1. IInv => OneRequestPerItem
  BY DEF IInv, RequestsInv
<1> QED BY <1>1, ProjectInvariant, PTL

-----------------------------------------------------------------------------
(* A request of an edit is approved only by the handler of edits, and that one looks at
   the version. *)
LEMMA ApprovalFresh ==
    ASSUME IInv, [Next]_vars, NEW q \in Requests,
           request[q] # None, request[q].type = "cost.update",
           request'[q].status = "APPROVED", request[q].status = "PENDING"
    PROVE  db.cost[request[q].entity].version = request[q].expected
<1>1. request' # request
  OBVIOUS
<1>2. GovernanceNext
  BY <1>1, RequestsLeftAlone DEF Next, vars
<1>3. request[q].expected # 0
  BY DEF IInv, RequestsInv, RequestsFormed
<1>4. request \in RequestTable
  BY DEF IInv, RequestsInv
<1>5. ASSUME NEW r \in Requests, NEW type, NEW entity, NEW p, NEW expected,
             RequestChange(r, type, entity, p, expected)
      PROVE  FALSE
  <2>1. r # q
    BY <1>5 DEF RequestChange
  <2> QED BY <1>4, <1>5, <2>1 DEF RequestChange, RequestTable
<1>6. ASSUME NEW r \in Requests, NEW status, Decide(r, status)
      PROVE  r = q /\ status = "APPROVED"
  <2>1. r = q
    BY <1>4, <1>6 DEF Decide, RequestTable
  <2>2. request[q] \in RequestRows
    BY <1>4 DEF RequestTable
  <2>3. request'[q].status = status
    BY <1>4, <1>6, <2>1, <2>2 DEF Decide, RequestTable, RequestRows
  <2> QED BY <2>1, <2>3
<1>7. PICK r \in Requests :
         \/ \E p \in Projects, entity \in Projects \cup Tasks : RequestCostAdd(r, p, entity)
         \/ \E c \in Costs : RequestCostUpdate(r, c) \/ RequestCostDelete(r, c)
         \/ \E p \in Projects : RequestBaseline(r, p)
         \/ \E c \in Costs : ApproveCostAdd(r, c)
         \/ ApproveCostUpdate(r)
         \/ ApproveCostDelete(r)
         \/ \E b \in Baselines : ApproveBaseline(r, b)
         \/ RejectRequest(r)
  BY <1>2 DEF GovernanceNext
<1>8. ~ \/ \E p \in Projects, entity \in Projects \cup Tasks : RequestCostAdd(r, p, entity)
        \/ \E c \in Costs : RequestCostUpdate(r, c) \/ RequestCostDelete(r, c)
        \/ \E p \in Projects : RequestBaseline(r, p)
  BY <1>5 DEF RequestCostAdd, RequestCostUpdate, RequestCostDelete, RequestBaseline
<1>9. ~RejectRequest(r)
  BY <1>6 DEF RejectRequest
<1>10. ASSUME Approve(r) PROVE r = q
  BY <1>1, <1>6, <1>10 DEF Approve
<1>11. ApproveCostUpdate(r) /\ r = q
  BY <1>7, <1>8, <1>9, <1>10 DEF ApproveCostAdd, ApproveCostUpdate, ApproveCostDelete,
                                 ApproveBaseline, IsPending
<1> QED BY <1>3, <1>11 DEF ApproveCostUpdate, CostUpdatable

(* ApprovedEditIsFresh: an approved edit never overwrites a change that its requester had
   not seen. *)
THEOREM ApprovalsFresh == Spec => ApprovedEditIsFresh
<1>1. IInv /\ [Next]_vars =>
        [\A q \in Requests :
            /\ request[q] # None /\ request[q].type = "cost.update"
            /\ request'[q].status = "APPROVED" /\ request[q].status = "PENDING"
            => db.cost[request[q].entity].version = request[q].expected]_vars
  BY ApprovalFresh
<1> QED BY <1>1, ProjectInvariant, PTL DEF Spec, ApprovedEditIsFresh
===============================================================================
