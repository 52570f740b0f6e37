--------------------------- MODULE MCWorkExecution ---------------------------
(* An instance of WorkExecution for TLC. *)
EXTENDS WorkExecution, TLC

(* A plan of one task with one step. *)
OneTaskOneStep == <<[seq |-> 1, number |-> 0], [seq |-> 1, number |-> 1]>>

(* Bound: tasks and steps change under the only order, made from a request of the plan or
   by hand and not edited since, while the other requests are as they were; with more
   orders, edited orders and other requests they stay as the package created them, one
   order at a time is under way, and requests are new or converted. *)
Edited(o) == order[o].preventive # (order[o].source \in PlanRequests)

Made == {o \in Orders : order[o] # None}

WorkUnderOneOrder ==
    /\ Cardinality(Made) <= 1
    /\ \A o \in Made : ~Edited(o)
    /\ \A r \in Requests : request[r] \in {None, "NEW"} \/ \E o \in Made : order[o].source = r
    /\ \A r \in Requests \ PlanRequests : request[r] = None

ManyOrders ==
    /\ \A r \in Requests : request[r] \in {None, "NEW", "CONVERTED"}
    /\ \A t \in Tasks : task[t] # None =>
          /\ task[t].status = "NOT_STARTED" /\ task[t].minutes = 0 /\ task[t].assigned = None
          /\ task[t].mandatory /\ task[t].rule = "ALL_STEPS_REQUIRED"
          /\ order[task[t].order].preventive
    /\ \A s \in Steps : step[s] # None =>
          /\ step[s].status = "NOT_STARTED" /\ ~step[s].confirm /\ ~step[s].measure
    /\ \A o \in Made : order[o].status \notin Waiting \cup {"SCHEDULED", "PAUSED", "VERIFIED", "CLOSED"}
    /\ \A o, p \in Made :
          o = p \/ \E x \in {o, p} : order[x].status \in {"DRAFT", "COMPLETED", "CANCELLED"}

Focus == WorkUnderOneOrder \/ ManyOrders

Symmetry == Permutations(Orders) \cup Permutations(PlanRequests)
              \cup Permutations(Tasks) \cup Permutations(Steps)
=============================================================================
