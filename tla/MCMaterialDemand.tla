--------------------------- MODULE MCMaterialDemand ---------------------------
(* MaterialDemand for TLC. *)
EXTENDS MCProcurement, MaterialDemand

CONSTANTS q2, n1, n2

Used(table) == {k \in DOMAIN table : table[k] # None}

(* Bound: work orders end only once their requirement is made; orders compete for the line
   of one requisition that no requirement asked for, and one of two orders has at most one
   line; requirements meet two requisitions before these are ordered, and are then of one
   unit each; two requirements are of one unit, not issued, of work orders under way. *)
Focus == /\ \A n \in Needs : ws.mutable[n] \/ ws.need[n] # None
         /\ Used(ws.order) # {} =>
               /\ Used(ws.need) = {}
               /\ Cardinality(Used(ws.req)) <= 1
               /\ \A q \in Used(ws.req) : ws.req[q].reference = None
         /\ \E o \in Orders : ws.order[o] = None \/ Len(ws.order[o].lines) <= 1
         /\ Used(ws.req) = Reqs => \A n \in Used(ws.need) : ws.need[n].required = 1
         /\ Used(ws.need) = Needs =>
               \A n \in Needs : /\ ws.need[n].required = 1 /\ ws.need[n].issued = 0
                                /\ ws.mutable[n]

DemandSymmetry == OrderSymmetry \cup Permutations({q1, q2}) \cup Permutations({n1, n2})
=============================================================================
