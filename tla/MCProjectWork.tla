----------------------------- MODULE MCProjectWork -----------------------------
(* An instance of ProjectWork for TLC. *)
EXTENDS ProjectWork, TLC

Unused(table) == \A k \in DOMAIN table : table[k] = None
AtMostOne(table) == Cardinality({k \in DOMAIN table : table[k] # None}) <= 1

(* Bound: memberships, assignments and events meet one cost item that is not edited; the
   governed changes of two cost items and a baseline meet one task. *)
Focus == \/ /\ Unused(request) /\ Unused(db.baseline) /\ AtMostOne(db.cost)
            /\ \A c \in Live(db.cost) : db.cost[c].version = 1
         \/ /\ Unused(db.resource) /\ Unused(db.member) /\ Unused(db.assignment)
            /\ Unused(db.event) /\ AtMostOne(db.task)

Symmetry == Permutations(Projects) \cup Permutations(Members) \cup Permutations(Tasks)
            \cup Permutations(Assignments)
            \cup Permutations(Costs) \cup Permutations(Requests)
=============================================================================
