------------------------- MODULE MCResourceLeveling -------------------------
(* An instance of ResourceLeveling for TLC.  Day 0 is a Monday. *)
EXTENDS ResourceLeveling, TLC
CONSTANTS a, b, c

WorkWeek == {0..4}
At(start, duration) == [start |-> start, duration |-> duration]

(* Three tasks around a weekend, the resource on none or most of them. *)
ThreeTasks == {(a :> At(3, 2)) @@ (b :> At(3, 2)) @@ (c :> At(None, 2)),
               (a :> At(3, 1)) @@ (b :> At(4, 2)) @@ (c :> At(4, 2))}
Unstaffed == [t \in Tasks |-> 0]
Staffed == {(a :> 60) @@ (b :> 60) @@ (c :> 40), (a :> 80) @@ (b :> 30) @@ (c :> 0)}
UnstaffedOrStaffed == Staffed \cup {Unstaffed}
Urgency == [t \in Tasks |-> IF t = a THEN 10 ELSE 50]

Active == {r \in Runs : leveling[r] # Idle}

(* Tasks of two days in the calendar as it is made. *)
TwoDays == /\ \A h \in Holidays : calendar.holiday[h] = None
           /\ \A t \in Existing(task) : task[t].duration = 2

(* Bound: no run and at most one edit, with a holiday and other durations; one run among
   assignments and progress, without dependencies; one run with up to two dependencies;
   two runs with one dependency. *)
Focus ==
    \/ Active = {} /\ deps = {} /\ edits <= 1
    \/ TwoDays /\ deps = {} /\ Cardinality(Active) <= 1 /\ edits <= 1
    \/ /\ TwoDays /\ checking = NotChecking /\ progressed = {} /\ assigned \in Staffed
       /\ \/ Cardinality(deps) <= 1
          \/ Cardinality(deps) = 2 /\ Cardinality(Active) <= 1 /\ assigned[a] = 60

Symmetry == Permutations(Runs)
=============================================================================
