---------------------------- MODULE MCTaskSchedule ----------------------------
(* TaskSchedule under governance for TLC.  Day 0 is a Monday, day 4 a Friday. *)
EXTENDS GovernedDependencies, TLC

Patterns == {0..4, 0..6, {0, 2, 5}, {6}, {2, 3}}
TwoWeeks == 0..13

Observed == {h \in Holidays : calendar.holiday[h] # None}

(* Bound: every calendar without tasks; two tasks, one of them edited or reported, under
   two week patterns and one holiday; three milestones or tasks of two days in the
   default calendar; up to two
   requests at a time about three tasks of two days. *)
Ungoverned ==
    \/ Existing(task) = {}
    \/ /\ Cardinality(Existing(task)) <= 2
       /\ calendar.workingDays \in {0..4, {0, 2, 5}}
       /\ \A h \in Observed : calendar.holiday[h] \in {4, 7}
       /\ \A t \in Existing(task) : task[t].duration \in {None, 1, 3}
    \/ /\ calendar.workingDays = 0..4 /\ Observed = {}
       /\ \A t \in Existing(task) : /\ task[t].actualStart = None /\ task[t].actualEnd = None
                                    /\ task[t].duration \in {0, 2}

Focus ==
    \/ waiting = {} /\ Ungoverned
    \/ /\ calendar.workingDays = 0..4 /\ Observed = {} /\ Cardinality(waiting) <= 2
       /\ \A d \in deps : d.type = "FS" /\ d.lag = 0
       /\ \A t \in Existing(task) : /\ task[t].actualStart = None /\ task[t].actualEnd = None
                                    /\ task[t].duration = 2

Symmetry == Permutations(Tasks) \cup Permutations(Holidays)
=============================================================================
