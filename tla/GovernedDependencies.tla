------------------------- MODULE GovernedDependencies -------------------------
(* The network of TaskSchedule under governance (PM_GOVERNANCE_MODE=required): an
   administrator changes dependencies at once, everyone else requests the change, and
   an approver applies it later to whatever the network has become (ApprovalService
   and the handlers of dependency.add and dependency.remove).                      *)
EXTENDS TaskSchedule

CONSTANTS RequestTypes, RequestLags   \* bounds on what is requested

ASSUME RequestAssumption == RequestTypes \subseteq Types /\ RequestLags \subseteq Lags

VARIABLE waiting   \* the pending requests

governedVars == <<vars, waiting>>

(* A predecessor that was deleted meanwhile is None. *)
RequestRows == [type : {"dependency.add", "dependency.remove"},
                link : [pred : Tasks \cup {None}, succ : Tasks, type : Types, lag : Lags]]

Asked(type, p, s, kind, lag) ==
    [type |-> type, link |-> [pred |-> p, succ |-> s, type |-> kind, lag |-> lag]]

(* The entity of an addition is its successor, that of a removal the dependency. *)
SameEntity(q, r) == /\ q.type = r.type
                    /\ IF q.type = "dependency.add" THEN q.link.succ = r.link.succ
                                                    ELSE q.link = r.link

(* Identifiers are never reused: a request whose entity is gone waits for ever and no
   other request, task or dependency meets it again. *)
EntityGone(r) == IF r.type = "dependency.add" THEN task'[r.link.succ] = None
                                              ELSE r.link \notin deps'

Following(requests) ==
    {[r EXCEPT !.link.pred = IF @ \in Existing(task') THEN @ ELSE None] :
        r \in {q \in requests : ~EntityGone(q)}}

(* request_change *)
RequestChange(r) == /\ \A q \in waiting : ~SameEntity(q, r)
                    /\ waiting' = waiting \cup {r}
                    /\ UNCHANGED vars

RequestAdd(p, s, kind, lag) ==
    /\ task[p] # None /\ task[s] # None
    /\ DependencyValid(p, s)
    /\ RequestChange(Asked("dependency.add", p, s, kind, lag))

RequestRemove(d) == RequestChange(Asked("dependency.remove", d.pred, d.succ, d.type, d.lag))

(* Mutant: what was validated when it was requested is not validated again. *)
ValidWhenRequested(r) == /\ r.link.pred # None
                         /\ <<r.link.pred, r.link.succ>> \notin Links

(* add_dependency runs all its checks again when the handler calls it. *)
StillValid(r) == r.link.pred # None /\ DependencyValid(r.link.pred, r.link.succ)

(* The change, the dates, and the decision are commits of their own.  A recalculation that
   raises, or the end of the process, leaves the request pending, although the network
   has changed: it can only be rejected then. *)
Applied(r) ==
    \/ /\ task' = Recalculated(task, deps')
       /\ waiting' = Following(IF Recalculable(task, deps') THEN waiting \ {r} ELSE waiting)
    \/ /\ task' \in {task, Recalculated(task, deps')}
       /\ waiting' = Following(waiting)

ApproveAdd(r) == /\ r.type = "dependency.add"
                 /\ StillValid(r)
                 /\ deps' = deps \cup {r.link}
                 /\ Applied(r)
                 /\ UNCHANGED <<calendar, edits>>

ApproveRemove(r) == /\ r.type = "dependency.remove"
                    /\ deps' = deps \ {r.link}
                    /\ Applied(r)
                    /\ Edit /\ UNCHANGED calendar

Reject(r) == /\ waiting' = waiting \ {r}
             /\ UNCHANGED vars

GovernedInit == Init /\ waiting = {}

GovernedNext ==
    \/ Next /\ waiting' = Following(waiting)
    \/ \E p, s \in Tasks, kind \in RequestTypes, lag \in RequestLags : RequestAdd(p, s, kind, lag)
    \/ \E d \in deps : RequestRemove(d)
    \/ \E r \in waiting : ApproveAdd(r) \/ ApproveRemove(r) \/ Reject(r)

GovernedSpec == GovernedInit /\ [][GovernedNext]_governedVars

-----------------------------------------------------------------------------
(* NetworkStaysSound: the network has no cycle and no loose end however direct changes,
   deletions and late approvals follow each other; two requests may each be valid and
   close a cycle together.  Two requests never wait for one entity, and one for a
   removal always finds its dependency. *)
NetworkStaysSound ==
    /\ NetworkSound
    /\ waiting \subseteq RequestRows
    /\ \A q, r \in waiting : SameEntity(q, r) => q = r
    /\ \A r \in waiting : r.type = "dependency.remove" => r.link \in deps
=============================================================================
