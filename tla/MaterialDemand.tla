---------------------------- MODULE MaterialDemand ----------------------------
(* Material requirements of maintenance work orders over procurement:
   MaintenanceWorkOrderMaterialRequirementService, and the escalation of a shortage to a
   requisition by MaintenanceMaterialService.

   Escalating is a call on the one thread, but four commits on the shared session: the
   requisition, its line, its submission if asked for, and the link on the requirement.
   Between two of them the call may raise or the process may end.

   What the stock service answers about a position (its reservations and issues are in
   StockReservations) is an input here.  Quantities are in the stock UOM.           *)
EXTENDS Procurement

CONSTANT Needs   \* material requirements that may be created, each on an order of its own

ASSUME NeedAssumption == Needs \cap (Reqs \cup {None}) = {} /\ Needs \subseteq References

VARIABLE escalating   \* the call that is under way, or None

demandVars == <<vars, escalating>>

ProcurementStatuses == {"PLANNED", "AVAILABLE_FROM_STOCK", "SHORTAGE_IDENTIFIED",
                        "REQUISITIONED", "PARTIALLY_ISSUED", "FULLY_ISSUED", "NON_STOCK"}

(* position: stock_item_id and preferred_storeroom_id, both or none (is_stock_item) *)
NeedRows == [position : Positions \cup {None}, required : Quantities, issued : Nat,
             status : ProcurementStatuses, linked : Reqs \cup {None}]

ASSUME NeedRowsAssumption == None \notin NeedRows \cup Positions

(* need: the table of the requirements; mutable: their orders are not closed or cancelled. *)
DemandTables(m) ==
    [f \in DOMAIN EmptyTables(m) \cup {"need", "mutable"} |->
        CASE f = "need"    -> [n \in Needs |-> None]
          [] f = "mutable" -> [n \in Needs |-> TRUE]
          [] OTHER         -> EmptyTables(m)[f]]

DemandInit == /\ \E m \in MasterStates : SessionOpen(DemandTables(m))
              /\ deciding = None
              /\ escalating = None

Idle == Ready /\ escalating = None

(* update_work_order of another service ends the order (WorkExecution). *)
EndWorkOrder(n) ==
    /\ Idle /\ ws.mutable[n]
    /\ CommitOrRollback([ws EXCEPT !.mutable[n] = FALSE])
    /\ UNCHANGED <<deciding, escalating>>

-----------------------------------------------------------------------------
(* Requirements *)

(* _derive_base_procurement_status *)
BaseStatus(row) ==
    CASE row.position = None           -> "NON_STOCK"
      [] row.position # None /\ row.issued >= row.required -> "FULLY_ISSUED"
      [] row.position # None /\ row.issued \in 1..row.required - 1 -> "PARTIALLY_ISSUED"
      [] OTHER -> IF row.linked # None THEN "REQUISITIONED" ELSE "PLANNED"

WithBaseStatus(row) == [row EXCEPT !.status = BaseStatus(row)]

SaveNeed(n, row) == /\ CommitOrRollback([ws EXCEPT !.need[n] = row])
                    /\ UNCHANGED deciding

(* Neither the item nor the storeroom has to be active. *)
CreateRequirement(n, position, required, issued) ==
    /\ Idle /\ ws.mutable[n]
    /\ ws.need[n] = None
    /\ issued <= required
    /\ SaveNeed(n, WithBaseStatus([position |-> position, required |-> required,
                                   issued |-> issued, status |-> "PLANNED",
                                   linked |-> None]))
    /\ UNCHANGED escalating

Changeable(n) == ws.need[n] # None /\ ws.mutable[n]

UpdateRequirement(n, position, required, issued) ==
    /\ Idle /\ Changeable(n)
    /\ issued <= required
    /\ SaveNeed(n, WithBaseStatus([ws.need[n] EXCEPT
          !.position = position, !.required = required, !.issued = issued,
          !.linked = IF position = None THEN None ELSE @]))
    /\ UNCHANGED escalating

(* _resolve_maintenance_request *)
PositionActive(position) == /\ position[1] \in ws.master.activeItems
                            /\ position[2] \in ws.master.activeRooms

(* get_material_availability.  available: what the stock service answers; enabled: whether
   the item's category may be used for maintenance and the item is kept in stock. *)
FullyAvailable(row, available, enabled) == enabled /\ available >= row.required

(* _derive_procurement_status_from_availability *)
RefreshedNeedStatus(row, available, enabled) ==
    IF BaseStatus(row) # "PLANNED" THEN BaseStatus(row)
    ELSE IF FullyAvailable(row, available, enabled) THEN "AVAILABLE_FROM_STOCK"
    ELSE "SHORTAGE_IDENTIFIED"

RefreshRequirement(n, available, enabled) ==
    /\ Idle /\ Changeable(n)
    /\ LET row == ws.need[n]
       IN  /\ row.position # None => PositionActive(row.position)
           /\ SaveNeed(n, [row EXCEPT !.status = RefreshedNeedStatus(row, available, enabled)])
    /\ UNCHANGED escalating

-----------------------------------------------------------------------------
(* escalate_requirement_shortage *)

(* The call goes on, unless the session's commit was answered by a rollback. *)
Reached(next) == IF clash THEN None ELSE next

(* The whole required quantity is compared with what is available, issued or not. *)
EscalateCreate(n, q, available, submit) ==
    /\ Idle /\ Changeable(n)
    /\ LET row == ws.need[n]
       IN  /\ row.position # None
           /\ PositionActive(row.position)
           /\ available < row.required
           /\ row.position[1] \in ws.master.purchaseItems
           /\ CreateRequisition(q, row.position[2], n)
           /\ escalating' = Reached([need |-> n, req |-> q, at |-> "created", submit |-> submit,
                                     missing |-> row.required - available])

EscalateLine ==
    /\ escalating # None /\ escalating.at = "created"
    /\ AddRequisitionLine(escalating.req, ws.need[escalating.need].position[1],
                          escalating.missing)
    /\ escalating' = Reached([escalating EXCEPT !.at = IF escalating.submit THEN "lined" ELSE "linking"])

EscalateSubmit ==
    /\ escalating # None /\ escalating.at = "lined"
    /\ SubmitRequisition(escalating.req)
    /\ escalating' = Reached([escalating EXCEPT !.at = "linking"])

(* Mutant: the requisition is linked as soon as it exists. *)
LinkableAtOnce == escalating # None

Linkable == escalating # None /\ escalating.at = "linking"

EscalateLink ==
    /\ Linkable
    /\ Ready
    /\ SaveNeed(escalating.need, [ws.need[escalating.need] EXCEPT
                                     !.linked = escalating.req, !.status = "REQUISITIONED"])
    /\ escalating' = None

(* The call raises, for one because the user may not request approvals; nothing takes
   back what was committed. *)
EscalationFails == /\ escalating # None
                   /\ escalating' = None
                   /\ UNCHANGED vars

-----------------------------------------------------------------------------
DemandNext ==
    \/ escalating = None /\ Next /\ UNCHANGED escalating
    \/ Restart /\ escalating' = None
    \/ \E n \in Needs :
          \/ EndWorkOrder(n)
          \/ \E p \in Positions \cup {None}, required \in Quantities, issued \in Quantities \cup {0} :
                CreateRequirement(n, p, required, issued) \/ UpdateRequirement(n, p, required, issued)
          \/ \E available \in Quantities \cup {0} :
                \/ \E enabled \in BOOLEAN : RefreshRequirement(n, available, enabled)
                \/ \E q \in Reqs, submit \in BOOLEAN : EscalateCreate(n, q, available, submit)
    \/ EscalateLine
    \/ EscalateSubmit
    \/ EscalateLink
    \/ EscalationFails

DemandSpec == DemandInit /\ [][DemandNext]_demandVars

-----------------------------------------------------------------------------
StatusTold(row) ==
    /\ row.status = "NON_STOCK" <=> row.position = None
    /\ row.status = "FULLY_ISSUED" => row.issued = row.required
    /\ row.status = "PARTIALLY_ISSUED" => row.issued \in 1..row.required - 1
    /\ row.status = "REQUISITIONED" => row.linked # None
    /\ row.status \in {"PLANNED", "AVAILABLE_FROM_STOCK", "SHORTAGE_IDENTIFIED"} =>
          row.issued = 0 /\ row.linked = None

(* DemandTraced: however updates, refreshes and escalations follow each other, and wherever
   an escalation ends, the status of a requirement agrees with its quantities and its
   link, and a link leads to a requisition that asks for something and that no other
   requirement counts on ("requisition escalation linkage",
   docs/platform_alignment_followup).  The demand that the requisition itself names is
   not part of this: update_requisition may turn a draft to another one. *)
DemandTraced ==
    \A n \in Needs : db.need[n] # None =>
        LET row == db.need[n]
        IN  /\ row \in NeedRows
            /\ StatusTold(row)
            /\ row.linked # None =>
                  /\ row.position # None
                  /\ db.req[row.linked] # None
                  /\ db.req[row.linked].lines # <<>>
                  /\ \A m \in Needs \ {n} : db.need[m] # None => db.need[m].linked # row.linked
=============================================================================
