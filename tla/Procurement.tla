------------------------------- MODULE Procurement -------------------------------
(* Purchase requisitions, purchase orders, receiving, and the platform approval
   service that decides them: ProcurementService, PurchasingService and
   ApprovalService over the shared session of DbSession.

   A requisition or order owns the sequence of its lines.  A line of an order may
   name the requisition line <<q, k>> it sources.  Each requisition or order is
   submitted at most once, so its approval request is identified by it.  Quantities
   are entered in the item's stock UOM, the default of every operation here.

   approve_and_apply runs the handler, which commits through record_audit, and then
   marks the request decided in a second commit: two steps here, with deciding
   telling which request is between them.                                        *)
EXTENDS DbSession, SequencesExt, FiniteSetsExt, Integers

CONSTANTS None,
          Items, StoreroomIds,   \* master data that stock positions are made of
          Reqs, Orders,          \* requisitions and purchase orders that may be created
          MaxReqLines, MaxLines, \* bounds: lines of a requisition, of an order
          Quantities,            \* quantities a line may be created with
          Receipts,              \* receipt payloads
          MasterStates,          \* item and storeroom settings the master services may save
          References             \* what a requisition may be made for (source_reference_id)

ASSUME EntityAssumption == Reqs \cap Orders = {}
ASSUME BoundsAssumption == /\ MaxReqLines \in Nat
                           /\ MaxLines \in Nat
                           /\ Quantities \subseteq Nat \ {0}
ASSUME ReceiptsAssumption ==
    Receipts \subseteq Seq([line : Nat, accepted : Nat, rejected : Nat])

VARIABLE deciding

vars == <<sessionVars, deciding>>

Positions == Items \X StoreroomIds
Entities == Reqs \cup Orders
Sources == Reqs \X (1..MaxReqLines)   \* requisition lines an order line may source

-----------------------------------------------------------------------------
(* Status tables *)

REQUISITION_STATUS_TRANSITIONS ==
    ({"DRAFT"} \X {"SUBMITTED", "CANCELLED"})
      \cup ({"SUBMITTED"} \X {"UNDER_REVIEW", "APPROVED", "REJECTED", "CANCELLED"})
      \cup ({"UNDER_REVIEW"} \X {"APPROVED", "REJECTED", "CANCELLED"})
      \cup ({"APPROVED"} \X {"PARTIALLY_SOURCED", "FULLY_SOURCED", "CANCELLED"})
      \cup ({"PARTIALLY_SOURCED"} \X {"FULLY_SOURCED", "CANCELLED"})
      \cup {<<"FULLY_SOURCED", "CLOSED">>}

PURCHASE_ORDER_STATUS_TRANSITIONS ==
    LET afterApproval == {"FULLY_RECEIVED", "CANCELLED", "CLOSED"}
    IN  ({"DRAFT"} \X {"SUBMITTED", "CANCELLED"})
          \cup ({"SUBMITTED"} \X {"UNDER_REVIEW", "APPROVED", "REJECTED", "CANCELLED"})
          \cup ({"UNDER_REVIEW"} \X {"APPROVED", "REJECTED", "CANCELLED"})
          \cup ({"APPROVED"} \X ({"SENT", "PARTIALLY_RECEIVED"} \cup afterApproval))
          \cup ({"SENT"} \X ({"PARTIALLY_RECEIVED"} \cup afterApproval))
          \cup ({"PARTIALLY_RECEIVED"} \X afterApproval)
          \cup {<<"FULLY_RECEIVED", "CLOSED">>}

ValidTransition(current, next, transitions) ==
    next = current \/ <<current, next>> \in transitions

ReqStatuses == {"DRAFT", "SUBMITTED", "UNDER_REVIEW", "APPROVED", "REJECTED",
                "PARTIALLY_SOURCED", "FULLY_SOURCED", "CANCELLED", "CLOSED"}
OrderStatuses == {"DRAFT", "SUBMITTED", "UNDER_REVIEW", "APPROVED", "REJECTED", "SENT",
                  "PARTIALLY_RECEIVED", "FULLY_RECEIVED", "CANCELLED", "CLOSED"}
ReqLineStatuses == {"DRAFT", "OPEN", "PARTIALLY_SOURCED", "FULLY_SOURCED", "REJECTED",
                    "CANCELLED"}
OrderLineStatuses == {"DRAFT", "OPEN", "PARTIALLY_RECEIVED", "FULLY_RECEIVED", "CANCELLED"}

ReqLines == [item : Items, requested : Nat, sourced : Nat, status : ReqLineStatuses]
OrderLines == [position : Positions, ordered : Nat, received : Nat, rejected : Nat,
               status : OrderLineStatuses, source : Sources \cup {None}]

ReqRows == [status : ReqStatuses, lines : Seq(ReqLines), reference : References \cup {None}]
OrderRows == [status : OrderStatuses, source : Reqs \cup {None}, lines : Seq(OrderLines)]
StockRows == [on_hand : Nat, on_order : Nat]

ASSUME NoneAssumption ==
    /\ None \notin Reqs \cup Orders \cup Sources \cup References
    /\ None \notin ReqRows \cup OrderRows \cup StockRows \cup {"PENDING", "APPROVED", "REJECTED"}
    /\ None \notin Entities \X {"APPROVED", "REJECTED"}

(* The tables of the database. *)
TablesOK(t) ==
    /\ t.req \in [Reqs -> ReqRows \cup {None}]
    /\ t.order \in [Orders -> OrderRows \cup {None}]
    /\ t.approval \in [Entities -> {"PENDING", "APPROVED", "REJECTED", None}]
    /\ t.stock \in [Positions -> StockRows \cup {None}]
    /\ t.master \in MasterStates

(* TypeOK: rows and session state have the shapes the ORM models declare; a stock
   quantity is never negative, committed or not. *)
TypeOK == /\ TablesOK(db)
          /\ TablesOK(ws)
          /\ unflushed \subseteq Positions
          /\ clash \in BOOLEAN
          /\ session \in {"ACTIVE", "INACTIVE"}
          /\ deciding \in (Entities \X {"APPROVED", "REJECTED"}) \cup {None}

EmptyTables(m) == [req |-> [q \in Reqs |-> None], order |-> [o \in Orders |-> None],
                   approval |-> [e \in Entities |-> None],
                   stock |-> [p \in Positions |-> None], master |-> m]

Init == /\ \E m \in MasterStates : SessionOpen(EmptyTables(m))
        /\ deciding = None

(* An operation can start: its first query is answered and no decision is under way. *)
Ready == session = "ACTIVE" /\ deciding = None

-----------------------------------------------------------------------------
(* ProcurementService *)

(* reference: source_reference_id, what the requisition is for *)
CreateRequisition(q, room, reference) ==
    /\ Ready
    /\ ws.req[q] = None
    /\ room \in ws.master.activeRooms
    /\ CommitOrRollback([ws EXCEPT !.req[q] =
          [status |-> "DRAFT", lines |-> <<>>, reference |-> reference]])
    /\ UNCHANGED deciding

DraftRequisition(q) == ws.req[q] # None /\ ws.req[q].status = "DRAFT"

AddRequisitionLine(q, i, quantity) ==
    /\ Ready
    /\ DraftRequisition(q)
    /\ i \in ws.master.activeItems \cap ws.master.purchaseItems
    /\ Len(ws.req[q].lines) < MaxReqLines
    /\ CommitOrRollback([ws EXCEPT !.req[q].lines =
          Append(@, [item |-> i, requested |-> quantity, sourced |-> 0,
                     status |-> "DRAFT"])])
    /\ UNCHANGED deciding

(* update_requisition overwrites the reference of a draft, a requirement's link to it or
   not; an empty text clears it. *)
UpdateRequisition(q, room, reference) ==
    /\ Ready
    /\ DraftRequisition(q)
    /\ room \in ws.master.activeRooms
    /\ CommitOrRollback([ws EXCEPT !.req[q].reference = reference])
    /\ UNCHANGED deciding

WithLineStatus(lines, status) == [k \in DOMAIN lines |-> [lines[k] EXCEPT !.status = status]]

(* request_change refuses a second pending request for an entity. *)
SubmitRequisition(q) ==
    /\ Ready
    /\ DraftRequisition(q)
    /\ ws.req[q].lines # <<>>
    /\ ws.approval[q] # "PENDING"
    /\ BareCommit([ws EXCEPT !.req[q].status = "SUBMITTED",
                             !.req[q].lines = WithLineStatus(@, "DRAFT"),
                             !.approval[q] = "PENDING"])
    /\ UNCHANGED deciding

CancelRequisition(q) ==
    /\ Ready
    /\ DraftRequisition(q)
    /\ CommitOrRollback([ws EXCEPT !.req[q].status = "CANCELLED",
                                   !.req[q].lines = WithLineStatus(@, "CANCELLED")])
    /\ UNCHANGED deciding

-----------------------------------------------------------------------------
(* PurchasingService: the life of an order up to its submission *)

ReadyForPurchasing(source) ==
    source # None => /\ ws.req[source] # None
                     /\ ws.req[source].status \in {"APPROVED", "PARTIALLY_SOURCED"}

CreatePurchaseOrder(o, source) ==
    /\ Ready
    /\ ws.order[o] = None
    /\ ReadyForPurchasing(source)
    /\ CommitOrRollback([ws EXCEPT !.order[o] =
          [status |-> "DRAFT", source |-> source, lines |-> <<>>]])
    /\ UNCHANGED deciding

(* Mutant: a rejected order may be edited again. *)
DraftOrRejectedOrder(o) == ws.order[o] # None /\ ws.order[o].status \in {"DRAFT", "REJECTED"}

DraftOrder(o) == ws.order[o] # None /\ ws.order[o].status = "DRAFT"

ReqLine(t, source) == t.req[source[1]].lines[source[2]]

(* _validate_source_requisition_line: the line's item, its requisition if the order
   names one, and its remaining demand; not the status of its requisition. *)
SourceLineAllowed(o, source, i, quantity) ==
    source # None =>
        /\ ws.req[source[1]] # None
        /\ source[2] \in DOMAIN ws.req[source[1]].lines
        /\ ReqLine(ws, source).item = i
        /\ ws.order[o].source # None => ws.order[o].source = source[1]
        /\ quantity <= ReqLine(ws, source).requested - ReqLine(ws, source).sourced

AddPurchaseOrderLine(o, p, quantity, source) ==
    /\ Ready
    /\ DraftOrder(o)
    /\ p[1] \in ws.master.activeItems \cap ws.master.purchaseItems
    /\ p[2] \in ws.master.activeRooms \cap ws.master.receivingRooms
    /\ SourceLineAllowed(o, source, p[1], quantity)
    /\ Len(ws.order[o].lines) < MaxLines
    /\ CommitOrRollback([ws EXCEPT !.order[o].lines =
          Append(@, [position |-> p, ordered |-> quantity, received |-> 0, rejected |-> 0,
                     status |-> "DRAFT", source |-> source])])
    /\ UNCHANGED deciding

(* update_purchase_order may point the order at another requisition; lines stay. *)
UpdatePurchaseOrder(o, source) ==
    /\ Ready
    /\ DraftOrder(o)
    /\ ReadyForPurchasing(source)
    /\ CommitOrRollback([ws EXCEPT !.order[o].source = source])
    /\ UNCHANGED deciding

SubmitPurchaseOrder(o) ==
    /\ Ready
    /\ DraftOrder(o)
    /\ ws.order[o].lines # <<>>
    /\ ws.approval[o] # "PENDING"
    /\ BareCommit([ws EXCEPT !.order[o].status = "SUBMITTED", !.approval[o] = "PENDING"])
    /\ UNCHANGED deciding

CancelPurchaseOrder(o) ==
    /\ Ready
    /\ DraftOrder(o)
    /\ CommitOrRollback([ws EXCEPT !.order[o].status = "CANCELLED",
                                   !.order[o].lines = WithLineStatus(@, "CANCELLED")])
    /\ UNCHANGED deciding

SendPurchaseOrder(o) ==
    /\ Ready
    /\ ws.order[o] # None
    /\ ValidTransition(ws.order[o].status, "SENT", PURCHASE_ORDER_STATUS_TRANSITIONS)
    /\ CommitOrRollback([ws EXCEPT !.order[o].status = "SENT"])
    /\ UNCHANGED deciding

Outstanding(line) == Max({0, line.ordered - line.received - line.rejected})

FullyProcessed(lines) == lines # <<>> /\ \A k \in DOMAIN lines : Outstanding(lines[k]) = 0

ClosePurchaseOrder(o) ==
    /\ Ready
    /\ ws.order[o] # None
    /\ FullyProcessed(ws.order[o].lines)
    /\ ValidTransition(ws.order[o].status, "CLOSED", PURCHASE_ORDER_STATUS_TRANSITIONS)
    /\ CommitOrRollback([ws EXCEPT !.order[o].status = "CLOSED"])
    /\ UNCHANGED deciding

-----------------------------------------------------------------------------
(* Deciding a request.  The handler's record_audit commits what the handler wrote, and
   whatever an earlier failure left open, before the request itself is marked.       *)

AwaitsDecision(e, row) == /\ ws.approval[e] = "PENDING"
                          /\ row.status \in {"SUBMITTED", "UNDER_REVIEW"}

HandlerDone(e, decision, tables, doubled) ==
    IF doubled THEN FlushFails /\ UNCHANGED deciding
               ELSE Committed(tables) /\ deciding' = <<e, decision>>

DecideRequisition(q, decision, lineStatus) ==
    /\ Ready
    /\ AwaitsDecision(q, ws.req[q])
    /\ HandlerDone(q, decision, [ws EXCEPT !.req[q].status = decision,
                                           !.req[q].lines = WithLineStatus(@, lineStatus)], clash)

ApproveRequisition(q) == DecideRequisition(q, "APPROVED", "OPEN")
RejectRequisition(q) == DecideRequisition(q, "REJECTED", "REJECTED")

RejectPurchaseOrder(o) ==
    /\ Ready
    /\ AwaitsDecision(o, ws.order[o])
    /\ HandlerDone(o, "REJECTED", [ws EXCEPT !.order[o].status = "REJECTED",
                                   !.order[o].lines = WithLineStatus(@, "CANCELLED")], clash)

(* _adjust_on_order_balance for an approved line.  The query does not see a row that is
   only added, so a second row is added for its position: their flush will fail.    *)
OnOrder(row, quantity, hidden) ==
    IF row = None THEN [on_hand |-> 0, on_order |-> quantity]
    ELSE IF hidden THEN row ELSE [row EXCEPT !.on_order = @ + quantity]

ReqLineStatus(line) == IF line.sourced >= line.requested THEN "FULLY_SOURCED"
                       ELSE IF line.sourced > 0 THEN "PARTIALLY_SOURCED" ELSE "OPEN"

(* Mutant: checks the line alone, without what other orders already sourced. *)
OversourcesAlone(line, quantity) == quantity > line.requested

Oversources(line, quantity) == line.sourced + quantity > line.requested

Sourced(line, quantity) ==
    LET next == [line EXCEPT !.sourced = @ + quantity]
    IN  [next EXCEPT !.status = ReqLineStatus(next)]

(* One turn of the approval handler's loop; a turn that raises ends it. *)
ApproveLine(o, run, k) ==
    LET line   == run.tables.order[o].lines[k]
        p      == line.position
        hidden == p \in run.rows
        opened == [run.tables EXCEPT !.order[o].lines[k].status = "OPEN",
                                     !.stock[p] = OnOrder(@, line.ordered, hidden)]
        next   == [run EXCEPT !.tables = opened,
                              !.rows = IF run.tables.stock[p] = None THEN @ \cup {p} ELSE @,
                              !.doubled = @ \/ hidden]
        source == line.source
    IN  CASE ~run.ok -> run
          [] run.ok /\ source = None -> next
          [] OTHER ->
               IF Oversources(ReqLine(opened, source), line.ordered)
                 THEN [next EXCEPT !.ok = FALSE]
                 ELSE [next EXCEPT !.tables.req[source[1]].lines[source[2]] =
                                       Sourced(@, line.ordered),
                                   !.touched = @ \cup {source[1]}]

ApprovedLines(o) ==
    LET run[k \in 0..Len(ws.order[o].lines)] ==
            IF k = 0 THEN [tables |-> [ws EXCEPT !.order[o].status = "APPROVED"], ok |-> TRUE,
                           rows |-> unflushed, doubled |-> clash, touched |-> {}]
                     ELSE ApproveLine(o, run[k - 1], k)
    IN  run[Len(ws.order[o].lines)]

(* _refresh_requisition_status *)
RefreshedStatus(req) ==
    IF \A k \in DOMAIN req.lines : req.lines[k].status = "FULLY_SOURCED" THEN "FULLY_SOURCED"
    ELSE IF \E k \in DOMAIN req.lines : req.lines[k].sourced > 0 THEN "PARTIALLY_SOURCED"
    ELSE req.status

Refreshable(req) == ValidTransition(req.status, RefreshedStatus(req),
                                    REQUISITION_STATUS_TRANSITIONS)

Refreshed(t, qs) == [t EXCEPT !.req = [q \in Reqs |->
    IF q \in qs THEN [t.req[q] EXCEPT !.status = RefreshedStatus(t.req[q])] ELSE t.req[q]]]

(* apply_submitted_purchase_order_approval.  A line that would oversource its
   requisition line, or a requisition that may not change status, raises: what was
   written stays in the session's transaction.  touched is a Python set, so any of
   its refreshable members may have come before the one that raises.               *)
ApprovePurchaseOrder(o) ==
    /\ Ready
    /\ AwaitsDecision(o, ws.order[o])
    /\ LET run   == ApprovedLines(o)
           stuck == {q \in run.touched : ~Refreshable(run.tables.req[q])}
       IN  IF run.ok /\ stuck = {}
           THEN HandlerDone(o, "APPROVED", Refreshed(run.tables, run.touched), run.doubled)
           ELSE /\ \E qs \in IF run.ok THEN SUBSET (run.touched \ stuck) ELSE {{}} :
                      LeftOpen(Refreshed(run.tables, qs), run.rows, run.doubled)
                /\ UNCHANGED deciding

(* The rest of approve_and_apply or reject. *)
FinishDecision ==
    /\ deciding # None
    /\ Committed([ws EXCEPT !.approval[deciding[1]] = deciding[2]])
    /\ deciding' = None

-----------------------------------------------------------------------------
(* Receiving *)

OrderLineStatus(line) == LET processed == line.received + line.rejected
                         IN  IF processed <= 0 THEN "OPEN"
                             ELSE IF processed >= line.ordered THEN "FULLY_RECEIVED"
                             ELSE "PARTIALLY_RECEIVED"

Received(line, entry) ==
    LET next == [line EXCEPT !.received = @ + entry.accepted, !.rejected = @ + entry.rejected]
    IN  [next EXCEPT !.status = OrderLineStatus(next)]

(* Mutant: the outstanding quantity is not checked. *)
ReceivableBeyondOutstanding(t, o, entry) ==
    LET lines == t.order[o].lines
        processed == entry.accepted + entry.rejected
    IN  /\ entry.line \in DOMAIN lines
        /\ processed > 0
        /\ LET p == lines[entry.line].position
           IN  /\ entry.accepted > 0 =>
                     /\ p[1] \in t.master.activeItems \cap t.master.stockedItems
                     /\ p[2] \in t.master.activeRooms
               /\ t.stock[p] # None
               /\ t.stock[p].on_order >= processed

(* post_adjustment needs an active, stocked item and an active storeroom; on_order may
   not become negative. *)
ReceivableEntry(t, o, entry) ==
    LET lines == t.order[o].lines
        processed == entry.accepted + entry.rejected
    IN  /\ entry.line \in DOMAIN lines
        /\ processed > 0
        /\ processed <= Outstanding(lines[entry.line])
        /\ LET p == lines[entry.line].position
           IN  /\ entry.accepted > 0 =>
                     /\ p[1] \in t.master.activeItems \cap t.master.stockedItems
                     /\ p[2] \in t.master.activeRooms
               /\ t.stock[p] # None
               /\ t.stock[p].on_order >= processed

(* Mutant: rejected units enter the stock. *)
StockEverything(o, run, entry) ==
    LET line == run.tables.order[o].lines[entry.line]
    IN  IF run.ok /\ ReceivableEntry(run.tables, o, entry)
        THEN [run EXCEPT !.tables.order[o].lines[entry.line] = Received(line, entry),
                         !.tables.stock[line.position].on_hand =
                             @ + entry.accepted + entry.rejected,
                         !.tables.stock[line.position].on_order =
                             @ - entry.accepted - entry.rejected]
        ELSE [run EXCEPT !.ok = FALSE]

ReceiveEntry(o, run, entry) ==
    LET line == run.tables.order[o].lines[entry.line]
    IN  IF run.ok /\ ReceivableEntry(run.tables, o, entry)
        THEN [run EXCEPT !.tables.order[o].lines[entry.line] = Received(line, entry),
                         !.tables.stock[line.position].on_hand = @ + entry.accepted,
                         !.tables.stock[line.position].on_order =
                             @ - entry.accepted - entry.rejected]
        ELSE [run EXCEPT !.ok = FALSE]

ReceivedEntries(o, receipt) ==
    LET run[k \in 0..Len(receipt)] ==
            IF k = 0 THEN [tables |-> ws, ok |-> ~clash]
                     ELSE ReceiveEntry(o, run[k - 1], receipt[k])
    IN  run[Len(receipt)]

(* Mutant: a line is compared with what was received alone. *)
ReceivingStatusOfReceived(lines) ==
    IF \A k \in DOMAIN lines : lines[k].received >= lines[k].ordered
    THEN "FULLY_RECEIVED" ELSE "PARTIALLY_RECEIVED"

ReceivingStatus(lines) == IF FullyProcessed(lines) THEN "FULLY_RECEIVED"
                                                   ELSE "PARTIALLY_RECEIVED"

OpenForReceiving == {"APPROVED", "SENT", "PARTIALLY_RECEIVED"}

(* post_receipt flushes first, and any failure rolls the whole receipt back. *)
PostReceipt(o, receipt) ==
    /\ Ready
    /\ ws.order[o] # None
    /\ ws.order[o].status \in OpenForReceiving
    /\ receipt # <<>>
    /\ LET run == ReceivedEntries(o, receipt)
       IN  IF run.ok THEN Committed([run.tables EXCEPT !.order[o].status =
                                        ReceivingStatus(run.tables.order[o].lines)])
                     ELSE Rollback
    /\ UNCHANGED deciding

-----------------------------------------------------------------------------
(* Everything else that uses the session *)

(* ItemMasterService and InventoryService save their rows with the same session. *)
UpdateMaster(m) ==
    /\ Ready
    /\ m # ws.master
    /\ CommitOrRollback([ws EXCEPT !.master = m])
    /\ UNCHANGED deciding

Restart == Reopened /\ deciding' = None

RequisitionNext ==
    \E q \in Reqs :
        \/ \E room \in StoreroomIds, reference \in References \cup {None} :
              \/ CreateRequisition(q, room, reference)
              \/ UpdateRequisition(q, room, reference)
        \/ \E i \in Items, n \in Quantities : AddRequisitionLine(q, i, n)
        \/ SubmitRequisition(q)
        \/ CancelRequisition(q)
        \/ ApproveRequisition(q)
        \/ RejectRequisition(q)

OrderNext ==
    \E o \in Orders :
        \/ \E source \in Reqs \cup {None} :
              CreatePurchaseOrder(o, source) \/ UpdatePurchaseOrder(o, source)
        \/ \E p \in Positions, n \in Quantities, source \in Sources \cup {None} :
              AddPurchaseOrderLine(o, p, n, source)
        \/ SubmitPurchaseOrder(o)
        \/ CancelPurchaseOrder(o)
        \/ SendPurchaseOrder(o)
        \/ ClosePurchaseOrder(o)
        \/ ApprovePurchaseOrder(o)
        \/ RejectPurchaseOrder(o)
        \/ \E receipt \in Receipts : PostReceipt(o, receipt)

Next == \/ RequisitionNext
        \/ OrderNext
        \/ FinishDecision
        \/ \E m \in MasterStates : UpdateMaster(m)
        \/ Restart

Spec == Init /\ [][Next]_vars

-----------------------------------------------------------------------------
(* Properties, of the committed database *)

OrderLineIds(t) == {id \in Orders \X (1..MaxLines) :
                        t.order[id[1]] # None /\ id[2] \in DOMAIN t.order[id[1]].lines}

Line(t, id) == t.order[id[1]].lines[id[2]]

(* OnOrderMatches: what a stock position shows as on order is exactly what approved,
   not yet closed orders still have to deliver to it: approval adds every line once,
   each receipt takes off what it processed, and no failure, restart or late session
   commit leaves one without the other. *)
OnOrderMatches ==
    \A p \in Positions :
        LET open == {id \in OrderLineIds(db) :
                        /\ db.order[id[1]].status \in OpenForReceiving
                        /\ Line(db, id).position = p}
        IN  (IF db.stock[p] = None THEN 0 ELSE db.stock[p].on_order)
              = SumFunction([id \in open |-> Outstanding(Line(db, id))])

(* OnHandIsAccepted: stock on hand at a position is the sum of what receipts accepted
   on lines delivered there: a receipt that fails on a later line leaves no stock. *)
OnHandIsAccepted ==
    \A p \in Positions :
        LET delivered == {id \in OrderLineIds(db) : Line(db, id).position = p}
        IN  (IF db.stock[p] = None THEN 0 ELSE db.stock[p].on_hand)
              = SumFunction([id \in delivered |-> Line(db, id).received])

(* OrderMatchesLines: an order counts as fully received or closed only when every line
   is processed, as partially received only when something is processed and something
   is not, and no line is processed beyond what was ordered. *)
OrderMatchesLines ==
    \A o \in Orders : db.order[o] # None =>
        LET lines == db.order[o].lines
        IN  /\ \A k \in DOMAIN lines : lines[k].received + lines[k].rejected <= lines[k].ordered
            /\ db.order[o].status \in {"FULLY_RECEIVED", "CLOSED"} <=> FullyProcessed(lines)
            /\ db.order[o].status = "PARTIALLY_RECEIVED" =>
                  \E k \in DOMAIN lines : lines[k].received + lines[k].rejected > 0

(* RowsConsistent: the tables, committed and in the session, are well formed, and an
   order's status tells what its lines have received. *)
RowsConsistent == TypeOK /\ OrderMatchesLines

(* DecisionApplied: a request recorded as approved or rejected has been applied: its
   requisition or order carries that decision or a status that only follows it. *)
DecisionApplied ==
    \A e \in Entities :
        LET row == IF e \in Reqs THEN db.req[e] ELSE db.order[e]
        IN  /\ db.approval[e] = "REJECTED" => row.status = "REJECTED"
            /\ db.approval[e] = "APPROVED" =>
                  row.status \notin {"DRAFT", "SUBMITTED", "UNDER_REVIEW", "REJECTED", "CANCELLED"}

(* NotOversourced: orders drafted side by side against one requisition line never
   source more than it requests, and only orders that were approved source it. *)
NotOversourced ==
    \A q \in Reqs : db.req[q] # None =>
        \A k \in DOMAIN db.req[q].lines :
            LET line == db.req[q].lines[k]
                by   == {id \in OrderLineIds(db) :
                            /\ Line(db, id).source = <<q, k>>
                            /\ db.approval[id[1]] # None
                            /\ db.order[id[1]].status \notin {"SUBMITTED", "REJECTED"}}
            IN  /\ line.sourced <= line.requested
                /\ line.sourced <= SumFunction([id \in by |-> Line(db, id).ordered])
=============================================================================
