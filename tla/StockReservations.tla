---------------------------- MODULE StockReservations ----------------------------
(* ReservationService on top of the stock service, and the composition of the item
   master, the storerooms, the balances and the reservations into one system.

   A reservation stores its quantities in the UOM it was entered in; the balance
   holds them in the stock UOM.  Creating, issuing and closing a reservation each
   write the reservation row and post to the stock service in one database
   transaction, rolled back as a whole when either part fails.                   *)
EXTENDS StockControl, FiniteSetsExt

CONSTANT ReservationIds  \* the reservations that may be created

VARIABLE reservation

vars == <<item, storeroom, balance, ledger, reservation>>

ReservationRows ==
    [status : ReservationStatuses, position : Positions, uom : Uoms,
     reserved_qty : Nat, issued_qty : Nat, remaining_qty : Nat]

ASSUME ReservationRowsAssumption == None \notin ReservationRows

LiveStatuses == {"ACTIVE", "PARTIALLY_ISSUED"}

Live(r) == reservation[r] # None /\ reservation[r].status \in LiveStatuses

TypeOK == /\ ItemTypeOK
          /\ StoreroomTypeOK
          /\ StockTypeOK
          /\ reservation \in [ReservationIds -> ReservationRows \cup {None}]

Init == /\ ItemInit
        /\ StoreroomInit
        /\ StockInit
        /\ reservation = [r \in ReservationIds |-> None]

-----------------------------------------------------------------------------
CreateReservation(r, p, quantity, uom) ==
    /\ reservation[r] = None
    /\ HoldReservation(p, quantity, uom)
    /\ reservation' = [reservation EXCEPT
          ![r] = [status |-> "ACTIVE", position |-> p, uom |-> uom,
                  reserved_qty |-> quantity, issued_qty |-> 0,
                  remaining_qty |-> quantity]]

(* Mutant: more than the remaining quantity may be issued. *)
IssueBeyondRemaining(r, quantity) ==
    LET row == reservation[r]
        remaining == row.remaining_qty - quantity
        next == IF remaining <= 0 THEN "FULLY_ISSUED" ELSE "PARTIALLY_ISSUED"
    IN  /\ Live(r)
        /\ ValidTransition(row.status, next, RESERVATION_STATUS_TRANSITIONS)
        /\ IssueStock(row.position, quantity, row.uom, quantity)
        /\ reservation' = [reservation EXCEPT
              ![r].issued_qty = @ + quantity,
              ![r].remaining_qty = remaining,
              ![r].status = next]

(* Mutant: the issue releases nothing of the hold. *)
IssueKeepingHold(r, quantity) ==
    LET row == reservation[r]
        remaining == row.remaining_qty - quantity
        next == IF remaining <= 0 THEN "FULLY_ISSUED" ELSE "PARTIALLY_ISSUED"
    IN  /\ Live(r)
        /\ quantity <= row.remaining_qty
        /\ ValidTransition(row.status, next, RESERVATION_STATUS_TRANSITIONS)
        /\ IssueStock(row.position, quantity, row.uom, 0)
        /\ reservation' = [reservation EXCEPT
              ![r].issued_qty = @ + quantity,
              ![r].remaining_qty = remaining,
              ![r].status = next]

(* issue_reserved_stock: the issue releases exactly the quantity it takes. *)
IssueReservedStock(r, quantity) ==
    LET row == reservation[r]
        remaining == row.remaining_qty - quantity
        next == IF remaining <= 0 THEN "FULLY_ISSUED" ELSE "PARTIALLY_ISSUED"
    IN  /\ Live(r)
        /\ quantity <= row.remaining_qty
        /\ ValidTransition(row.status, next, RESERVATION_STATUS_TRANSITIONS)
        /\ IssueStock(row.position, quantity, row.uom, quantity)
        /\ reservation' = [reservation EXCEPT
              ![r].issued_qty = @ + quantity,
              ![r].remaining_qty = remaining,
              ![r].status = next]

(* Mutant: a partially issued reservation may be cancelled. *)
CloseUnchecked(r, status) ==
    LET row == reservation[r]
    IN  /\ Live(r)
        /\ row.remaining_qty > 0
        /\ ReleaseHold(row.position, row.remaining_qty, row.uom)
        /\ reservation' = [reservation EXCEPT ![r].remaining_qty = 0, ![r].status = status]

(* What is checked before a reservation is closed, by _close_reservation itself and by
   the release it asks the stock service for. *)
Closable(r, status) ==
    LET row == reservation[r]
    IN  /\ Live(r)
        /\ row.remaining_qty > 0
        /\ ValidTransition(row.status, status, RESERVATION_STATUS_TRANSITIONS)
        /\ PositionUsable(row.position)
        /\ ReservationAllowed(row.position, "RESERVATION_RELEASE", row.remaining_qty, row.uom)

(* _close_reservation: what remains goes back to available stock. *)
CloseReservation(r, status) ==
    /\ Closable(r, status)
    /\ ReleaseHold(reservation[r].position, reservation[r].remaining_qty, reservation[r].uom)
    /\ reservation' = [reservation EXCEPT ![r].remaining_qty = 0, ![r].status = status]

ReleaseReservation(r) == CloseReservation(r, "RELEASED")

CancelReservation(r) == CloseReservation(r, "CANCELLED")

ReservationNext ==
    \E r \in ReservationIds :
        \/ \E p \in Positions, q \in Quantities, u \in Uoms : CreateReservation(r, p, q, u)
        \/ \E q \in Quantities : IssueReservedStock(r, q)
        \/ ReleaseReservation(r)
        \/ CancelReservation(r)

-----------------------------------------------------------------------------
Next == \/ ItemNext /\ UNCHANGED <<storeroom, balance, ledger, reservation>>
        \/ StoreroomNext /\ UNCHANGED <<item, balance, ledger, reservation>>
        \/ StockNext /\ UNCHANGED <<item, storeroom, reservation>>
        \/ ReservationNext /\ UNCHANGED <<item, storeroom>>

Spec == Init /\ [][Next]_vars

-----------------------------------------------------------------------------
(* ReservationAccounting: whatever mix of partial issues, a release or a cancel a
   reservation goes through, what it reserved is what was issued from it, still
   remains, or was handed back; only a released reservation hands back part of it,
   a cancelled one hands back all, and a fully issued one nothing. *)
ReservationAccounting ==
    \A r \in ReservationIds : reservation[r] # None =>
        LET row == reservation[r]
            closed == row.reserved_qty - row.issued_qty - row.remaining_qty
        IN  CASE row.status = "ACTIVE" -> closed = 0 /\ row.issued_qty = 0
              [] row.status = "PARTIALLY_ISSUED" ->
                    closed = 0 /\ row.issued_qty > 0 /\ row.remaining_qty > 0
              [] row.status = "FULLY_ISSUED" -> closed = 0 /\ row.remaining_qty = 0
              [] row.status = "RELEASED" -> closed > 0 /\ row.remaining_qty = 0
              [] row.status = "CANCELLED" -> closed = row.reserved_qty
              [] OTHER -> FALSE

HeldQuantity(r) ==
    StockQuantity(item[reservation[r].position[1]].uoms,
                  reservation[r].remaining_qty, reservation[r].uom)

LiveAt(p) == {r \in ReservationIds : Live(r) /\ reservation[r].position = p}

(* ReservedBacksReservations: the quantity a balance holds as reserved is the sum of
   what its live reservations still have to issue, converted to the stock UOM: no
   hold outlives its reservation and none is released twice.  It needs UOM factors
   that stay as they were when the reservations were made. *)
ReservedBacksReservations ==
    \A p \in Positions :
        (IF balance[p] = None THEN 0 ELSE balance[p].reserved_qty)
           = SumFunction([r \in LiveAt(p) |-> HeldQuantity(r)])

(* LiveReservationClosable: while the item and the storeroom can be used, a live
   reservation passes every check of its release: it is never refused because the
   balance reserved too little. *)
LiveReservationClosable ==
    \A r \in ReservationIds :
        Live(r) /\ PositionUsable(reservation[r].position)
          => Closable(r, "RELEASED")

(* LedgerExplainsOnHand: the signed quantities of the ledger rows, converted from
   their UOMs, add up to the on-hand quantity: no posting is missing, doubled or of
   the wrong sign. *)
LedgerExplainsOnHand ==
    \A p \in Positions : balance[p] # None =>
        balance[p].on_hand_qty =
            SumFunction([u \in Uoms |->
                StockQuantity(item[p[1]].uoms, ledger[p].net[u], u)])

(* The refinement mapping: available units are free, reserved units are held. *)
Free == [p \in Positions |-> IF balance[p] = None THEN 0 ELSE balance[p].available_qty]
Held == [p \in Positions |-> IF balance[p] = None THEN 0 ELSE balance[p].reserved_qty]

Abstract == INSTANCE AbstractStock WITH free <- Free, held <- Held

(* ImplementsAbstractStock: every operation of the item, storeroom, stock and reservation
   services does to the available and reserved quantities what AbstractStock allows, or
   leaves them alone: in particular an issue, an adjustment or a transfer never takes a
   reserved unit, and the parts of a posting never show separately. *)
ImplementsAbstractStock == Abstract!Spec
=============================================================================
