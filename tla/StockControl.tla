------------------------------ MODULE StockControl ------------------------------
(* StockControlService: stock balances and the transaction ledger.

   A balance is kept per stock position (item, storeroom).  Every operation of the
   service posts one ledger row per position it touches, in the same database
   transaction as the balance; the three _post_* methods are the only code that
   writes either.  Each operation here is one atomic step because the source makes
   it one database transaction: a failed check raises before anything is written,
   or rolls back what was (transfer_stock).

   The ledger rows of a position are summarised: the signed quantities by UOM, and
   the resulting quantities the newest row recorded.  None means no row exists.   *)
EXTENDS ItemMaster, Storerooms

CONSTANTS Quantities,  \* quantities a caller may enter
          MaxOnHand,   \* bound: no step takes a position above this on-hand quantity
          MaxLedger    \* bound: no step takes a ledger sum beyond +-MaxLedger

ASSUME QuantitiesAssumption == /\ Quantities \subseteq Nat \ {0}
                               /\ MaxOnHand \in Nat
                               /\ MaxLedger \in Nat

VARIABLES balance, ledger

Positions == Items \X StoreroomIds

BalanceRows == [on_hand_qty : Int, reserved_qty : Int, available_qty : Int, uom : Uoms]

LedgerRows == [net : [Uoms -> Int], resulting_on_hand_qty : Int,
               resulting_available_qty : Int]

ASSUME RowsAssumption == None \notin BalanceRows /\ None \notin LedgerRows

StockTypeOK == /\ balance \in [Positions -> BalanceRows \cup {None}]
               /\ ledger \in [Positions -> LedgerRows \cup {None}]

StockInit == /\ balance = [p \in Positions |-> None]
             /\ ledger = [p \in Positions |-> None]

-----------------------------------------------------------------------------
(* What the _post_* methods compute. *)

Inbound == {"OPENING_BALANCE", "ADJUSTMENT_INCREASE", "RETURN", "TRANSFER_IN"}

(* Mutant: a transfer's inbound half is signed like its outbound half. *)
OnHandDeltaTransferOut(type, quantity) ==
    IF type \in Inbound \ {"TRANSFER_IN"} THEN quantity ELSE -quantity

OnHandDelta(type, quantity) == IF type \in Inbound THEN quantity ELSE -quantity

(* StockBalance.create: the row a first transaction starts from. *)
NewBalance(i) == [on_hand_qty |-> 0, reserved_qty |-> 0, available_qty |-> 0,
                  uom |-> item[i].uoms.stock_uom]

CurrentBalance(p) == Given(balance[p], NewBalance(p[1]))

PostedBalance(p, onHandDelta, reservedDelta) ==
    LET b == CurrentBalance(p)
        onHand == b.on_hand_qty + onHandDelta
        reserved == b.reserved_qty + reservedDelta
    IN  [on_hand_qty |-> onHand, reserved_qty |-> reserved,
         available_qty |-> onHand - reserved, uom |-> item[p[1]].uoms.stock_uom]

(* The new ledger row: quantity and UOM as entered, results from the new balance. *)
PostedLedger(p, signedQuantity, uom, posted) ==
    LET old == Given(ledger[p], [net |-> [u \in Uoms |-> 0],
                                 resulting_on_hand_qty |-> 0,
                                 resulting_available_qty |-> 0])
    IN  [net |-> [old.net EXCEPT ![uom] = @ + signedQuantity],
         resulting_on_hand_qty |-> posted.on_hand_qty,
         resulting_available_qty |-> posted.available_qty]

WithinBounds(posted, row) == /\ posted.on_hand_qty <= MaxOnHand
                             /\ \A u \in Uoms : row.net[u] \in -MaxLedger..MaxLedger

(* _validate_stock_item and _validate_storeroom *)
PositionUsable(p) == /\ item[p[1]] # None
                     /\ item[p[1]].status = "ACTIVE"
                     /\ item[p[1]].is_stocked
                     /\ storeroom[p[2]] # None
                     /\ storeroom[p[2]].status = "ACTIVE"

(* Mutant: an adjustment may take reserved stock. *)
PostIgnoringReserved(p, type, quantity, uom) ==
    LET delta == OnHandDelta(type, StockQuantity(item[p[1]].uoms, quantity, uom))
        posted == PostedBalance(p, delta, 0)
        row == PostedLedger(p, OnHandDelta(type, quantity), uom, posted)
    IN  /\ SupportsUom(item[p[1]].uoms, uom)
        /\ posted.on_hand_qty >= 0
        /\ WithinBounds(posted, row)
        /\ balance' = [balance EXCEPT ![p] = posted]
        /\ ledger' = [ledger EXCEPT ![p] = row]

(* _post_transaction: opening balances and adjustments. *)
PostTransaction(p, type, quantity, uom) ==
    LET delta == OnHandDelta(type, StockQuantity(item[p[1]].uoms, quantity, uom))
        posted == PostedBalance(p, delta, 0)
        row == PostedLedger(p, OnHandDelta(type, quantity), uom, posted)
    IN  /\ SupportsUom(item[p[1]].uoms, uom)
        /\ posted.on_hand_qty >= 0
        /\ posted.on_hand_qty >= CurrentBalance(p).reserved_qty
        /\ WithinBounds(posted, row)
        /\ balance' = [balance EXCEPT ![p] = posted]
        /\ ledger' = [ledger EXCEPT ![p] = row]

(* Mutant: the available quantity is checked for a release as for a hold. *)
ReservationNeedsAvailable(p, type, quantity, uom) ==
    LET stock == StockQuantity(item[p[1]].uoms, quantity, uom)
        posted == PostedBalance(p, 0, IF type = "RESERVATION_HOLD" THEN stock ELSE -stock)
    IN  /\ SupportsUom(item[p[1]].uoms, uom)
        /\ balance[p] # None
        /\ posted.reserved_qty >= 0
        /\ CurrentBalance(p).available_qty >= stock

(* What is checked before a hold or a release is posted. *)
ReservationAllowed(p, type, quantity, uom) ==
    LET stock == StockQuantity(item[p[1]].uoms, quantity, uom)
        posted == PostedBalance(p, 0, IF type = "RESERVATION_HOLD" THEN stock ELSE -stock)
    IN  /\ SupportsUom(item[p[1]].uoms, uom)
        /\ balance[p] # None
        /\ posted.reserved_qty >= 0
        /\ posted.available_qty >= 0

(* Mutant: the ledger row records the balance before the posting. *)
PostReservationWithOldResult(p, type, quantity, uom) ==
    LET stock == StockQuantity(item[p[1]].uoms, quantity, uom)
        posted == PostedBalance(p, 0, IF type = "RESERVATION_HOLD" THEN stock ELSE -stock)
        row == PostedLedger(p, 0, uom, CurrentBalance(p))
    IN  /\ ReservationAllowed(p, type, quantity, uom)
        /\ balance' = [balance EXCEPT ![p] = posted]
        /\ ledger' = [ledger EXCEPT ![p] = row]

(* _post_reservation_transaction: a hold moves available stock to reserved, a
   release moves it back; neither is an on-hand movement. *)
PostReservationTransaction(p, type, quantity, uom) ==
    LET stock == StockQuantity(item[p[1]].uoms, quantity, uom)
        posted == PostedBalance(p, 0, IF type = "RESERVATION_HOLD" THEN stock ELSE -stock)
        row == PostedLedger(p, 0, uom, posted)
    IN  /\ ReservationAllowed(p, type, quantity, uom)
        /\ balance' = [balance EXCEPT ![p] = posted]
        /\ ledger' = [ledger EXCEPT ![p] = row]

(* _post_movement_transaction, in two halves because a transfer posts two. *)
MovementBalance(p, type, quantity, uom, release) ==
    PostedBalance(p, OnHandDelta(type, StockQuantity(item[p[1]].uoms, quantity, uom)),
                  -StockQuantity(item[p[1]].uoms, release, uom))

(* Mutant: the ledger row pairs the converted quantity with the entered UOM. *)
MovementLedgerConverted(p, type, quantity, uom, release) ==
    PostedLedger(p, OnHandDelta(type, StockQuantity(item[p[1]].uoms, quantity, uom)), uom,
                 MovementBalance(p, type, quantity, uom, release))

MovementLedger(p, type, quantity, uom, release) ==
    PostedLedger(p, OnHandDelta(type, quantity), uom,
                 MovementBalance(p, type, quantity, uom, release))

MovementAllowed(p, type, quantity, uom, release) ==
    LET posted == MovementBalance(p, type, quantity, uom, release)
    IN  /\ SupportsUom(item[p[1]].uoms, uom)
        /\ release <= quantity
        /\ balance[p] = None => type \in {"RETURN", "TRANSFER_IN"}
        /\ posted.on_hand_qty >= 0
        /\ posted.reserved_qty >= 0
        /\ posted.available_qty >= 0
        /\ WithinBounds(posted, MovementLedger(p, type, quantity, uom, release))

PostMovementTransaction(p, type, quantity, uom, release) ==
    /\ MovementAllowed(p, type, quantity, uom, release)
    /\ balance' = [balance EXCEPT ![p] = MovementBalance(p, type, quantity, uom, release)]
    /\ ledger' = [ledger EXCEPT ![p] = MovementLedger(p, type, quantity, uom, release)]

-----------------------------------------------------------------------------
(* The operations. *)

PostOpeningBalance(p, quantity, uom) ==
    /\ PositionUsable(p)
    /\ ledger[p] = None
    /\ PostTransaction(p, "OPENING_BALANCE", quantity, uom)

PostAdjustment(p, type, quantity, uom) ==
    /\ PositionUsable(p)
    /\ PostTransaction(p, type, quantity, uom)

HoldReservation(p, quantity, uom) ==
    /\ PositionUsable(p)
    /\ PostReservationTransaction(p, "RESERVATION_HOLD", quantity, uom)

ReleaseHold(p, quantity, uom) ==
    /\ PositionUsable(p)
    /\ PostReservationTransaction(p, "RESERVATION_RELEASE", quantity, uom)

IssueStock(p, quantity, uom, release) ==
    /\ PositionUsable(p)
    /\ storeroom[p[2]].flags.allows_issue
    /\ storeroom[p[2]].flags.requires_reservation_for_issue => release > 0
    /\ PostMovementTransaction(p, "ISSUE", quantity, uom, release)

ReturnStock(p, quantity, uom) ==
    /\ PositionUsable(p)
    /\ PostMovementTransaction(p, "RETURN", quantity, uom, 0)

(* transfer_stock: both postings in one database transaction. *)
TransferStock(i, source, destination, quantity, uom) ==
    LET from == <<i, source>>
        to == <<i, destination>>
    IN  /\ PositionUsable(from)
        /\ PositionUsable(to)
        /\ source # destination
        /\ storeroom[source].flags.allows_transfer
        /\ storeroom[destination].flags.allows_transfer
        /\ MovementAllowed(from, "TRANSFER_OUT", quantity, uom, 0)
        /\ MovementAllowed(to, "TRANSFER_IN", quantity, uom, 0)
        /\ balance' = [balance EXCEPT
              ![from] = MovementBalance(from, "TRANSFER_OUT", quantity, uom, 0),
              ![to] = MovementBalance(to, "TRANSFER_IN", quantity, uom, 0)]
        /\ ledger' = [ledger EXCEPT
              ![from] = MovementLedger(from, "TRANSFER_OUT", quantity, uom, 0),
              ![to] = MovementLedger(to, "TRANSFER_IN", quantity, uom, 0)]

(* What the stock screens can ask for.  They never pass release_reserved_qty, and
   holds and releases come only from the reservation service. *)
StockNext ==
    \/ \E p \in Positions, q \in Quantities, u \in Uoms :
          \/ PostOpeningBalance(p, q, u)
          \/ \E type \in {"ADJUSTMENT_INCREASE", "ADJUSTMENT_DECREASE"} :
                PostAdjustment(p, type, q, u)
          \/ IssueStock(p, q, u, 0)
          \/ ReturnStock(p, q, u)
    \/ \E i \in Items, s, t \in StoreroomIds, q \in Quantities, u \in Uoms :
          TransferStock(i, s, t, q, u)

-----------------------------------------------------------------------------
(* BalanceConsistent: no sequence of postings leaves a position whose available
   quantity is not on-hand minus reserved, or with a negative quantity; the three
   _post_* methods each recompute and check only part of it. *)
BalanceConsistent ==
    \A p \in Positions : balance[p] # None =>
        /\ balance[p].available_qty = balance[p].on_hand_qty - balance[p].reserved_qty
        /\ balance[p].available_qty >= 0
        /\ balance[p].reserved_qty >= 0

(* LedgerIsCurrent: the newest ledger row of a position records the balance the
   position has now, for every way of writing a balance, and a position has a
   balance exactly when it has a ledger row. *)
LedgerIsCurrent ==
    \A p \in Positions :
        /\ balance[p] = None <=> ledger[p] = None
        /\ balance[p] # None =>
              /\ ledger[p].resulting_on_hand_qty = balance[p].on_hand_qty
              /\ ledger[p].resulting_available_qty = balance[p].available_qty

(* StockInv: both, whatever sequence of postings made the rows. *)
StockInv == BalanceConsistent /\ LedgerIsCurrent

OnHand(b) == IF b = None THEN 0 ELSE b.on_hand_qty

ConservesTotal ==
    \A i \in Items : \A s, t \in StoreroomIds :
        LET before(x) == OnHand(balance[<<i, x>>])
            after(x) == OnHand(balance'[<<i, x>>])
        IN  (s # t /\ before(s) # after(s) /\ before(t) # after(t))
              => before(s) + before(t) = after(s) + after(t)

(* TransferConserves: a step that changes the on-hand quantity of an item in two
   storerooms is a transfer, and keeps the item's total: transfer_stock, which posts
   its two halves one after the other, never creates or loses stock. *)
TransferConserves == [][ConservesTotal]_<<balance>>
=============================================================================
