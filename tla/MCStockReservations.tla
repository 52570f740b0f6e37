-------------------------- MODULE MCStockReservations --------------------------
(* Instances of StockReservations for TLC. *)
EXTENDS StockReservations, TLC

KeepUoms == [stock_uom |-> None, order_uom |-> None, issue_uom |-> None,
             order_uom_ratio |-> None, issue_uom_ratio |-> None]

(* Stock kept in EA, ordered in BOX of 2, issued in EA. *)
EaWithBox == [KeepUoms EXCEPT !.stock_uom = "EA", !.order_uom = "BOX",
                              !.order_uom_ratio = 2]

BoxUoms == {"EA", "BOX"}
CreateEaWithBox == {EaWithBox}
NoUomUpdate == {KeepUoms}

Flags(issue, transfer, reserve) ==
    [allows_issue |-> issue, allows_transfer |-> transfer,
     requires_reservation_for_issue |-> reserve]

ReservationFlags == {Flags(TRUE, TRUE, FALSE), Flags(TRUE, FALSE, TRUE)}

(* Bound: with both storerooms in use a run keeps to one reservation, the stock UOM and
   two units in all; with one it uses both reservations, boxes and three units. *)
Focus ==
    (\A s \in StoreroomIds : storeroom[s] # None) =>
        /\ Cardinality({r \in ReservationIds : reservation[r] # None}) <= 1
        /\ \A r \in ReservationIds : reservation[r] # None => reservation[r].uom = "EA"
        /\ \A p \in Positions : balance[p] # None => ledger[p].net["BOX"] = 0
        /\ MapThenSumSet(LAMBDA p : Free[p] + Held[p], Positions) <= 2

Symmetry == Permutations(ReservationIds) \cup Permutations(StoreroomIds)
=============================================================================
