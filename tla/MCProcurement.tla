----------------------------- MODULE MCProcurement -----------------------------
(* Procurement for TLC. *)
EXTENDS Procurement, TLC

CONSTANTS o1, o2, q1, i1, r1, r2

(* Every setting of the one item and the storerooms that the other services save. *)
OpenMaster == [activeItems |-> Items, purchaseItems |-> Items, stockedItems |-> Items,
               activeRooms |-> StoreroomIds, receivingRooms |-> StoreroomIds]

FixedMaster == {OpenMaster}
ChangingMaster == {OpenMaster, [OpenMaster EXCEPT !.activeItems = {}],
                   [OpenMaster EXCEPT !.activeRooms = StoreroomIds \ {r1}]}

Entry(line, accepted, rejected) == [line |-> line, accepted |-> accepted, rejected |-> rejected]

(* A partial delivery, a full one, one with a rejected unit, one that fills both lines,
   one whose second entry exceeds what the first left open, and one for no line. *)
SomeReceipts == {<<>>, <<Entry(1, 1, 0)>>, <<Entry(1, 2, 0)>>, <<Entry(1, 0, 1)>>,
                 <<Entry(1, 1, 0), Entry(2, 1, 0)>>, <<Entry(1, 1, 0), Entry(1, 1, 1)>>,
                 <<Entry(2, 1, 1)>>}
NoReceipts == {<<>>}

OrderSymmetry == Permutations({o1, o2})
=============================================================================
