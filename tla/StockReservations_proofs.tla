------------------------ MODULE StockReservations_proofs ------------------------
(* Proofs about StockReservations, for every set of items, storerooms, units,
   quantities and reservations.

   The argument: TypeOK is inductive by itself.  BalanceConsistent, LedgerIsCurrent
   and ReservationAccounting are each inductive relative to it, so the conjunction
   IInv is the inductive invariant from which the first theorems follow.

   The second part is about quantities: StockReservations implements AbstractStock, and
   while no item's units of measure are changed, the reserved quantity of a balance is
   what its live reservations still hold, so that each of them can be released, and its
   on-hand quantity is what its ledger rows add up to.  Every posting writes the balance that PostedBalance computes from
   two deltas.  The lemma Rebalances says what that does to the free and held units of a
   position; each operation is then one case of it.                               *)
EXTENDS StockReservations, FiniteSums, TLAPS

-----------------------------------------------------------------------------
(* Units of measure *)

(* A conversion to the stock UOM of a well-formed item yields an integer. *)
LEMMA StockQuantityType ==
    ASSUME NEW config \in UomConfigs, NEW n \in Int, NEW u \in Uoms
    PROVE  StockQuantity(config, n, u) \in Int
<1>1. UomFactor(config, u) \in Int
  BY DEF UomFactor, UomConfigs
<1> QED BY <1>1 DEF StockQuantity

(* A UOM factor that passed its check is a positive integer. *)
LEMMA ConfiguredRatioType ==
    ASSUME NEW uom, NEW stock, NEW ratio \in Int \cup {None},
           ConfiguredRatioValid(uom, stock, ratio)
    PROVE  ConfiguredRatio(uom, stock, ratio) \in Nat \ {0}
BY DEF ConfiguredRatioValid, ConfiguredRatio

(* create_item builds a well-formed UOM configuration. *)
LEMMA CreatedUomsType ==
    ASSUME NEW request \in UomCreations,
           ConfiguredRatioValid(CreatedUoms(request).order_uom,
                                CreatedUoms(request).stock_uom, request.order_uom_ratio),
           ConfiguredRatioValid(CreatedUoms(request).issue_uom,
                                CreatedUoms(request).stock_uom, request.issue_uom_ratio)
    PROVE  CreatedUoms(request) \in UomConfigs
<1>1. request \in UomRequests /\ request.stock_uom # None
  BY UomInputsAssumption
<1>2. /\ request.stock_uom \in Uoms
      /\ request.order_uom \in Uoms \cup {None}
      /\ request.issue_uom \in Uoms \cup {None}
      /\ request.order_uom_ratio \in Int \cup {None}
      /\ request.issue_uom_ratio \in Int \cup {None}
  BY <1>1 DEF UomRequests
<1> DEFINE order == Given(request.order_uom, request.stock_uom)
           issue == Given(request.issue_uom, request.stock_uom)
<1>3. order \in Uoms /\ issue \in Uoms
  BY <1>2 DEF Given
<1>4. CreatedUoms(request) =
        [stock_uom |-> request.stock_uom, order_uom |-> order, issue_uom |-> issue,
         order_uom_ratio |-> ConfiguredRatio(order, request.stock_uom,
                                             request.order_uom_ratio),
         issue_uom_ratio |-> ConfiguredRatio(issue, request.stock_uom,
                                             request.issue_uom_ratio)]
  BY DEF CreatedUoms
<1> HIDE DEF order, issue
<1>5. /\ ConfiguredRatioValid(order, request.stock_uom, request.order_uom_ratio)
      /\ ConfiguredRatioValid(issue, request.stock_uom, request.issue_uom_ratio)
  BY <1>4
<1>6. /\ ConfiguredRatio(order, request.stock_uom, request.order_uom_ratio) \in Nat \ {0}
      /\ ConfiguredRatio(issue, request.stock_uom, request.issue_uom_ratio) \in Nat \ {0}
  BY <1>2, <1>5, ConfiguredRatioType
<1> QED BY <1>2, <1>3, <1>4, <1>6 DEF UomConfigs

(* update_item keeps the UOM configuration well formed. *)
LEMMA UpdatedUomsType ==
    ASSUME NEW old \in UomConfigs, NEW request \in UomUpdates,
           UomUpdateAllowed(old, request)
    PROVE  UpdatedUoms(old, request) \in UomConfigs
<1> DEFINE new == UpdatedUoms(old, request)
           orderRatio == Given(request.order_uom_ratio, old.order_uom_ratio)
           issueRatio == Given(request.issue_uom_ratio, old.issue_uom_ratio)
<1>1. request \in UomRequests
  BY UomInputsAssumption
<1>2. /\ request.stock_uom \in Uoms \cup {None}
      /\ request.order_uom \in Uoms \cup {None}
      /\ request.issue_uom \in Uoms \cup {None}
      /\ request.order_uom_ratio \in Int \cup {None}
      /\ request.issue_uom_ratio \in Int \cup {None}
  BY <1>1 DEF UomRequests
<1>3. /\ old.stock_uom \in Uoms /\ old.order_uom \in Uoms /\ old.issue_uom \in Uoms
      /\ old.order_uom_ratio \in Int /\ old.issue_uom_ratio \in Int
  BY DEF UomConfigs
<1>4. new.stock_uom \in Uoms /\ new.order_uom \in Uoms /\ new.issue_uom \in Uoms
  BY <1>2, <1>3 DEF UpdatedUoms, Given
<1>5. orderRatio \in Int \cup {None} /\ issueRatio \in Int \cup {None}
  BY <1>2, <1>3 DEF Given
<1>6. new = [stock_uom |-> new.stock_uom, order_uom |-> new.order_uom,
             issue_uom |-> new.issue_uom,
             order_uom_ratio |-> ConfiguredRatio(new.order_uom, new.stock_uom, orderRatio),
             issue_uom_ratio |-> ConfiguredRatio(new.issue_uom, new.stock_uom, issueRatio)]
  BY DEF UpdatedUoms
<1>7. /\ ConfiguredRatioValid(new.order_uom, new.stock_uom, orderRatio)
      /\ ConfiguredRatioValid(new.issue_uom, new.stock_uom, issueRatio)
  BY DEF UomUpdateAllowed
<1> HIDE DEF new, orderRatio, issueRatio
<1>8. /\ ConfiguredRatio(new.order_uom, new.stock_uom, orderRatio) \in Nat \ {0}
      /\ ConfiguredRatio(new.issue_uom, new.stock_uom, issueRatio) \in Nat \ {0}
  BY <1>5, <1>7, ConfiguredRatioType
<1>9. new \in UomConfigs
  BY <1>4, <1>6, <1>8 DEF UomConfigs
<1> QED BY <1>9 DEF new
-----------------------------------------------------------------------------
(* Balances and ledger rows *)

(* The row a posting starts from has the type of a balance. *)
LEMMA CurrentBalanceType ==
    ASSUME TypeOK, NEW p \in Positions, item[p[1]] # None
    PROVE  CurrentBalance(p) \in BalanceRows
<1>1. p[1] \in Items /\ item[p[1]] \in ItemRows
  BY DEF TypeOK, ItemTypeOK, Positions
<1>2. NewBalance(p[1]) \in BalanceRows
  BY <1>1 DEF NewBalance, BalanceRows, ItemRows, UomConfigs
<1>3. balance[p] \in BalanceRows \cup {None}
  BY DEF TypeOK, StockTypeOK
<1> QED BY <1>2, <1>3 DEF CurrentBalance, Given

(* A posting writes well-formed rows, whatever the deltas. *)
LEMMA PostedRowsType ==
    ASSUME TypeOK, NEW p \in Positions, item[p[1]] # None,
           NEW onHandDelta \in Int, NEW reservedDelta \in Int,
           NEW quantity \in Int, NEW uom \in Uoms
    PROVE  /\ PostedBalance(p, onHandDelta, reservedDelta) \in BalanceRows
           /\ PostedLedger(p, quantity, uom, PostedBalance(p, onHandDelta, reservedDelta))
                \in LedgerRows
<1> DEFINE posted == PostedBalance(p, onHandDelta, reservedDelta)
           old == Given(ledger[p], [net |-> [u \in Uoms |-> 0],
                                    resulting_on_hand_qty |-> 0,
                                    resulting_available_qty |-> 0])
<1>1. item[p[1]] \in ItemRows
  BY DEF TypeOK, ItemTypeOK, Positions
<1>2. CurrentBalance(p) \in BalanceRows
  BY CurrentBalanceType
<1>3. posted \in BalanceRows
  BY <1>1, <1>2 DEF PostedBalance, BalanceRows, ItemRows, UomConfigs
<1>4. old \in LedgerRows
  BY DEF TypeOK, StockTypeOK, Given, LedgerRows
<1>5. old.net \in [Uoms -> Int]
  BY <1>4 DEF LedgerRows
<1> HIDE DEF old, posted
<1>6. [old.net EXCEPT ![uom] = @ + quantity] \in [Uoms -> Int]
  BY <1>5
<1>7. PostedLedger(p, quantity, uom, posted) =
        [net |-> [old.net EXCEPT ![uom] = @ + quantity],
         resulting_on_hand_qty |-> posted.on_hand_qty,
         resulting_available_qty |-> posted.available_qty]
  BY DEF PostedLedger, old
<1>8. posted.on_hand_qty \in Int /\ posted.available_qty \in Int
  BY <1>3 DEF BalanceRows
<1>9. PostedLedger(p, quantity, uom, posted) \in LedgerRows
  BY <1>6, <1>7, <1>8 DEF LedgerRows
<1> QED BY <1>3, <1>9 DEF posted

(* The rows of _post_movement_transaction are well formed. *)
LEMMA MovementRowsType ==
    ASSUME TypeOK, NEW p \in Positions, item[p[1]] # None, NEW type,
           NEW quantity \in Int, NEW uom \in Uoms, NEW release \in Int
    PROVE  /\ MovementBalance(p, type, quantity, uom, release) \in BalanceRows
           /\ MovementLedger(p, type, quantity, uom, release) \in LedgerRows
<1> DEFINE config == item[p[1]].uoms
           onHandDelta == OnHandDelta(type, StockQuantity(config, quantity, uom))
           reservedDelta == -StockQuantity(config, release, uom)
           signed == OnHandDelta(type, quantity)
<1>1. config \in UomConfigs
  BY DEF TypeOK, ItemTypeOK, Positions, ItemRows
<1> HIDE DEF config
<1>2. StockQuantity(config, quantity, uom) \in Int /\ StockQuantity(config, release, uom) \in Int
  BY <1>1, StockQuantityType
<1>3. onHandDelta \in Int /\ reservedDelta \in Int /\ signed \in Int
  BY <1>2 DEF OnHandDelta
<1> HIDE DEF onHandDelta, reservedDelta, signed
<1>4. /\ PostedBalance(p, onHandDelta, reservedDelta) \in BalanceRows
      /\ PostedLedger(p, signed, uom, PostedBalance(p, onHandDelta, reservedDelta))
           \in LedgerRows
  BY <1>3, PostedRowsType
<1>5. MovementBalance(p, type, quantity, uom, release)
        = PostedBalance(p, onHandDelta, reservedDelta)
  BY DEF MovementBalance, onHandDelta, reservedDelta, config
<1>6. MovementLedger(p, type, quantity, uom, release)
        = PostedLedger(p, signed, uom, PostedBalance(p, onHandDelta, reservedDelta))
  BY <1>5 DEF MovementLedger, signed
<1> QED BY <1>4, <1>5, <1>6
-----------------------------------------------------------------------------
(* What the three posting methods and the transfer write.  A step of the stock
   service rewrites one position, or the two positions of a transfer, with rows of
   the right type. *)

PostsAt(p) ==
    /\ \E b \in BalanceRows : balance' = [balance EXCEPT ![p] = b]
    /\ \E row \in LedgerRows : ledger' = [ledger EXCEPT ![p] = row]

(* A usable position has an item row. *)
LEMMA UsableItem ==
    ASSUME NEW p, PositionUsable(p)
    PROVE  item[p[1]] # None
BY DEF PositionUsable

(* _post_transaction writes well-formed rows at its position. *)
LEMMA PostTransactionType ==
    ASSUME TypeOK, NEW p \in Positions, PositionUsable(p), NEW type,
           NEW quantity \in Quantities, NEW uom \in Uoms,
           PostTransaction(p, type, quantity, uom)
    PROVE  PostsAt(p)
<1> DEFINE config == item[p[1]].uoms
           delta == OnHandDelta(type, StockQuantity(config, quantity, uom))
           signed == OnHandDelta(type, quantity)
<1>1. config \in UomConfigs /\ quantity \in Int /\ item[p[1]] # None
  BY UsableItem, QuantitiesAssumption DEF TypeOK, ItemTypeOK, Positions, ItemRows
<1> HIDE DEF config
<1>2. delta \in Int /\ signed \in Int
  BY <1>1, StockQuantityType DEF OnHandDelta
<1> HIDE DEF delta, signed
<1>3. /\ PostedBalance(p, delta, 0) \in BalanceRows
      /\ PostedLedger(p, signed, uom, PostedBalance(p, delta, 0)) \in LedgerRows
  BY <1>1, <1>2, PostedRowsType
<1>4. /\ balance' = [balance EXCEPT ![p] = PostedBalance(p, delta, 0)]
      /\ ledger' = [ledger EXCEPT ![p] =
             PostedLedger(p, signed, uom, PostedBalance(p, delta, 0))]
  BY DEF PostTransaction, delta, signed, config
<1> QED BY <1>3, <1>4 DEF PostsAt

(* _post_reservation_transaction writes well-formed rows at its position. *)
LEMMA PostReservationType ==
    ASSUME TypeOK, NEW p \in Positions, PositionUsable(p), NEW type,
           NEW quantity \in Nat, NEW uom \in Uoms,
           PostReservationTransaction(p, type, quantity, uom)
    PROVE  PostsAt(p)
<1> DEFINE config == item[p[1]].uoms
           stock == StockQuantity(config, quantity, uom)
           delta == IF type = "RESERVATION_HOLD" THEN stock ELSE -stock
<1>1. config \in UomConfigs /\ item[p[1]] # None
  BY UsableItem DEF TypeOK, ItemTypeOK, Positions, ItemRows
<1> HIDE DEF config
<1>2. stock \in Int
  BY <1>1, StockQuantityType
<1> HIDE DEF stock
<1>3. delta \in Int
  BY <1>2
<1> HIDE DEF delta
<1>4. /\ PostedBalance(p, 0, delta) \in BalanceRows
      /\ PostedLedger(p, 0, uom, PostedBalance(p, 0, delta)) \in LedgerRows
  BY <1>1, <1>3, PostedRowsType
<1>5. /\ balance' = [balance EXCEPT ![p] = PostedBalance(p, 0, delta)]
      /\ ledger' = [ledger EXCEPT ![p] = PostedLedger(p, 0, uom, PostedBalance(p, 0, delta))]
  BY DEF PostReservationTransaction, ReservationAllowed, delta, stock, config
<1> QED BY <1>4, <1>5 DEF PostsAt

(* _post_movement_transaction writes well-formed rows at its position. *)
LEMMA PostMovementType ==
    ASSUME TypeOK, NEW p \in Positions, PositionUsable(p), NEW type,
           NEW quantity \in Int, NEW uom \in Uoms, NEW release \in Int,
           PostMovementTransaction(p, type, quantity, uom, release)
    PROVE  PostsAt(p)
<1>1. item[p[1]] # None
  BY UsableItem
<1>2. /\ MovementBalance(p, type, quantity, uom, release) \in BalanceRows
      /\ MovementLedger(p, type, quantity, uom, release) \in LedgerRows
  BY <1>1, MovementRowsType
<1> QED BY <1>2 DEF PostMovementTransaction, PostsAt

(* Rewriting one position with well-formed rows keeps the tables' type. *)
LEMMA PostsAtType ==
    ASSUME StockTypeOK, NEW p \in Positions, PostsAt(p)
    PROVE  StockTypeOK'
<1>1. PICK b \in BalanceRows : balance' = [balance EXCEPT ![p] = b]
  BY DEF PostsAt
<1>2. PICK row \in LedgerRows : ledger' = [ledger EXCEPT ![p] = row]
  BY DEF PostsAt
<1> QED BY <1>1, <1>2 DEF StockTypeOK

(* transfer_stock keeps the tables' type. *)
LEMMA TransferType ==
    ASSUME TypeOK, NEW i \in Items, NEW s \in StoreroomIds, NEW t \in StoreroomIds,
           NEW quantity \in Quantities, NEW uom \in Uoms,
           TransferStock(i, s, t, quantity, uom)
    PROVE  StockTypeOK'
<1>1. /\ <<i, s>> \in Positions /\ <<i, t>> \in Positions
      /\ item[i] # None
      /\ quantity \in Int
  BY QuantitiesAssumption DEF Positions, TransferStock, PositionUsable
<1>2. /\ MovementBalance(<<i, s>>, "TRANSFER_OUT", quantity, uom, 0) \in BalanceRows
      /\ MovementLedger(<<i, s>>, "TRANSFER_OUT", quantity, uom, 0) \in LedgerRows
  BY <1>1, MovementRowsType
<1>3. /\ MovementBalance(<<i, t>>, "TRANSFER_IN", quantity, uom, 0) \in BalanceRows
      /\ MovementLedger(<<i, t>>, "TRANSFER_IN", quantity, uom, 0) \in LedgerRows
  BY <1>1, MovementRowsType
<1> QED BY <1>1, <1>2, <1>3 DEF TransferStock, TypeOK, StockTypeOK
-----------------------------------------------------------------------------
(* Type correctness *)

(* The status an update asks for is a status. *)
LEMMA RequestedStatusType ==
    ASSUME NEW statuses, NEW current \in statuses, "ACTIVE" \in statuses,
           "INACTIVE" \in statuses, NEW request \in StatusRequests(statuses)
    PROVE  RequestedStatus(current, request[1], request[2]) \in statuses
BY DEF StatusRequests, RequestedStatus, ResolveStatusFromActive

(* create_item and update_item keep the item table's type. *)
LEMMA ItemNextType ==
    ASSUME ItemTypeOK, ItemNext
    PROVE  ItemTypeOK'
<1>1. ASSUME NEW i \in Items, NEW status \in ItemStatuses, NEW stocked \in BOOLEAN,
             NEW u \in UomCreations, CreateItem(i, status, stocked, u)
      PROVE  ItemTypeOK'
  <2>1. CreatedUoms(u) \in UomConfigs
    BY <1>1, CreatedUomsType DEF CreateItem
  <2>2. [status |-> status, is_stocked |-> stocked, uoms |-> CreatedUoms(u)] \in ItemRows
    BY <2>1 DEF ItemRows
  <2> QED BY <1>1, <2>2 DEF CreateItem, ItemTypeOK
<1>2. ASSUME NEW i \in Items, NEW request \in StatusRequests(ItemStatuses),
             NEW stocked \in BOOLEAN \cup {None}, NEW u \in UomUpdates,
             UpdateItem(i, request[1], request[2], stocked, u)
      PROVE  ItemTypeOK'
  <2> DEFINE next == RequestedStatus(item[i].status, request[1], request[2])
  <2>1. item[i] \in ItemRows
    BY <1>2 DEF UpdateItem, ItemTypeOK
  <2>2. item[i].status \in ItemStatuses /\ item[i].is_stocked \in BOOLEAN
        /\ item[i].uoms \in UomConfigs
    BY <2>1 DEF ItemRows
  <2>3. UpdatedUoms(item[i].uoms, u) \in UomConfigs
    BY <1>2, <2>2, UpdatedUomsType DEF UpdateItem
  <2>4. next \in ItemStatuses
    BY <2>2, RequestedStatusType DEF ItemStatuses
  <2>5. Given(stocked, item[i].is_stocked) \in BOOLEAN
    BY <2>2 DEF Given
  <2>6. item' = [item EXCEPT ![i] = [status |-> next,
                                     is_stocked |-> Given(stocked, item[i].is_stocked),
                                     uoms |-> UpdatedUoms(item[i].uoms, u)]]
    BY <1>2 DEF UpdateItem
  <2> HIDE DEF next
  <2> QED BY <2>3, <2>4, <2>5, <2>6 DEF ItemTypeOK, ItemRows
<1> QED BY <1>1, <1>2 DEF ItemNext

(* create_storeroom and update_storeroom keep the storeroom table's type. *)
LEMMA StoreroomNextType ==
    ASSUME StoreroomTypeOK, StoreroomNext
    PROVE  StoreroomTypeOK'
<1>1. ASSUME NEW s \in StoreroomIds, NEW flags \in StoreroomFlags,
             NEW status \in StoreroomStatuses, CreateStoreroom(s, status, flags)
      PROVE  StoreroomTypeOK'
  BY <1>1 DEF CreateStoreroom, StoreroomTypeOK, StoreroomRows
<1>2. ASSUME NEW s \in StoreroomIds, NEW flags \in StoreroomFlags,
             NEW request \in StatusRequests(StoreroomStatuses),
             UpdateStoreroom(s, request[1], request[2], flags)
      PROVE  StoreroomTypeOK'
  <2> DEFINE next == RequestedStatus(storeroom[s].status, request[1], request[2])
  <2>1. storeroom[s].status \in StoreroomStatuses
    BY <1>2 DEF UpdateStoreroom, StoreroomTypeOK, StoreroomRows
  <2>2. next \in StoreroomStatuses
    BY <2>1, RequestedStatusType DEF StoreroomStatuses
  <2>3. storeroom' = [storeroom EXCEPT ![s] = [status |-> next, flags |-> flags]]
    BY <1>2 DEF UpdateStoreroom
  <2> HIDE DEF next
  <2> QED BY <2>2, <2>3 DEF StoreroomTypeOK, StoreroomRows
<1> QED BY <1>1, <1>2 DEF StoreroomNext

(* Every operation of the stock service keeps the type of balances and ledger. *)
LEMMA StockNextType ==
    ASSUME TypeOK, StockNext
    PROVE  StockTypeOK'
<1> USE QuantitiesAssumption
<1>1. ASSUME NEW p \in Positions, NEW q \in Quantities, NEW u \in Uoms,
             PostOpeningBalance(p, q, u)
      PROVE  StockTypeOK'
  <2>1. PostsAt(p)
    BY <1>1, PostTransactionType DEF PostOpeningBalance
  <2> QED BY <2>1, PostsAtType DEF TypeOK
<1>2. ASSUME NEW p \in Positions, NEW q \in Quantities, NEW u \in Uoms, NEW type,
             PostAdjustment(p, type, q, u)
      PROVE  StockTypeOK'
  <2>1. PostsAt(p)
    BY <1>2, PostTransactionType DEF PostAdjustment
  <2> QED BY <2>1, PostsAtType DEF TypeOK
<1>3. ASSUME NEW p \in Positions, NEW q \in Quantities, NEW u \in Uoms,
             IssueStock(p, q, u, 0)
      PROVE  StockTypeOK'
  <2>1. PostsAt(p)
    BY <1>3, PostMovementType DEF IssueStock
  <2> QED BY <2>1, PostsAtType DEF TypeOK
<1>4. ASSUME NEW p \in Positions, NEW q \in Quantities, NEW u \in Uoms,
             ReturnStock(p, q, u)
      PROVE  StockTypeOK'
  <2>1. PostsAt(p)
    BY <1>4, PostMovementType DEF ReturnStock
  <2> QED BY <2>1, PostsAtType DEF TypeOK
<1> QED BY <1>1, <1>2, <1>3, <1>4, TransferType DEF StockNext

(* Every operation of the reservation service keeps the type of reservations, balances
   and ledger. *)
LEMMA ReservationNextType ==
    ASSUME TypeOK, ReservationNext
    PROVE  StockTypeOK' /\ (reservation \in [ReservationIds -> ReservationRows \cup {None}])'
<1> USE QuantitiesAssumption
<1>1. ASSUME NEW r \in ReservationIds, NEW p \in Positions, NEW q \in Quantities,
             NEW u \in Uoms, CreateReservation(r, p, q, u)
      PROVE  StockTypeOK' /\ (reservation \in [ReservationIds -> ReservationRows \cup {None}])'
  <2>1. PostsAt(p)
    BY <1>1, PostReservationType DEF CreateReservation, HoldReservation
  <2>2. StockTypeOK'
    BY <2>1, PostsAtType DEF TypeOK
  <2>3. [status |-> "ACTIVE", position |-> p, uom |-> u, reserved_qty |-> q,
         issued_qty |-> 0, remaining_qty |-> q] \in ReservationRows
    BY DEF ReservationRows, ReservationStatuses
  <2> QED BY <1>1, <2>2, <2>3 DEF CreateReservation, TypeOK
<1>2. ASSUME NEW r \in ReservationIds, NEW q \in Quantities, IssueReservedStock(r, q)
      PROVE  StockTypeOK' /\ (reservation \in [ReservationIds -> ReservationRows \cup {None}])'
  <2>1. reservation[r] \in ReservationRows
    BY <1>2 DEF IssueReservedStock, Live, TypeOK
  <2>2. /\ reservation[r].position \in Positions
        /\ reservation[r].uom \in Uoms
        /\ reservation[r].remaining_qty \in Nat
        /\ reservation[r].issued_qty \in Nat
    BY <2>1 DEF ReservationRows
  <2>3. PostsAt(reservation[r].position)
    BY <1>2, <2>2, PostMovementType DEF IssueReservedStock, IssueStock
  <2>4. StockTypeOK'
    BY <2>2, <2>3, PostsAtType DEF TypeOK
  <2>5. reservation[r].remaining_qty - q \in Nat /\ reservation[r].issued_qty + q \in Nat
    BY <1>2, <2>2 DEF IssueReservedStock
  <2>6. PICK next \in ReservationStatuses :
          reservation' = [reservation EXCEPT
              ![r].issued_qty = @ + q,
              ![r].remaining_qty = reservation[r].remaining_qty - q,
              ![r].status = next]
    BY <1>2 DEF IssueReservedStock, ReservationStatuses
  <2> QED BY <2>1, <2>4, <2>5, <2>6 DEF TypeOK, ReservationRows
<1>3. ASSUME NEW r \in ReservationIds, NEW status \in {"RELEASED", "CANCELLED"},
             CloseReservation(r, status)
      PROVE  StockTypeOK' /\ (reservation \in [ReservationIds -> ReservationRows \cup {None}])'
  <2>1. reservation[r] \in ReservationRows
    BY <1>3 DEF CloseReservation, Closable, Live, TypeOK
  <2>2. /\ reservation[r].position \in Positions
        /\ reservation[r].uom \in Uoms
        /\ reservation[r].remaining_qty \in Nat
    BY <2>1 DEF ReservationRows
  <2>3. PostsAt(reservation[r].position)
    BY <1>3, <2>2, PostReservationType DEF CloseReservation, Closable, ReleaseHold
  <2>4. StockTypeOK'
    BY <2>2, <2>3, PostsAtType DEF TypeOK
  <2> QED BY <1>3, <2>1, <2>4 DEF CloseReservation, TypeOK, ReservationRows,
                                 ReservationStatuses
<1> QED BY <1>1, <1>2, <1>3 DEF ReservationNext, ReleaseReservation, CancelReservation

(* TypeOK is inductive: every row every service writes has the shape its table
   declares, and no issue takes a reservation below zero. *)
LEMMA TypeStep == TypeOK /\ [Next]_vars => TypeOK'
<1> SUFFICES ASSUME TypeOK, [Next]_vars PROVE TypeOK'
  OBVIOUS
<1>1. CASE ItemNext /\ UNCHANGED <<storeroom, balance, ledger, reservation>>
  BY <1>1, ItemNextType DEF TypeOK, StoreroomTypeOK, StockTypeOK
<1>2. CASE StoreroomNext /\ UNCHANGED <<item, balance, ledger, reservation>>
  BY <1>2, StoreroomNextType DEF TypeOK, ItemTypeOK, StockTypeOK
<1>3. CASE StockNext /\ UNCHANGED <<item, storeroom, reservation>>
  BY <1>3, StockNextType DEF TypeOK, ItemTypeOK, StoreroomTypeOK
<1>4. CASE ReservationNext /\ UNCHANGED <<item, storeroom>>
  BY <1>4, ReservationNextType DEF TypeOK, ItemTypeOK, StoreroomTypeOK
<1>5. CASE UNCHANGED vars
  BY <1>5 DEF vars, TypeOK, ItemTypeOK, StoreroomTypeOK, StockTypeOK
<1> QED BY <1>1, <1>2, <1>3, <1>4, <1>5 DEF Next

(* Type correctness of the composed stock and reservation services: the quantities
   of a reservation never become negative and every stored status is a status. *)
THEOREM TypeCorrect == Spec => []TypeOK
<1>1. Init => TypeOK
  BY DEF Init, ItemInit, StoreroomInit, StockInit, TypeOK, ItemTypeOK, StoreroomTypeOK,
         StockTypeOK
<1> QED BY <1>1, TypeStep, PTL DEF Spec
-----------------------------------------------------------------------------
(* Consistent balances and a current ledger *)

Consistent(b) == /\ b.available_qty = b.on_hand_qty - b.reserved_qty
                 /\ b.available_qty >= 0
                 /\ b.reserved_qty >= 0

Records(row, b) == /\ row.resulting_on_hand_qty = b.on_hand_qty
                   /\ row.resulting_available_qty = b.available_qty

(* What a posting writes at p: a consistent balance, and a ledger row recording it. *)
PostsConsistently(p) ==
    \E b \in BalanceRows, row \in LedgerRows :
        /\ Consistent(b)
        /\ Records(row, b)
        /\ balance' = [balance EXCEPT ![p] = b]
        /\ ledger' = [ledger EXCEPT ![p] = row]

(* Every ledger row records the balance it is posted with. *)
LEMMA PostedLedgerRecords ==
    ASSUME NEW p, NEW quantity, NEW uom, NEW b
    PROVE  Records(PostedLedger(p, quantity, uom, b), b)
BY DEF Records, PostedLedger

(* The balance a posting computes is consistent when the code's checks on reserved
   and available quantity hold of it. *)
LEMMA PostedBalanceConsistent ==
    ASSUME TypeOK, NEW p \in Positions, item[p[1]] # None,
           NEW onHandDelta \in Int, NEW reservedDelta \in Int,
           PostedBalance(p, onHandDelta, reservedDelta).available_qty >= 0,
           PostedBalance(p, onHandDelta, reservedDelta).reserved_qty >= 0
    PROVE  Consistent(PostedBalance(p, onHandDelta, reservedDelta))
BY DEF Consistent, PostedBalance

(* The reserved quantity a posting starts from is not negative. *)
LEMMA CurrentReserved ==
    ASSUME TypeOK, BalanceConsistent, NEW p \in Positions, item[p[1]] # None
    PROVE  CurrentBalance(p).reserved_qty >= 0
BY DEF BalanceConsistent, CurrentBalance, Given, NewBalance

(* _post_transaction checks the new on-hand quantity against what is reserved. *)
LEMMA PostTransactionConsistent ==
    ASSUME TypeOK, BalanceConsistent, NEW p \in Positions, PositionUsable(p), NEW type,
           NEW quantity \in Quantities, NEW uom \in Uoms,
           PostTransaction(p, type, quantity, uom)
    PROVE  PostsConsistently(p)
<1> DEFINE config == item[p[1]].uoms
           delta == OnHandDelta(type, StockQuantity(config, quantity, uom))
           signed == OnHandDelta(type, quantity)
           posted == PostedBalance(p, delta, 0)
           row == PostedLedger(p, signed, uom, posted)
<1>1. config \in UomConfigs /\ quantity \in Int /\ item[p[1]] # None
  BY UsableItem, QuantitiesAssumption DEF TypeOK, ItemTypeOK, Positions, ItemRows
<1>2. /\ posted.on_hand_qty >= CurrentBalance(p).reserved_qty
      /\ balance' = [balance EXCEPT ![p] = posted]
      /\ ledger' = [ledger EXCEPT ![p] = row]
  BY DEF PostTransaction
<1> HIDE DEF config
<1>3. delta \in Int /\ signed \in Int
  BY <1>1, StockQuantityType DEF OnHandDelta
<1> HIDE DEF delta, signed
<1>4. posted \in BalanceRows /\ row \in LedgerRows
  BY <1>1, <1>3, PostedRowsType
<1>5. CurrentBalance(p) \in BalanceRows /\ CurrentBalance(p).reserved_qty >= 0
  BY <1>1, CurrentBalanceType, CurrentReserved
<1>6. posted.reserved_qty >= 0 /\ posted.available_qty >= 0
  BY <1>2, <1>3, <1>5 DEF PostedBalance, BalanceRows
<1>7. Consistent(posted)
  BY <1>1, <1>3, <1>6, PostedBalanceConsistent
<1>8. Records(row, posted)
  BY PostedLedgerRecords
<1> HIDE DEF posted, row
<1> QED BY <1>2, <1>4, <1>7, <1>8 DEF PostsConsistently

(* _post_reservation_transaction checks the new reserved and available quantities. *)
LEMMA PostReservationConsistent ==
    ASSUME TypeOK, NEW p \in Positions, PositionUsable(p), NEW type,
           NEW quantity \in Nat, NEW uom \in Uoms,
           PostReservationTransaction(p, type, quantity, uom)
    PROVE  PostsConsistently(p)
<1> DEFINE config == item[p[1]].uoms
           stock == StockQuantity(config, quantity, uom)
           delta == IF type = "RESERVATION_HOLD" THEN stock ELSE -stock
           posted == PostedBalance(p, 0, delta)
           row == PostedLedger(p, 0, uom, posted)
<1>1. config \in UomConfigs /\ item[p[1]] # None
  BY UsableItem DEF TypeOK, ItemTypeOK, Positions, ItemRows
<1>2. /\ posted.reserved_qty >= 0
      /\ posted.available_qty >= 0
      /\ balance' = [balance EXCEPT ![p] = posted]
      /\ ledger' = [ledger EXCEPT ![p] = row]
  BY DEF PostReservationTransaction, ReservationAllowed
<1> HIDE DEF config
<1>3. stock \in Int
  BY <1>1, StockQuantityType
<1> HIDE DEF stock
<1>4. delta \in Int
  BY <1>3
<1> HIDE DEF delta
<1>5. posted \in BalanceRows /\ row \in LedgerRows
  BY <1>1, <1>4, PostedRowsType
<1>6. Consistent(posted)
  BY <1>1, <1>2, <1>4, PostedBalanceConsistent
<1>7. Records(row, posted)
  BY PostedLedgerRecords
<1> HIDE DEF posted, row
<1> QED BY <1>2, <1>5, <1>6, <1>7 DEF PostsConsistently

(* The rows a permitted movement computes are consistent. *)
LEMMA MovementConsistent ==
    ASSUME TypeOK, NEW p \in Positions, item[p[1]] # None, NEW type,
           NEW quantity \in Int, NEW uom \in Uoms, NEW release \in Int,
           MovementAllowed(p, type, quantity, uom, release)
    PROVE  /\ Consistent(MovementBalance(p, type, quantity, uom, release))
           /\ Records(MovementLedger(p, type, quantity, uom, release),
                      MovementBalance(p, type, quantity, uom, release))
<1> DEFINE config == item[p[1]].uoms
           delta == OnHandDelta(type, StockQuantity(config, quantity, uom))
           released == -StockQuantity(config, release, uom)
<1>1. config \in UomConfigs
  BY DEF TypeOK, ItemTypeOK, Positions, ItemRows
<1>2. MovementBalance(p, type, quantity, uom, release) = PostedBalance(p, delta, released)
  BY DEF MovementBalance
<1> HIDE DEF config
<1>3. delta \in Int /\ released \in Int
  BY <1>1, StockQuantityType DEF OnHandDelta
<1> HIDE DEF delta, released
<1>4. /\ PostedBalance(p, delta, released).reserved_qty >= 0
      /\ PostedBalance(p, delta, released).available_qty >= 0
  BY <1>2 DEF MovementAllowed
<1>5. Consistent(PostedBalance(p, delta, released))
  BY <1>3, <1>4, PostedBalanceConsistent
<1>6. Records(MovementLedger(p, type, quantity, uom, release),
              MovementBalance(p, type, quantity, uom, release))
  BY PostedLedgerRecords DEF MovementLedger
<1> QED BY <1>2, <1>5, <1>6

(* _post_movement_transaction for one position. *)
LEMMA PostMovementConsistent ==
    ASSUME TypeOK, NEW p \in Positions, PositionUsable(p), NEW type,
           NEW quantity \in Int, NEW uom \in Uoms, NEW release \in Int,
           PostMovementTransaction(p, type, quantity, uom, release)
    PROVE  PostsConsistently(p)
<1>1. item[p[1]] # None /\ MovementAllowed(p, type, quantity, uom, release)
  BY UsableItem DEF PostMovementTransaction
<1>2. /\ MovementBalance(p, type, quantity, uom, release) \in BalanceRows
      /\ MovementLedger(p, type, quantity, uom, release) \in LedgerRows
  BY <1>1, MovementRowsType
<1>3. /\ Consistent(MovementBalance(p, type, quantity, uom, release))
      /\ Records(MovementLedger(p, type, quantity, uom, release),
                 MovementBalance(p, type, quantity, uom, release))
  BY <1>1, MovementConsistent
<1> QED BY <1>2, <1>3 DEF PostMovementTransaction, PostsConsistently

(* A consistent posting at one position preserves StockInv. *)
LEMMA PostKeepsStockInv ==
    ASSUME TypeOK, StockInv, NEW p \in Positions, PostsConsistently(p)
    PROVE  StockInv'
<1>1. PICK b \in BalanceRows, row \in LedgerRows :
        /\ Consistent(b)
        /\ Records(row, b)
        /\ balance' = [balance EXCEPT ![p] = b]
        /\ ledger' = [ledger EXCEPT ![p] = row]
  BY DEF PostsConsistently
<1>2. b # None /\ row # None
  BY RowsAssumption
<1>3. ASSUME NEW x \in Positions
      PROVE  /\ balance'[x] = IF x = p THEN b ELSE balance[x]
             /\ ledger'[x] = IF x = p THEN row ELSE ledger[x]
  BY <1>1 DEF TypeOK, StockTypeOK
<1>4. BalanceConsistent'
  BY <1>1, <1>2, <1>3 DEF StockInv, BalanceConsistent, Consistent
<1>5. LedgerIsCurrent'
  BY <1>1, <1>2, <1>3 DEF StockInv, LedgerIsCurrent, Records
<1> QED BY <1>4, <1>5 DEF StockInv

(* Both halves of a transfer are consistent postings. *)
LEMMA TransferKeepsStockInv ==
    ASSUME TypeOK, StockInv, NEW i \in Items, NEW s \in StoreroomIds,
           NEW t \in StoreroomIds, NEW quantity \in Quantities, NEW uom \in Uoms,
           TransferStock(i, s, t, quantity, uom)
    PROVE  StockInv'
<1> DEFINE from == <<i, s>>
           to == <<i, t>>
           b1 == MovementBalance(from, "TRANSFER_OUT", quantity, uom, 0)
           b2 == MovementBalance(to, "TRANSFER_IN", quantity, uom, 0)
           row1 == MovementLedger(from, "TRANSFER_OUT", quantity, uom, 0)
           row2 == MovementLedger(to, "TRANSFER_IN", quantity, uom, 0)
<1>1. /\ from \in Positions /\ to \in Positions /\ from # to
      /\ item[from[1]] # None /\ item[to[1]] # None
      /\ quantity \in Int
      /\ MovementAllowed(from, "TRANSFER_OUT", quantity, uom, 0)
      /\ MovementAllowed(to, "TRANSFER_IN", quantity, uom, 0)
  BY QuantitiesAssumption DEF Positions, TransferStock, PositionUsable
<1>2. /\ balance' = [balance EXCEPT ![from] = b1, ![to] = b2]
      /\ ledger' = [ledger EXCEPT ![from] = row1, ![to] = row2]
  BY DEF TransferStock
<1> HIDE DEF from, to
<1>3. b1 \in BalanceRows /\ row1 \in LedgerRows /\ Consistent(b1) /\ Records(row1, b1)
  BY <1>1, MovementRowsType, MovementConsistent
<1>4. b2 \in BalanceRows /\ row2 \in LedgerRows /\ Consistent(b2) /\ Records(row2, b2)
  BY <1>1, MovementRowsType, MovementConsistent
<1> HIDE DEF b1, b2, row1, row2
<1>5. b1 # None /\ b2 # None /\ row1 # None /\ row2 # None
  BY <1>3, <1>4, RowsAssumption
<1>6. ASSUME NEW x \in Positions
      PROVE  /\ balance'[x] = IF x = to THEN b2 ELSE IF x = from THEN b1 ELSE balance[x]
             /\ ledger'[x] = IF x = to THEN row2 ELSE IF x = from THEN row1 ELSE ledger[x]
  BY <1>1, <1>2 DEF TypeOK, StockTypeOK
<1>7. BalanceConsistent'
  BY <1>3, <1>4, <1>5, <1>6 DEF StockInv, BalanceConsistent, Consistent
<1>8. LedgerIsCurrent'
  BY <1>3, <1>4, <1>5, <1>6 DEF StockInv, LedgerIsCurrent, Records
<1> QED BY <1>7, <1>8 DEF StockInv

(* Every step of every service preserves StockInv. *)
LEMMA StockStep == TypeOK /\ StockInv /\ [Next]_vars => StockInv'
<1> SUFFICES ASSUME TypeOK, StockInv, [Next]_vars PROVE StockInv'
  OBVIOUS
<1> USE QuantitiesAssumption
<1>1. CASE UNCHANGED <<balance, ledger>>
  BY <1>1 DEF StockInv, BalanceConsistent, LedgerIsCurrent
<1>2. ASSUME NEW p \in Positions, NEW q \in Quantities, NEW u \in Uoms,
             PostOpeningBalance(p, q, u)
      PROVE  StockInv'
  BY <1>2, PostTransactionConsistent, PostKeepsStockInv DEF PostOpeningBalance, StockInv
<1>3. ASSUME NEW p \in Positions, NEW q \in Quantities, NEW u \in Uoms, NEW type,
             PostAdjustment(p, type, q, u)
      PROVE  StockInv'
  BY <1>3, PostTransactionConsistent, PostKeepsStockInv DEF PostAdjustment, StockInv
<1>4. ASSUME NEW p \in Positions, NEW q \in Quantities, NEW u \in Uoms,
             IssueStock(p, q, u, 0)
      PROVE  StockInv'
  <2>1. PostsConsistently(p)
    BY <1>4, PostMovementConsistent DEF IssueStock
  <2> QED BY <2>1, PostKeepsStockInv
<1>5. ASSUME NEW p \in Positions, NEW q \in Quantities, NEW u \in Uoms,
             ReturnStock(p, q, u)
      PROVE  StockInv'
  <2>1. PostsConsistently(p)
    BY <1>5, PostMovementConsistent DEF ReturnStock
  <2> QED BY <2>1, PostKeepsStockInv
<1>6. StockNext => StockInv'
  BY <1>2, <1>3, <1>4, <1>5, TransferKeepsStockInv DEF StockNext
<1>7. ASSUME NEW r \in ReservationIds, NEW p \in Positions, NEW q \in Quantities,
             NEW u \in Uoms, CreateReservation(r, p, q, u)
      PROVE  StockInv'
  BY <1>7, PostReservationConsistent, PostKeepsStockInv DEF CreateReservation, HoldReservation
<1>8. ASSUME NEW r \in ReservationIds, NEW q \in Quantities, IssueReservedStock(r, q)
      PROVE  StockInv'
  <2>1. reservation[r].position \in Positions /\ reservation[r].uom \in Uoms
    BY <1>8 DEF IssueReservedStock, Live, TypeOK, ReservationRows
  <2> QED BY <1>8, <2>1, PostMovementConsistent, PostKeepsStockInv
          DEF IssueReservedStock, IssueStock
<1>9. ASSUME NEW r \in ReservationIds, NEW status, CloseReservation(r, status)
      PROVE  StockInv'
  <2>1. /\ reservation[r].position \in Positions
        /\ reservation[r].uom \in Uoms
        /\ reservation[r].remaining_qty \in Nat
    BY <1>9 DEF CloseReservation, Closable, Live, TypeOK, ReservationRows
  <2> QED BY <1>9, <2>1, PostReservationConsistent, PostKeepsStockInv
          DEF CloseReservation, Closable, ReleaseHold
<1>10. ReservationNext => StockInv'
  BY <1>7, <1>8, <1>9 DEF ReservationNext, ReleaseReservation, CancelReservation
<1> QED BY <1>1, <1>6, <1>10 DEF Next, vars

(* Balances and ledger agree after any sequence of operations of the services. *)
THEOREM StockConsistent == Spec => []StockInv
<1>1. Init => StockInv
  BY DEF Init, StockInit, StockInv, BalanceConsistent, LedgerIsCurrent
<1> QED BY <1>1, StockStep, TypeCorrect, PTL DEF Spec

(* Whatever operations run in whatever order, a balance's available quantity is its
   on-hand minus its reserved quantity, and none of them is negative. *)
THEOREM BalancesConsistent == Spec => []BalanceConsistent
<1> QED BY StockConsistent, PTL DEF StockInv

(* The newest ledger row of a position always records the position's balance. *)
THEOREM LedgerCurrent == Spec => []LedgerIsCurrent
<1> QED BY StockConsistent, PTL DEF StockInv

-----------------------------------------------------------------------------
(* Reservations *)

(* Issuing and closing keep a reservation's quantities accounted for; no other step
   writes a reservation that exists. *)
LEMMA AccountingStep ==
    TypeOK /\ ReservationAccounting /\ [Next]_vars => ReservationAccounting'
<1> SUFFICES ASSUME TypeOK, ReservationAccounting, [Next]_vars PROVE ReservationAccounting'
  OBVIOUS
<1> USE QuantitiesAssumption
<1>1. CASE UNCHANGED reservation
  BY <1>1 DEF ReservationAccounting
<1>2. ASSUME NEW r \in ReservationIds, NEW p \in Positions, NEW q \in Quantities,
             NEW u \in Uoms, CreateReservation(r, p, q, u)
      PROVE  ReservationAccounting'
  BY <1>2 DEF CreateReservation, ReservationAccounting, TypeOK
<1>3. ASSUME NEW r \in ReservationIds, NEW q \in Quantities, IssueReservedStock(r, q)
      PROVE  ReservationAccounting'
  BY <1>3 DEF IssueReservedStock, Live, LiveStatuses, ReservationAccounting, TypeOK,
              ReservationRows
<1>4. ASSUME NEW r \in ReservationIds, NEW status \in {"RELEASED", "CANCELLED"},
             CloseReservation(r, status)
      PROVE  ReservationAccounting'
  BY <1>4 DEF CloseReservation, Closable, Live, LiveStatuses, ReservationAccounting, TypeOK,
              ReservationRows, ValidTransition, RESERVATION_STATUS_TRANSITIONS
<1>5. ReservationNext => ReservationAccounting'
  BY <1>2, <1>3, <1>4 DEF ReservationNext, ReleaseReservation, CancelReservation
<1> QED BY <1>1, <1>5 DEF Next, vars

(* What a reservation reserved is always issued, remaining or handed back, as its
   status says, for any number of partial issues. *)
THEOREM ReservationsAccounted == Spec => []ReservationAccounting
<1>1. Init => ReservationAccounting
  BY DEF Init, ReservationAccounting
<1> QED BY <1>1, AccountingStep, TypeCorrect, PTL DEF Spec
-----------------------------------------------------------------------------
(* Transfers *)

(* A posting changes the on-hand quantity of one position only. *)
LEMMA OnePositionConserves ==
    ASSUME TypeOK, NEW p \in Positions, PostsAt(p)
    PROVE  ConservesTotal
<1>1. PICK b \in BalanceRows : balance' = [balance EXCEPT ![p] = b]
  BY DEF PostsAt
<1>2. ASSUME NEW x \in Positions, x # p PROVE balance'[x] = balance[x]
  BY <1>1, <1>2 DEF TypeOK, StockTypeOK
<1>3. ASSUME NEW i \in Items, NEW s \in StoreroomIds, NEW t \in StoreroomIds, s # t
      PROVE  \/ balance'[<<i, s>>] = balance[<<i, s>>]
             \/ balance'[<<i, t>>] = balance[<<i, t>>]
  <2>1. <<i, s>> \in Positions /\ <<i, t>> \in Positions /\ <<i, s>> # <<i, t>>
    BY <1>3 DEF Positions
  <2> QED BY <1>2, <2>1
<1> QED BY <1>3 DEF ConservesTotal

(* The on-hand quantity a movement leaves. *)
LEMMA MovementOnHand ==
    ASSUME TypeOK, NEW p \in Positions, item[p[1]] # None, NEW type,
           NEW quantity \in Int, NEW uom \in Uoms
    PROVE  /\ OnHand(balance[p]) \in Int
           /\ OnHand(MovementBalance(p, type, quantity, uom, 0))
                = OnHand(balance[p])
                    + OnHandDelta(type, StockQuantity(item[p[1]].uoms, quantity, uom))
<1> DEFINE delta == OnHandDelta(type, StockQuantity(item[p[1]].uoms, quantity, uom))
           released == -StockQuantity(item[p[1]].uoms, 0, uom)
<1>1. MovementBalance(p, type, quantity, uom, 0) \in BalanceRows
  BY MovementRowsType
<1>2. MovementBalance(p, type, quantity, uom, 0).on_hand_qty
        = CurrentBalance(p).on_hand_qty + delta
  BY DEF MovementBalance, PostedBalance
<1>3. balance[p] \in BalanceRows \cup {None}
  BY DEF TypeOK, StockTypeOK
<1>4. OnHand(balance[p]) = CurrentBalance(p).on_hand_qty /\ OnHand(balance[p]) \in Int
  BY <1>3 DEF OnHand, CurrentBalance, Given, NewBalance, BalanceRows
<1>5. MovementBalance(p, type, quantity, uom, 0) # None
  BY <1>1, RowsAssumption
<1> QED BY <1>2, <1>4, <1>5 DEF OnHand

(* The two halves of a transfer cancel out. *)
LEMMA TransferKeepsTotal ==
    ASSUME TypeOK, NEW i \in Items, NEW source \in StoreroomIds,
           NEW destination \in StoreroomIds, NEW quantity \in Quantities, NEW uom \in Uoms,
           TransferStock(i, source, destination, quantity, uom)
    PROVE  ConservesTotal
<1> DEFINE from == <<i, source>>
           to == <<i, destination>>
           b1 == MovementBalance(from, "TRANSFER_OUT", quantity, uom, 0)
           b2 == MovementBalance(to, "TRANSFER_IN", quantity, uom, 0)
           stock == StockQuantity(item[i].uoms, quantity, uom)
<1>1. /\ from \in Positions /\ to \in Positions /\ from # to
      /\ item[i] # None
      /\ quantity \in Int
  BY QuantitiesAssumption DEF Positions, TransferStock, PositionUsable
<1>2. stock \in Int
  <2>1. item[i].uoms \in UomConfigs
    BY <1>1 DEF TypeOK, ItemTypeOK, ItemRows
  <2> QED BY <1>1, <2>1, StockQuantityType
<1>3. OnHand(balance[from]) \in Int /\ OnHand(b1) = OnHand(balance[from]) - stock
  <2>1. OnHandDelta("TRANSFER_OUT", stock) = -stock
    BY DEF OnHandDelta, Inbound
  <2>2. /\ OnHand(balance[from]) \in Int
        /\ OnHand(b1) = OnHand(balance[from]) + OnHandDelta("TRANSFER_OUT", stock)
    BY <1>1, MovementOnHand
  <2> HIDE DEF stock
  <2> QED BY <1>2, <2>1, <2>2
<1>4. OnHand(balance[to]) \in Int /\ OnHand(b2) = OnHand(balance[to]) + stock
  <2>1. OnHandDelta("TRANSFER_IN", stock) = stock
    BY DEF OnHandDelta, Inbound
  <2>2. /\ OnHand(balance[to]) \in Int
        /\ OnHand(b2) = OnHand(balance[to]) + OnHandDelta("TRANSFER_IN", stock)
    BY <1>1, MovementOnHand
  <2> QED BY <2>1, <2>2
<1>5. balance' = [balance EXCEPT ![from] = b1, ![to] = b2]
  BY DEF TransferStock
<1> HIDE DEF b1, b2, stock
<1>6. ASSUME NEW x \in Positions
      PROVE  balance'[x] = IF x = to THEN b2 ELSE IF x = from THEN b1 ELSE balance[x]
  BY <1>1, <1>5 DEF TypeOK, StockTypeOK
<1>7. SUFFICES ASSUME NEW j \in Items, NEW s \in StoreroomIds, NEW t \in StoreroomIds,
                      s # t,
                      balance'[<<j, s>>] # balance[<<j, s>>],
                      balance'[<<j, t>>] # balance[<<j, t>>]
               PROVE  OnHand(balance[<<j, s>>]) + OnHand(balance[<<j, t>>])
                        = OnHand(balance'[<<j, s>>]) + OnHand(balance'[<<j, t>>])
  BY DEF ConservesTotal
<1>8. <<j, s>> \in Positions /\ <<j, t>> \in Positions /\ <<j, s>> # <<j, t>>
  BY <1>7 DEF Positions
<1> HIDE DEF from, to
<1>9. \/ <<j, s>> = from /\ <<j, t>> = to
      \/ <<j, s>> = to /\ <<j, t>> = from
  BY <1>6, <1>7, <1>8
<1> QED BY <1>1, <1>2, <1>3, <1>4, <1>6, <1>9

(* No step but a transfer moves stock at two positions, and a transfer keeps the
   total. *)
LEMMA ConservesStep == TypeOK /\ [Next]_vars => [ConservesTotal]_<<balance>>
<1> SUFFICES ASSUME TypeOK, Next PROVE ConservesTotal \/ UNCHANGED balance
  BY DEF vars
<1> USE QuantitiesAssumption
<1>1. ASSUME NEW p \in Positions, NEW q \in Quantities, NEW u \in Uoms,
             \/ PostOpeningBalance(p, q, u)
             \/ \E type : PostAdjustment(p, type, q, u)
             \/ IssueStock(p, q, u, 0)
             \/ ReturnStock(p, q, u)
      PROVE  ConservesTotal
  <2>1. CASE PostOpeningBalance(p, q, u)
    BY <2>1, PostTransactionType, OnePositionConserves DEF PostOpeningBalance
  <2>2. ASSUME NEW type, PostAdjustment(p, type, q, u) PROVE ConservesTotal
    BY <2>2, PostTransactionType, OnePositionConserves DEF PostAdjustment
  <2>3. CASE IssueStock(p, q, u, 0)
    <3>1. PostsAt(p)
      BY <2>3, PostMovementType DEF IssueStock
    <3> QED BY <3>1, OnePositionConserves
  <2>4. CASE ReturnStock(p, q, u)
    <3>1. PostsAt(p)
      BY <2>4, PostMovementType DEF ReturnStock
    <3> QED BY <3>1, OnePositionConserves
  <2> QED BY <1>1, <2>1, <2>2, <2>3, <2>4
<1>2. StockNext => ConservesTotal
  BY <1>1, TransferKeepsTotal DEF StockNext
<1>3. ASSUME NEW r \in ReservationIds, NEW p \in Positions, NEW q \in Quantities,
             NEW u \in Uoms, CreateReservation(r, p, q, u)
      PROVE  ConservesTotal
  <2>1. PostsAt(p)
    BY <1>3, PostReservationType DEF CreateReservation, HoldReservation
  <2> QED BY <2>1, OnePositionConserves
<1>4. ASSUME NEW r \in ReservationIds, NEW q \in Quantities, IssueReservedStock(r, q)
      PROVE  ConservesTotal
  <2>1. reservation[r].position \in Positions /\ reservation[r].uom \in Uoms
    BY <1>4 DEF IssueReservedStock, Live, TypeOK, ReservationRows
  <2>2. PostsAt(reservation[r].position)
    BY <1>4, <2>1, PostMovementType DEF IssueReservedStock, IssueStock
  <2> QED BY <2>1, <2>2, OnePositionConserves
<1>5. ASSUME NEW r \in ReservationIds, NEW status, CloseReservation(r, status)
      PROVE  ConservesTotal
  <2>1. /\ reservation[r].position \in Positions
        /\ reservation[r].uom \in Uoms
        /\ reservation[r].remaining_qty \in Nat
    BY <1>5 DEF CloseReservation, Closable, Live, TypeOK, ReservationRows
  <2>2. PostsAt(reservation[r].position)
    BY <1>5, <2>1, PostReservationType DEF CloseReservation, Closable, ReleaseHold
  <2> QED BY <2>1, <2>2, OnePositionConserves
<1>6. ReservationNext => ConservesTotal
  BY <1>3, <1>4, <1>5 DEF ReservationNext, ReleaseReservation, CancelReservation
<1> QED BY <1>2, <1>6 DEF Next

(* transfer_stock neither creates nor loses stock, and no other operation moves
   stock at two positions at once. *)
THEOREM TransfersConserve == Spec => TransferConserves
<1> QED BY ConservesStep, TypeCorrect, PTL DEF Spec, TransferConserves

-----------------------------------------------------------------------------
(* Conversions *)

(* A UOM factor is a positive whole number. *)
LEMMA UomFactorType ==
    ASSUME NEW config \in UomConfigs, NEW u
    PROVE  UomFactor(config, u) \in Nat \ {0}
BY DEF UomFactor, UomConfigs

(* Converting to the stock UOM keeps the order of quantities. *)
LEMMA StockQuantityMonotone ==
    ASSUME NEW config \in UomConfigs, NEW u, NEW m \in Int, NEW n \in Int
    PROVE  /\ StockQuantity(config, m, u) \in Int
           /\ m <= n => StockQuantity(config, m, u) <= StockQuantity(config, n, u)
           /\ m < n => StockQuantity(config, m, u) < StockQuantity(config, n, u)
<1> DEFINE k == UomFactor(config, u)
<1>1. k \in Nat \ {0}
  BY UomFactorType
<1> HIDE DEF k
<1>2. m * k \in Int /\ n * k \in Int
  BY <1>1
<1>3. (n - m) * k = n * k - m * k
  BY <1>1
<1>4. ASSUME NEW d \in Nat PROVE d * k \in Nat /\ (d # 0 => d * k # 0)
  BY <1>1
<1>5. m <= n => (n - m) * k \in Nat /\ (n - m # 0 => (n - m) * k # 0)
  BY <1>4
<1>6. /\ StockQuantity(config, m, u) = m * k
      /\ StockQuantity(config, n, u) = n * k
  BY DEF StockQuantity, k
<1> QED BY <1>2, <1>3, <1>5, <1>6

(* Converting to the stock UOM is linear. *)
LEMMA StockQuantityLinear ==
    ASSUME NEW config \in UomConfigs, NEW u, NEW m \in Int, NEW n \in Int
    PROVE  /\ StockQuantity(config, 0, u) = 0
           /\ StockQuantity(config, m + n, u)
                = StockQuantity(config, m, u) + StockQuantity(config, n, u)
           /\ StockQuantity(config, m - n, u)
                = StockQuantity(config, m, u) - StockQuantity(config, n, u)
           /\ StockQuantity(config, -n, u) = -StockQuantity(config, n, u)
<1>1. UomFactor(config, u) \in Int
  BY UomFactorType
<1> QED BY <1>1 DEF StockQuantity

-----------------------------------------------------------------------------
(* Free and held units *)

Units == [Positions -> Nat]

(* What a consistent balance table counts. *)
LEMMA UnitsType ==
    ASSUME TypeOK, StockInv
    PROVE  Free \in Units /\ Held \in Units
<1>1. ASSUME NEW p \in Positions, balance[p] # None
      PROVE  balance[p].available_qty \in Nat /\ balance[p].reserved_qty \in Nat
  <2>1. balance[p] \in BalanceRows
    BY <1>1 DEF TypeOK, StockTypeOK
  <2> QED BY <1>1, <2>1 DEF StockInv, BalanceConsistent, BalanceRows
<1> QED BY <1>1 DEF Free, Held, Units

(* The quantities of the row a posting starts from. *)
LEMMA CurrentUnits ==
    ASSUME TypeOK, StockInv, NEW p \in Positions, item[p[1]] # None
    PROVE  /\ CurrentBalance(p) \in BalanceRows
           /\ CurrentBalance(p).available_qty = Free[p]
           /\ CurrentBalance(p).reserved_qty = Held[p]
           /\ CurrentBalance(p).on_hand_qty = Free[p] + Held[p]
           /\ CurrentBalance(p).on_hand_qty = OnHand(balance[p])
           /\ Free[p] \in Nat /\ Held[p] \in Nat
<1>1. CurrentBalance(p) \in BalanceRows
  BY CurrentBalanceType
<1>2. Free[p] \in Nat /\ Held[p] \in Nat
  BY UnitsType DEF Units
<1>3. CASE balance[p] = None
  BY <1>1, <1>2, <1>3 DEF CurrentBalance, Given, NewBalance, Free, Held, OnHand
<1>4. CASE balance[p] # None
  <2>1. CurrentBalance(p) = balance[p]
    BY <1>4 DEF CurrentBalance, Given
  <2>2. balance[p].available_qty = balance[p].on_hand_qty - balance[p].reserved_qty
    BY <1>4 DEF StockInv, BalanceConsistent
  <2>3. balance[p].on_hand_qty \in Int /\ balance[p].reserved_qty \in Int
    BY <1>1, <2>1 DEF BalanceRows
  <2>4. Free[p] = balance[p].available_qty /\ Held[p] = balance[p].reserved_qty
    BY <1>4 DEF Free, Held
  <2> QED BY <1>1, <1>2, <1>4, <2>1, <2>2, <2>3, <2>4 DEF OnHand
<1> QED BY <1>3, <1>4

(* The quantities a posting writes. *)
LEMMA PostedUnits ==
    ASSUME TypeOK, StockInv, NEW p \in Positions, item[p[1]] # None,
           NEW d \in Int, NEW r \in Int
    PROVE  /\ PostedBalance(p, d, r) \in BalanceRows
           /\ PostedBalance(p, d, r) # None
           /\ PostedBalance(p, d, r).available_qty = Free[p] + d - r
           /\ PostedBalance(p, d, r).reserved_qty = Held[p] + r
           /\ PostedBalance(p, d, r).on_hand_qty = OnHand(balance[p]) + d
<1> DEFINE b == CurrentBalance(p)
<1>1. /\ b.available_qty = Free[p] /\ b.reserved_qty = Held[p]
      /\ b.on_hand_qty = Free[p] + Held[p] /\ b.on_hand_qty = OnHand(balance[p])
      /\ Free[p] \in Nat /\ Held[p] \in Nat
  BY CurrentUnits
<1>2. /\ PostedBalance(p, d, r).on_hand_qty = b.on_hand_qty + d
      /\ PostedBalance(p, d, r).reserved_qty = b.reserved_qty + r
      /\ PostedBalance(p, d, r).available_qty = (b.on_hand_qty + d) - (b.reserved_qty + r)
  BY DEF PostedBalance
<1>3. \E q \in Int, u \in Uoms : TRUE
  <2>1. item[p[1]].uoms \in UomConfigs
    BY DEF TypeOK, ItemTypeOK, Positions, ItemRows
  <2>2. item[p[1]].uoms.stock_uom \in Uoms
    BY <2>1 DEF UomConfigs
  <2> QED BY <2>2
<1>4. PostedBalance(p, d, r) \in BalanceRows
  BY <1>3, PostedRowsType
<1> HIDE DEF b
<1> QED BY <1>1, <1>2, <1>4, RowsAssumption

(* One position's balance is rewritten: what happens to the counts. *)
LEMMA Rebalances ==
    ASSUME TypeOK, StockInv, NEW p \in Positions, item[p[1]] # None,
           NEW d \in Int, NEW r \in Int,
           balance' = [balance EXCEPT ![p] = PostedBalance(p, d, r)]
    PROVE  /\ Free' = [Free EXCEPT ![p] = Free[p] + d - r]
           /\ Held' = [Held EXCEPT ![p] = Held[p] + r]
<1> DEFINE b == PostedBalance(p, d, r)
<1>1. b # None /\ b.available_qty = Free[p] + d - r /\ b.reserved_qty = Held[p] + r
  BY PostedUnits
<1>2. balance' = [balance EXCEPT ![p] = b]
  OBVIOUS
<1> HIDE DEF b
<1>3. \A x \in Positions : balance'[x] = IF x = p THEN b ELSE balance[x]
  BY <1>2 DEF TypeOK, StockTypeOK
<1>4. Free' = [x \in Positions |-> IF x = p THEN Free[p] + d - r ELSE Free[x]]
  BY <1>1, <1>3 DEF Free
<1>5. Held' = [x \in Positions |-> IF x = p THEN Held[p] + r ELSE Held[x]]
  BY <1>1, <1>3 DEF Held
<1>6. Free \in Units /\ Held \in Units
  BY UnitsType
<1> QED BY <1>4, <1>5, <1>6 DEF Units

(* A step that leaves the balances alone leaves the counts alone. *)
LEMMA UnitsKept ==
    ASSUME UNCHANGED balance
    PROVE  Free' = Free /\ Held' = Held
BY DEF Free, Held

-----------------------------------------------------------------------------
(* What each posting does to a position, as the two deltas it posts *)

Effect(p, d, r) ==
    /\ p \in Positions /\ d \in Int /\ r \in Int
    /\ item[p[1]] # None
    /\ balance' = [balance EXCEPT ![p] = PostedBalance(p, d, r)]

(* Quantities a caller enters are worth something in the stock UOM. *)
LEMMA EnteredQuantity ==
    ASSUME TypeOK, NEW p \in Positions, item[p[1]] # None,
           NEW q \in Nat, NEW u
    PROVE  /\ item[p[1]].uoms \in UomConfigs
           /\ StockQuantity(item[p[1]].uoms, q, u) \in Nat
           /\ q # 0 => StockQuantity(item[p[1]].uoms, q, u) # 0
           /\ StockQuantity(item[p[1]].uoms, 0, u) = 0
<1>1. item[p[1]].uoms \in UomConfigs
  BY DEF TypeOK, ItemTypeOK, Positions, ItemRows
<1> DEFINE config == item[p[1]].uoms
<1> HIDE DEF config
<1>2. config \in UomConfigs
  BY <1>1 DEF config
<1>3. StockQuantity(config, 0, u) = 0
  BY <1>2, StockQuantityLinear
<1>4. /\ StockQuantity(config, q, u) \in Int
      /\ StockQuantity(config, 0, u) <= StockQuantity(config, q, u)
      /\ 0 < q => StockQuantity(config, 0, u) < StockQuantity(config, q, u)
  BY <1>2, StockQuantityMonotone
<1>5. /\ StockQuantity(config, q, u) \in Nat
      /\ q # 0 => StockQuantity(config, q, u) # 0
  BY <1>3, <1>4
<1> QED BY <1>1, <1>3, <1>5 DEF config

(* _post_transaction moves free stock only, and never below what is reserved. *)
LEMMA TransactionEffect ==
    ASSUME TypeOK, StockInv, NEW p \in Positions, PositionUsable(p), NEW type,
           NEW q \in Quantities, NEW u \in Uoms, PostTransaction(p, type, q, u)
    PROVE  LET d == OnHandDelta(type, StockQuantity(item[p[1]].uoms, q, u))
           IN  Effect(p, d, 0) /\ d # 0 /\ Free[p] + d >= 0
<1> DEFINE Q == StockQuantity(item[p[1]].uoms, q, u)
           d == OnHandDelta(type, Q)
<1>1. item[p[1]] # None /\ q \in Nat /\ q # 0
  BY UsableItem, QuantitiesAssumption
<1>2. Q \in Nat /\ Q # 0
  BY <1>1, EnteredQuantity
<1>3. /\ PostedBalance(p, d, 0).on_hand_qty >= CurrentBalance(p).reserved_qty
      /\ balance' = [balance EXCEPT ![p] = PostedBalance(p, d, 0)]
  BY DEF PostTransaction
<1> HIDE DEF Q
<1>4. d \in Int /\ d # 0
  BY <1>2 DEF OnHandDelta
<1> HIDE DEF d
<1>5. /\ CurrentBalance(p).reserved_qty = Held[p]
      /\ CurrentBalance(p).on_hand_qty = Free[p] + Held[p]
      /\ CurrentBalance(p).on_hand_qty = OnHand(balance[p])
      /\ Free[p] \in Nat /\ Held[p] \in Nat
  BY <1>1, CurrentUnits
<1>6. PostedBalance(p, d, 0).on_hand_qty = OnHand(balance[p]) + d
  BY <1>1, <1>4, PostedUnits
<1>7. Free[p] + d >= 0
  BY <1>3, <1>4, <1>5, <1>6
<1> QED BY <1>1, <1>3, <1>4, <1>7 DEF Effect, d, Q

(* _post_reservation_transaction converts between free and held. *)
LEMMA ReservationEffect ==
    ASSUME TypeOK, StockInv, NEW p \in Positions, PositionUsable(p), NEW type,
           NEW q \in Nat, NEW u \in Uoms, PostReservationTransaction(p, type, q, u)
    PROVE  LET stock == StockQuantity(item[p[1]].uoms, q, u)
               r == IF type = "RESERVATION_HOLD" THEN stock ELSE -stock
           IN  Effect(p, 0, r) /\ Free[p] - r >= 0 /\ Held[p] + r >= 0
<1> DEFINE stock == StockQuantity(item[p[1]].uoms, q, u)
           r == IF type = "RESERVATION_HOLD" THEN stock ELSE -stock
<1>1. item[p[1]] # None
  BY UsableItem
<1>2. stock \in Nat
  BY <1>1, EnteredQuantity
<1>3. /\ PostedBalance(p, 0, r).reserved_qty >= 0
      /\ PostedBalance(p, 0, r).available_qty >= 0
      /\ balance' = [balance EXCEPT ![p] = PostedBalance(p, 0, r)]
  BY DEF PostReservationTransaction, ReservationAllowed
<1> HIDE DEF stock
<1>4. r \in Int
  BY <1>2
<1> HIDE DEF r
<1>5. /\ PostedBalance(p, 0, r).available_qty = Free[p] + 0 - r
      /\ PostedBalance(p, 0, r).reserved_qty = Held[p] + r
      /\ Free[p] \in Nat
  BY <1>1, <1>4, PostedUnits, CurrentUnits
<1> QED BY <1>1, <1>3, <1>4, <1>5 DEF Effect, r, stock

(* One half of _post_movement_transaction: what it may take from free and held. *)
LEMMA MovementEffect ==
    ASSUME TypeOK, StockInv, NEW p \in Positions, item[p[1]] # None, NEW type,
           NEW q \in Quantities, NEW u \in Uoms, NEW release \in {0, q},
           MovementAllowed(p, type, q, u, release)
    PROVE  LET Q == StockQuantity(item[p[1]].uoms, q, u)
               d == OnHandDelta(type, Q)
               r == IF release = 0 THEN 0 ELSE -Q
           IN  /\ Q \in Nat /\ Q # 0 /\ d \in Int /\ r \in Int
               /\ MovementBalance(p, type, q, u, release) = PostedBalance(p, d, r)
               /\ Free[p] + d - r >= 0
               /\ Held[p] + r >= 0
<1> DEFINE Q == StockQuantity(item[p[1]].uoms, q, u)
           d == OnHandDelta(type, Q)
           r == IF release = 0 THEN 0 ELSE -Q
<1>1. q \in Nat /\ q # 0
  BY QuantitiesAssumption
<1>2. Q \in Nat /\ Q # 0 /\ StockQuantity(item[p[1]].uoms, 0, u) = 0
  BY <1>1, EnteredQuantity
<1>3. -StockQuantity(item[p[1]].uoms, release, u) = r
  BY <1>2
<1>4. MovementBalance(p, type, q, u, release) = PostedBalance(p, d, r)
  BY <1>3 DEF MovementBalance
<1>5. /\ MovementBalance(p, type, q, u, release).reserved_qty >= 0
      /\ MovementBalance(p, type, q, u, release).available_qty >= 0
  BY DEF MovementAllowed
<1> HIDE DEF Q
<1>6. d \in Int /\ r \in Int
  BY <1>2 DEF OnHandDelta
<1> HIDE DEF d, r
<1>7. /\ PostedBalance(p, d, r).available_qty = Free[p] + d - r
      /\ PostedBalance(p, d, r).reserved_qty = Held[p] + r
  BY <1>6, PostedUnits
<1>8. Free[p] + d - r >= 0 /\ Held[p] + r >= 0
  BY <1>4, <1>5, <1>7
<1> QED BY <1>2, <1>4, <1>6, <1>8 DEF d, r, Q

-----------------------------------------------------------------------------
(* The refinement *)

AbstractStep == Abstract!Next \/ UNCHANGED <<Free, Held>>

(* An effect on one position that moves free stock, converts, or consumes what is
   held is a step AbstractStock allows. *)
LEMMA EffectAllowed ==
    ASSUME TypeOK, StockInv, NEW p, NEW d, NEW r, Effect(p, d, r),
           Free[p] + d - r >= 0, Held[p] + r >= 0,
           \/ r = 0
           \/ d = 0
           \/ d = r /\ d < 0
    PROVE  AbstractStep
<1>1. p \in Positions /\ d \in Int /\ r \in Int
  BY DEF Effect
<1>2. /\ Free' = [Free EXCEPT ![p] = Free[p] + d - r]
      /\ Held' = [Held EXCEPT ![p] = Held[p] + r]
  BY Rebalances DEF Effect
<1>3. Free \in [Positions -> Nat] /\ Held \in [Positions -> Nat]
  BY UnitsType DEF Units
<1>4. Free'[p] = Free[p] + d - r /\ Held'[p] = Held[p] + r
  BY <1>1, <1>2, <1>3
<1>5. Free[p] \in Nat /\ Held[p] \in Nat
  BY <1>1, <1>3
<1>6. CASE r = 0 /\ d > 0
  <2>1. Held' = Held
    BY <1>1, <1>2, <1>3, <1>5, <1>6
  <2>2. Abstract!Only(Free, p)
    BY <1>2, <1>4 DEF Abstract!Only
  <2>3. Abstract!Receive(p)
    BY <1>1, <1>2, <1>4, <1>5, <1>6, <2>1, <2>2 DEF Abstract!Receive
  <2> QED BY <1>1, <2>3 DEF AbstractStep, Abstract!Next
<1>7. CASE r = 0 /\ d < 0
  <2>1. Held' = Held
    BY <1>1, <1>2, <1>3, <1>5, <1>7
  <2>2. Abstract!Only(Free, p)
    BY <1>2, <1>4 DEF Abstract!Only
  <2>3. Abstract!Take(p)
    BY <1>1, <1>2, <1>4, <1>5, <1>7, <2>1, <2>2 DEF Abstract!Take
  <2> QED BY <1>1, <2>3 DEF AbstractStep, Abstract!Next
<1>8. CASE d = 0
  <2>1. Abstract!Only(Free, p) /\ Abstract!Only(Held, p)
    BY <1>2, <1>4 DEF Abstract!Only
  <2>2. Abstract!Convert(p)
    BY <1>1, <1>2, <1>4, <1>5, <1>8, <2>1 DEF Abstract!Convert
  <2> QED BY <1>1, <2>2 DEF AbstractStep, Abstract!Next
<1>9. CASE d = r /\ d < 0
  <2>1. Free' = Free
    BY <1>1, <1>2, <1>3, <1>5, <1>9
  <2>2. Abstract!Only(Held, p)
    BY <1>2, <1>4 DEF Abstract!Only
  <2>3. Abstract!Consume(p)
    BY <1>1, <1>2, <1>4, <1>5, <1>9, <2>1, <2>2 DEF Abstract!Consume
  <2> QED BY <1>1, <2>3 DEF AbstractStep, Abstract!Next
<1> QED BY <1>1, <1>6, <1>7, <1>8, <1>9

(* A movement that releases nothing, or exactly what it takes. *)
LEMMA MovementAbstract ==
    ASSUME TypeOK, StockInv, NEW p \in Positions, PositionUsable(p),
           NEW type \in {"ISSUE", "RETURN"}, NEW q \in Quantities, NEW u \in Uoms,
           NEW release \in {0, q}, type = "RETURN" => release = 0,
           PostMovementTransaction(p, type, q, u, release)
    PROVE  AbstractStep
<1> DEFINE Q == StockQuantity(item[p[1]].uoms, q, u)
           d == OnHandDelta(type, Q)
           r == IF release = 0 THEN 0 ELSE -Q
<1>1. item[p[1]] # None /\ MovementAllowed(p, type, q, u, release)
  BY UsableItem DEF PostMovementTransaction
<1>2. /\ Q \in Nat /\ Q # 0 /\ d \in Int /\ r \in Int
      /\ MovementBalance(p, type, q, u, release) = PostedBalance(p, d, r)
      /\ Free[p] + d - r >= 0
      /\ Held[p] + r >= 0
  BY <1>1, MovementEffect
<1>3. Effect(p, d, r)
  BY <1>1, <1>2 DEF Effect, PostMovementTransaction
<1>4. release # 0 => d = r /\ d < 0
  <2>1. release # 0 => OnHandDelta(type, Q) = -Q
    BY DEF OnHandDelta, Inbound
  <2> QED BY <1>2, <2>1
<1>5. release = 0 => r = 0
  OBVIOUS
<1> HIDE DEF Q, d, r
<1> QED BY <1>2, <1>3, <1>4, <1>5, EffectAllowed

(* transfer_stock takes free units from one position, adds as many to the other, and
   leaves what is held alone. *)
LEMMA TransferEffect ==
    ASSUME TypeOK, StockInv, NEW i \in Items, NEW s \in StoreroomIds,
           NEW t \in StoreroomIds, NEW q \in Quantities, NEW u \in Uoms,
           TransferStock(i, s, t, q, u)
    PROVE  LET from == <<i, s>>
               to == <<i, t>>
               Q == StockQuantity(item[i].uoms, q, u)
           IN  /\ from \in Positions /\ to \in Positions /\ from # to /\ item[i] # None
               /\ Q \in Nat /\ Q # 0 /\ Free[from] - Q >= 0
               /\ balance' = [balance EXCEPT ![from] = PostedBalance(from, -Q, 0),
                                             ![to] = PostedBalance(to, Q, 0)]
               /\ Free' = [x \in Positions |-> IF x = to THEN Free[to] + Q
                                               ELSE IF x = from THEN Free[from] - Q
                                               ELSE Free[x]]
               /\ Held' = Held
<1> DEFINE from == <<i, s>>
           to == <<i, t>>
           Q == StockQuantity(item[i].uoms, q, u)
           b1 == PostedBalance(from, -Q, 0)
           b2 == PostedBalance(to, Q, 0)
<1>1. /\ from \in Positions /\ to \in Positions /\ from # to
      /\ from[1] = i /\ to[1] = i /\ item[i] # None
      /\ MovementAllowed(from, "TRANSFER_OUT", q, u, 0)
      /\ MovementAllowed(to, "TRANSFER_IN", q, u, 0)
  BY DEF Positions, TransferStock, PositionUsable
<1>2. /\ Q \in Nat /\ Q # 0
      /\ MovementBalance(from, "TRANSFER_OUT", q, u, 0) = b1
      /\ Free[from] - Q >= 0
  <2>1. OnHandDelta("TRANSFER_OUT", Q) = -Q
    BY DEF OnHandDelta, Inbound
  <2>2. /\ Q \in Nat /\ Q # 0
        /\ MovementBalance(from, "TRANSFER_OUT", q, u, 0)
             = PostedBalance(from, OnHandDelta("TRANSFER_OUT", Q), 0)
        /\ Free[from] + OnHandDelta("TRANSFER_OUT", Q) - 0 >= 0
    BY <1>1, MovementEffect
  <2>3. Free[from] \in Nat
    BY <1>1, UnitsType DEF Units
  <2> HIDE DEF Q, from
  <2> QED BY <2>1, <2>2, <2>3
<1>3. MovementBalance(to, "TRANSFER_IN", q, u, 0) = b2
  <2>1. OnHandDelta("TRANSFER_IN", Q) = Q
    BY DEF OnHandDelta, Inbound
  <2>2. MovementBalance(to, "TRANSFER_IN", q, u, 0)
             = PostedBalance(to, OnHandDelta("TRANSFER_IN", Q), 0)
    BY <1>1, MovementEffect
  <2> QED BY <2>1, <2>2
<1>4. balance' = [balance EXCEPT ![from] = b1, ![to] = b2]
  BY <1>2, <1>3 DEF TransferStock
<1> HIDE DEF from, to, Q
<1>5. -Q \in Int /\ Q \in Int
  BY <1>2
<1>6. /\ b1 # None /\ b1.available_qty = Free[from] + (-Q) - 0
      /\ b1.reserved_qty = Held[from] + 0
  BY <1>1, <1>5, PostedUnits
<1>7. /\ b2 # None /\ b2.available_qty = Free[to] + Q - 0
      /\ b2.reserved_qty = Held[to] + 0
  BY <1>1, <1>5, PostedUnits
<1> HIDE DEF b1, b2
<1>8. Free \in [Positions -> Nat] /\ Held \in [Positions -> Nat]
  BY UnitsType DEF Units
<1>9. \A x \in Positions :
        balance'[x] = IF x = to THEN b2 ELSE IF x = from THEN b1 ELSE balance[x]
  BY <1>1, <1>4 DEF TypeOK, StockTypeOK
<1>10. Free' = [x \in Positions |-> IF x = to THEN Free[to] + Q
                                    ELSE IF x = from THEN Free[from] - Q ELSE Free[x]]
  <2>1. Free[from] \in Int /\ Free[to] \in Int
    BY <1>1, <1>8
  <2> QED BY <1>1, <1>2, <1>6, <1>7, <1>9, <2>1 DEF Free
<1>11. Held' = Held
  <2>1. Held[from] \in Int /\ Held[to] \in Int
    BY <1>1, <1>8
  <2> QED BY <1>1, <1>6, <1>7, <1>9, <2>1 DEF Held
<1> QED BY <1>1, <1>2, <1>4, <1>10, <1>11 DEF from, to, Q, b1, b2

(* A transfer is a move of free units. *)
LEMMA TransferAbstract ==
    ASSUME TypeOK, StockInv, NEW i \in Items, NEW s \in StoreroomIds,
           NEW t \in StoreroomIds, NEW q \in Quantities, NEW u \in Uoms,
           TransferStock(i, s, t, q, u)
    PROVE  AbstractStep
<1> DEFINE from == <<i, s>>
           to == <<i, t>>
           Q == StockQuantity(item[i].uoms, q, u)
<1>1. /\ from \in Positions /\ to \in Positions /\ from # to
      /\ Q \in Nat /\ Q # 0 /\ Free[from] - Q >= 0
  BY TransferEffect
<1>2. Free' = [x \in Positions |-> IF x = to THEN Free[to] + Q
                                   ELSE IF x = from THEN Free[from] - Q ELSE Free[x]]
  BY TransferEffect
<1>3. Held' = Held
  BY TransferEffect
<1> HIDE DEF from, to, Q
<1>4. Free \in [Positions -> Nat] /\ Held \in [Positions -> Nat]
  BY UnitsType DEF Units
<1>5. Free'[to] = Free[to] + Q /\ Free'[from] = Free[from] - Q
  BY <1>1, <1>2
<1>6. Free' = [Free EXCEPT ![from] = Free'[from], ![to] = Free'[to]]
  BY <1>1, <1>2, <1>4, <1>5
<1>7. Abstract!Move(from, to)
  <2>1. Free[from] \in Nat /\ Free[to] \in Nat
    BY <1>1, <1>4
  <2> QED BY <1>1, <1>3, <1>5, <1>6, <2>1 DEF Abstract!Move
<1> QED BY <1>1, <1>7 DEF AbstractStep, Abstract!Next

(* Every step of the item, storeroom, stock and reservation services is a step of
   AbstractStock or leaves the free and held units alone. *)
LEMMA RefinementStep == TypeOK /\ StockInv /\ [Next]_vars => [Abstract!Next]_<<Free, Held>>
<1> SUFFICES ASSUME TypeOK, StockInv, [Next]_vars PROVE AbstractStep
  BY DEF AbstractStep
<1> USE QuantitiesAssumption
<1>1. CASE UNCHANGED balance
  BY <1>1, UnitsKept DEF AbstractStep
<1>2. ASSUME NEW p \in Positions, NEW q \in Quantities, NEW u \in Uoms, NEW type,
             PositionUsable(p), PostTransaction(p, type, q, u)
      PROVE  AbstractStep
  <2> DEFINE d == OnHandDelta(type, StockQuantity(item[p[1]].uoms, q, u))
  <2>1. Effect(p, d, 0) /\ Free[p] + d >= 0
    BY <1>2, TransactionEffect
  <2> HIDE DEF d
  <2>2. Free[p] \in Nat /\ Held[p] \in Nat /\ d \in Int
    BY <2>1, UnitsType DEF Units, Effect
  <2>3. Free[p] + d - 0 >= 0 /\ Held[p] + 0 >= 0
    BY <2>1, <2>2
  <2> QED BY <2>1, <2>3, EffectAllowed
<1>3. ASSUME NEW p \in Positions, NEW q \in Nat, NEW u \in Uoms, NEW type,
             PositionUsable(p), PostReservationTransaction(p, type, q, u)
      PROVE  AbstractStep
  <2> DEFINE stock == StockQuantity(item[p[1]].uoms, q, u)
             r == IF type = "RESERVATION_HOLD" THEN stock ELSE -stock
  <2>1. Effect(p, 0, r) /\ Free[p] - r >= 0 /\ Held[p] + r >= 0
    BY <1>3, ReservationEffect
  <2> HIDE DEF stock, r
  <2>2. Free[p] \in Nat /\ r \in Int
    BY <2>1, UnitsType DEF Units, Effect
  <2>3. Free[p] + 0 - r >= 0
    BY <2>1, <2>2
  <2> QED BY <2>1, <2>3, EffectAllowed
<1>4. ASSUME NEW p \in Positions, NEW q \in Quantities, NEW u \in Uoms,
             PostOpeningBalance(p, q, u)
      PROVE  AbstractStep
  BY <1>2, <1>4 DEF PostOpeningBalance
<1>5. ASSUME NEW p \in Positions, NEW q \in Quantities, NEW u \in Uoms, NEW type,
             PostAdjustment(p, type, q, u)
      PROVE  AbstractStep
  BY <1>2, <1>5 DEF PostAdjustment
<1>6. ASSUME NEW p \in Positions, NEW q \in Quantities, NEW u \in Uoms,
             IssueStock(p, q, u, 0)
      PROVE  AbstractStep
  BY <1>6, MovementAbstract DEF IssueStock
<1>7. ASSUME NEW p \in Positions, NEW q \in Quantities, NEW u \in Uoms,
             ReturnStock(p, q, u)
      PROVE  AbstractStep
  BY <1>7, MovementAbstract DEF ReturnStock
<1>8. StockNext => AbstractStep
  BY <1>4, <1>5, <1>6, <1>7, TransferAbstract DEF StockNext
<1>9. ASSUME NEW r \in ReservationIds, NEW p \in Positions, NEW q \in Quantities,
             NEW u \in Uoms, CreateReservation(r, p, q, u)
      PROVE  AbstractStep
  BY <1>3, <1>9 DEF CreateReservation, HoldReservation
<1>10. ASSUME NEW r \in ReservationIds, NEW q \in Quantities, IssueReservedStock(r, q)
       PROVE  AbstractStep
  <2>1. reservation[r].position \in Positions /\ reservation[r].uom \in Uoms
    BY <1>10 DEF IssueReservedStock, Live, TypeOK, ReservationRows
  <2>2. /\ PositionUsable(reservation[r].position)
        /\ PostMovementTransaction(reservation[r].position, "ISSUE", q,
                                   reservation[r].uom, q)
    BY <1>10 DEF IssueReservedStock, IssueStock
  <2> QED BY <2>1, <2>2, MovementAbstract
<1>11. ASSUME NEW r \in ReservationIds, NEW status, CloseReservation(r, status)
       PROVE  AbstractStep
  <2>1. /\ reservation[r].position \in Positions
        /\ reservation[r].uom \in Uoms
        /\ reservation[r].remaining_qty \in Nat
    BY <1>11 DEF CloseReservation, Closable, Live, TypeOK, ReservationRows
  <2> QED BY <1>3, <1>11, <2>1 DEF CloseReservation, Closable, ReleaseHold
<1>12. ReservationNext => AbstractStep
  BY <1>9, <1>10, <1>11 DEF ReservationNext, ReleaseReservation, CancelReservation
<1> QED BY <1>1, <1>8, <1>12 DEF Next, vars

(* StockReservations implements AbstractStock: no operation takes a reserved unit for
   anything but its reservation, or makes a quantity negative. *)
THEOREM StockRefines == Spec => ImplementsAbstractStock
<1>1. Init => Abstract!Init
  BY DEF Init, StockInit, Abstract!Init, Free, Held
<1> QED BY <1>1, RefinementStep, TypeCorrect, StockConsistent, PTL
        DEF Spec, ImplementsAbstractStock, Abstract!Spec

-----------------------------------------------------------------------------
(* Live reservations back the reserved quantities

   An update_item that changes an item's units or factors changes what its existing
   rows are worth, so the sums below are stated for behaviours without one.         *)

(* No step changes the units of measure of an item that exists. *)
UomsKept == \A i \in Items : item[i] # None =>
                item'[i] # None /\ item'[i].uoms = item[i].uoms

Rows == {r \in ReservationIds : reservation[r] # None}

(* A reservation's item exists. *)
ReservedItems == \A r \in Rows : item[reservation[r].position[1]] # None

(* What a reservation adds to what position p holds. *)
Contribution(p) ==
    [r \in ReservationIds |-> IF r \in LiveAt(p) THEN HeldQuantity(r) ELSE 0]

(* The strengthening: reservations are finitely many and of existing items. *)
BackInv == /\ IsFiniteSet(Rows)
           /\ ReservedItems
           /\ ReservedBacksReservations

(* Contributions are quantities. *)
LEMMA ContributionType ==
    ASSUME TypeOK, ReservedItems, NEW p, NEW r \in ReservationIds
    PROVE  Contribution(p)[r] \in Int
<1>1. CASE r \in LiveAt(p)
  <2>1. reservation[r] \in ReservationRows /\ r \in Rows
    BY <1>1 DEF LiveAt, Live, TypeOK, Rows
  <2>2. /\ reservation[r].position \in Positions
        /\ reservation[r].uom \in Uoms
        /\ reservation[r].remaining_qty \in Nat
    BY <2>1 DEF ReservationRows
  <2>3. item[reservation[r].position[1]] # None
    BY <2>1 DEF ReservedItems
  <2>4. HeldQuantity(r) \in Nat
    BY <2>2, <2>3, EnteredQuantity DEF HeldQuantity
  <2> QED BY <1>1, <2>4 DEF Contribution
<1>2. CASE r \notin LiveAt(p)
  BY <1>2 DEF Contribution
<1> QED BY <1>1, <1>2

(* The sum over a position's live reservations is the sum of the contributions of any
   finite set of reservations that includes them, before a step and after it. *)
LEMMA ContributionSum ==
    ASSUME NEW p, NEW T, T \subseteq ReservationIds, IsFiniteSet(T), Rows \subseteq T,
           \A r \in T : Contribution(p)[r] \in Int
    PROVE  SumFunction([r \in LiveAt(p) |-> HeldQuantity(r)])
             = SumFunctionOnSet(Contribution(p), T)
<1> DEFINE h == [r \in LiveAt(p) |-> HeldQuantity(r)]
<1>1. PICK g : g = Contribution(p)
  OBVIOUS
<1>2. DOMAIN h = LiveAt(p) /\ LiveAt(p) \subseteq T
  BY DEF LiveAt, Live, Rows
<1>3. \A r \in T : g[r] = IF r \in DOMAIN h THEN h[r] ELSE 0
  BY <1>1, <1>2 DEF Contribution
<1> HIDE DEF h
<1>4. SumFunction(h) = SumFunctionOnSet(g, T)
  BY <1>1, <1>2, <1>3, SumExtended
<1> QED BY <1>1, <1>4 DEF h

(* The same sum after the step. *)
LEMMA ContributionSumNext ==
    ASSUME NEW p, NEW T, T \subseteq ReservationIds, IsFiniteSet(T), Rows' \subseteq T,
           \A r \in T : Contribution(p)'[r] \in Int
    PROVE  SumFunction([r \in LiveAt(p)' |-> HeldQuantity(r)'])
             = SumFunctionOnSet(Contribution(p)', T)
<1> DEFINE h == [r \in LiveAt(p)' |-> HeldQuantity(r)']
<1>1. PICK g : g = Contribution(p)'
  OBVIOUS
<1>2. DOMAIN h = LiveAt(p)' /\ LiveAt(p)' \subseteq T
  BY DEF LiveAt, Live, Rows
<1>3. \A r \in T : g[r] = IF r \in DOMAIN h THEN h[r] ELSE 0
  BY <1>1, <1>2 DEF Contribution
<1> HIDE DEF h
<1>4. SumFunction(h) = SumFunctionOnSet(g, T)
  BY <1>1, <1>2, <1>3, SumExtended
<1> QED BY <1>1, <1>4 DEF h

(* A row nobody writes goes on contributing what it did. *)
LEMMA ContributionKept ==
    ASSUME TypeOK, ReservedItems, UomsKept, NEW p, NEW r \in ReservationIds,
           reservation'[r] = reservation[r]
    PROVE  Contribution(p)'[r] = Contribution(p)[r]
<1>1. r \in LiveAt(p)' <=> r \in LiveAt(p)
  BY DEF LiveAt, Live
<1>2. ASSUME r \in LiveAt(p) PROVE HeldQuantity(r)' = HeldQuantity(r)
  <2>1. reservation[r] \in ReservationRows /\ r \in Rows
    BY <1>2 DEF LiveAt, Live, TypeOK, Rows
  <2>2. reservation[r].position \in Items \X StoreroomIds
    BY <2>1 DEF ReservationRows, Positions
  <2>3. item'[reservation[r].position[1]].uoms = item[reservation[r].position[1]].uoms
    BY <2>1, <2>2 DEF ReservedItems, UomsKept
  <2> QED BY <2>3 DEF HeldQuantity
<1>3. /\ Contribution(p)'[r] = IF r \in LiveAt(p)' THEN HeldQuantity(r)' ELSE 0
      /\ Contribution(p)[r] = IF r \in LiveAt(p) THEN HeldQuantity(r) ELSE 0
  BY DEF Contribution
<1> QED BY <1>1, <1>2, <1>3

(* A step that leaves the reservations and the reserved quantities alone. *)
LEMMA BackKept ==
    ASSUME TypeOK, BackInv, TypeOK', UomsKept, UNCHANGED reservation, Held' = Held
    PROVE  BackInv'
<1>1. Rows' = Rows /\ IsFiniteSet(Rows)
  BY DEF Rows, BackInv
<1>2. ReservedItems'
  <2>1. ASSUME NEW r \in Rows PROVE item'[reservation[r].position[1]] # None
    <3>1. reservation[r] \in ReservationRows
      BY DEF Rows, TypeOK
    <3>2. reservation[r].position[1] \in Items
      BY <3>1 DEF ReservationRows, Positions
    <3> QED BY <3>2 DEF UomsKept, BackInv, ReservedItems
  <2> QED BY <1>1, <2>1 DEF ReservedItems
<1>3. ASSUME NEW p \in Positions
      PROVE  Held'[p] = SumFunction([r \in LiveAt(p)' |-> HeldQuantity(r)'])
  <2> DEFINE T == Rows
  <2>1. T \subseteq ReservationIds
    BY DEF Rows
  <2>2. Held[p] = SumFunction([r \in LiveAt(p) |-> HeldQuantity(r)])
    BY DEF BackInv, ReservedBacksReservations, Held
  <2>3. SumFunction([r \in LiveAt(p) |-> HeldQuantity(r)])
          = SumFunctionOnSet(Contribution(p), T)
    BY <1>1, <2>1, ContributionSum, ContributionType DEF BackInv
  <2>4. \A r \in T : /\ Contribution(p)'[r] = Contribution(p)[r]
                     /\ Contribution(p)'[r] \in Int
    BY <2>1, ContributionKept, ContributionType DEF BackInv
  <2>5. SumFunction([r \in LiveAt(p)' |-> HeldQuantity(r)'])
          = SumFunctionOnSet(Contribution(p)', T)
    BY <1>1, <2>1, <2>4, ContributionSumNext
  <2>6. SumFunctionOnSet(Contribution(p)', T) = SumFunctionOnSet(Contribution(p), T)
    <3>1. PICK f, g : f = Contribution(p)' /\ g = Contribution(p)
      OBVIOUS
    <3>2. SumFunctionOnSet(f, T) = SumFunctionOnSet(g, T)
      BY <1>1, <2>4, <3>1, SumSame
    <3> QED BY <3>1, <3>2
  <2> QED BY <2>2, <2>3, <2>5, <2>6
<1>4. ReservedBacksReservations'
  BY <1>3 DEF ReservedBacksReservations, Held
<1> QED BY <1>1, <1>2, <1>4 DEF BackInv

(* A step that rewrites one reservation, and changes each reserved quantity by what it
   changes of that reservation's contribution. *)
LEMMA BackRow ==
    ASSUME TypeOK, BackInv, UomsKept, NEW r \in ReservationIds,
           \A x \in ReservationIds \ {r} : reservation'[x] = reservation[x],
           item'[reservation'[r].position[1]] # None,
           \A p \in Positions : /\ Contribution(p)'[r] \in Int
                                /\ Held'[p] = Held[p] + Contribution(p)'[r]
                                                - Contribution(p)[r]
    PROVE  BackInv'
<1> DEFINE T == Rows \cup {r}
<1>1. T \subseteq ReservationIds /\ IsFiniteSet(T) /\ Rows \subseteq T /\ Rows' \subseteq T
  BY FS_AddElement DEF Rows, BackInv
<1>2. IsFiniteSet(Rows')
  BY <1>1, FS_Subset
<1>3. ReservedItems'
  <2>1. ASSUME NEW x \in Rows', x # r PROVE item'[reservation'[x].position[1]] # None
    <3>1. reservation[x] \in ReservationRows /\ x \in Rows /\ reservation'[x] = reservation[x]
      BY <2>1 DEF Rows, TypeOK
    <3>2. reservation[x].position[1] \in Items
      BY <3>1 DEF ReservationRows, Positions
    <3> QED BY <3>1, <3>2 DEF UomsKept, BackInv, ReservedItems
  <2> QED BY <2>1 DEF ReservedItems
<1>4. ASSUME NEW p \in Positions
      PROVE  Held'[p] = SumFunction([x \in LiveAt(p)' |-> HeldQuantity(x)'])
  <2>1. \A x \in T : Contribution(p)[x] \in Int
    BY <1>1, ContributionType DEF BackInv
  <2>2. \A x \in T \ {r} : Contribution(p)'[x] = Contribution(p)[x]
    BY <1>1, ContributionKept DEF BackInv
  <2>3. \A x \in T : Contribution(p)'[x] \in Int
    BY <2>1, <2>2
  <2>4. Held[p] = SumFunctionOnSet(Contribution(p), T)
    <3>1. Held[p] = SumFunction([x \in LiveAt(p) |-> HeldQuantity(x)])
      BY DEF BackInv, ReservedBacksReservations, Held
    <3>2. SumFunction([x \in LiveAt(p) |-> HeldQuantity(x)])
            = SumFunctionOnSet(Contribution(p), T)
      BY <1>1, <2>1, ContributionSum
    <3> QED BY <3>1, <3>2
  <2>5. SumFunction([x \in LiveAt(p)' |-> HeldQuantity(x)'])
          = SumFunctionOnSet(Contribution(p)', T)
    BY <1>1, <2>3, ContributionSumNext
  <2>6. SumFunctionOnSet(Contribution(p)', T)
          = SumFunctionOnSet(Contribution(p), T) + Contribution(p)'[r] - Contribution(p)[r]
    <3>1. PICK f, g : f = Contribution(p) /\ g = Contribution(p)'
      OBVIOUS
    <3>2. SumFunctionOnSet(g, T) = SumFunctionOnSet(f, T) + g[r] - f[r]
      <4>1. r \in T /\ g[r] \in Int /\ \A x \in T : f[x] \in Int
        BY <2>1, <2>3, <3>1
      <4>2. \A x \in T \ {r} : g[x] = f[x]
        BY <2>2, <3>1
      <4> HIDE DEF T
      <4> QED BY <1>1, <4>1, <4>2, SumChange
    <3> QED BY <3>1, <3>2
  <2> HIDE DEF T
  <2>7. Held'[p] = SumFunctionOnSet(Contribution(p)', T)
    BY <2>4, <2>6
  <2> QED BY <2>5, <2>7
<1>5. ReservedBacksReservations'
  BY <1>4 DEF ReservedBacksReservations, Held
<1> QED BY <1>2, <1>3, <1>5 DEF BackInv

(* What one reservation contributes before and after a step that rewrites it. *)
LEMMA RowContribution ==
    ASSUME NEW p, NEW r \in ReservationIds
    PROVE  /\ Contribution(p)[r] =
                IF Live(r) /\ reservation[r].position = p
                THEN StockQuantity(item[p[1]].uoms, reservation[r].remaining_qty,
                                   reservation[r].uom)
                ELSE 0
           /\ Contribution(p)'[r] =
                IF Live(r)' /\ reservation'[r].position = p
                THEN StockQuantity(item'[p[1]].uoms, reservation'[r].remaining_qty,
                                   reservation'[r].uom)
                ELSE 0
BY DEF Contribution, LiveAt, HeldQuantity

(* A hold is what its new reservation contributes. *)
LEMMA CreateBacks ==
    ASSUME TypeOK, StockInv, BackInv, UomsKept, UNCHANGED item, NEW r \in ReservationIds,
           NEW p \in Positions, NEW q \in Quantities, NEW u \in Uoms,
           CreateReservation(r, p, q, u)
    PROVE  BackInv'
<1> DEFINE Q == StockQuantity(item[p[1]].uoms, q, u)
<1>1. q \in Nat /\ PositionUsable(p) /\ item[p[1]] # None /\ reservation[r] = None
  BY QuantitiesAssumption, UsableItem DEF CreateReservation, HoldReservation
<1>2. Q \in Nat
  BY <1>1, EnteredQuantity
<1>3. Effect(p, 0, Q)
  BY <1>1, ReservationEffect DEF CreateReservation, HoldReservation
<1>4. Held' = [Held EXCEPT ![p] = Held[p] + Q]
  <2> HIDE DEF Q
  <2> QED BY <1>1, <1>3, Rebalances DEF Effect
<1>5. /\ reservation'[r] = [status |-> "ACTIVE", position |-> p, uom |-> u,
                            reserved_qty |-> q, issued_qty |-> 0, remaining_qty |-> q]
      /\ \A x \in ReservationIds \ {r} : reservation'[x] = reservation[x]
  BY DEF CreateReservation, TypeOK
<1>6. Live(r)' /\ ~Live(r)
  <2>1. reservation'[r] \in ReservationRows
    BY <1>1, <1>5 DEF ReservationRows, ReservationStatuses
  <2>2. reservation'[r] # None
    BY <2>1, ReservationRowsAssumption
  <2> QED BY <1>1, <1>5, <2>2 DEF Live, LiveStatuses
<1>7. ASSUME NEW x \in Positions
      PROVE  /\ Contribution(x)'[r] = IF x = p THEN Q ELSE 0
             /\ Contribution(x)[r] = 0
             /\ Held[x] \in Int
  BY <1>5, <1>6, RowContribution, UnitsType DEF Units
<1>8. Held \in [Positions -> Nat]
  BY UnitsType DEF Units
<1> HIDE DEF Q
<1>9. \A x \in Positions : /\ Contribution(x)'[r] \in Int
                           /\ Held'[x] = Held[x] + Contribution(x)'[r] - Contribution(x)[r]
  BY <1>2, <1>4, <1>7, <1>8
<1>10. item'[reservation'[r].position[1]] # None
  BY <1>1, <1>5
<1> QED BY <1>5, <1>9, <1>10, BackRow

(* An issue takes from the balance what it takes from its reservation. *)
LEMMA IssueBacks ==
    ASSUME TypeOK, StockInv, BackInv, UomsKept, UNCHANGED item, NEW r \in ReservationIds,
           NEW q \in Quantities, IssueReservedStock(r, q)
    PROVE  BackInv'
<1> DEFINE row == reservation[r]
           p == row.position
           remaining == row.remaining_qty - q
           next == IF remaining <= 0 THEN "FULLY_ISSUED" ELSE "PARTIALLY_ISSUED"
           Of(n) == StockQuantity(item[p[1]].uoms, n, row.uom)
<1>1. /\ Live(r) /\ q \in Nat /\ q # 0 /\ q <= row.remaining_qty
      /\ PositionUsable(p)
      /\ PostMovementTransaction(p, "ISSUE", q, row.uom, q)
      /\ reservation' = [reservation EXCEPT ![r].issued_qty = @ + q,
                                            ![r].remaining_qty = remaining,
                                            ![r].status = next]
  BY QuantitiesAssumption DEF IssueReservedStock, IssueStock
<1>2. row \in ReservationRows /\ row # None
  BY <1>1 DEF Live, TypeOK
<1>3. p \in Positions /\ row.uom \in Uoms /\ row.remaining_qty \in Nat
  BY <1>2 DEF ReservationRows
<1>4. item[p[1]] # None /\ item[p[1]].uoms \in UomConfigs
  BY <1>1, <1>3, UsableItem, EnteredQuantity
<1>5. /\ Of(q) \in Nat /\ Of(0) = 0 /\ Of(row.remaining_qty) \in Nat
      /\ Of(remaining) = Of(row.remaining_qty) - Of(q)
  <2>1. /\ Of(q) \in Nat /\ Of(0) = 0 /\ Of(row.remaining_qty) \in Nat
    BY <1>1, <1>3, <1>4, EnteredQuantity
  <2>2. q \in Int /\ row.remaining_qty \in Int
    BY <1>1, <1>3
  <2>3. Of(remaining) = Of(row.remaining_qty) - Of(q)
    BY <1>4, <2>2, StockQuantityLinear
  <2> QED BY <2>1, <2>3
<1>6. Held' = [Held EXCEPT ![p] = Held[p] - Of(q)]
  <2> DEFINE Q == Of(q)
  <2>1. OnHandDelta("ISSUE", Q) = -Q
    BY DEF OnHandDelta, Inbound
  <2>2. MovementBalance(p, "ISSUE", q, row.uom, q) = PostedBalance(p, -Q, -Q)
    BY <2>1 DEF MovementBalance
  <2>3. balance' = [balance EXCEPT ![p] = PostedBalance(p, -Q, -Q)]
    BY <1>1, <2>2 DEF PostMovementTransaction
  <2>4. Q \in Nat
    BY <1>5
  <2> HIDE DEF p, Q
  <2>5. -Q \in Int
    BY <2>4
  <2>6. Held' = [Held EXCEPT ![p] = Held[p] + (-Q)]
    BY <1>3, <1>4, <2>3, <2>5, Rebalances
  <2>7. Held[p] \in Nat
    BY <1>3, UnitsType DEF Units
  <2>8. Held[p] + (-Q) = Held[p] - Q
    BY <2>4, <2>7
  <2>9. Held' = [Held EXCEPT ![p] = Held[p] - Q]
    BY <2>6, <2>8
  <2> QED BY <2>9 DEF Q
<1>7. /\ reservation'[r] = [row EXCEPT !.issued_qty = @ + q,
                                       !.remaining_qty = remaining, !.status = next]
      /\ \A x \in ReservationIds \ {r} : reservation'[x] = reservation[x]
  BY <1>1 DEF TypeOK
<1>8. /\ reservation'[r].position = p /\ reservation'[r].uom = row.uom
      /\ reservation'[r].remaining_qty = remaining /\ reservation'[r].status = next
      /\ reservation'[r] # None
  <2>1. reservation'[r] \in ReservationRows
    <3>1. next \in ReservationStatuses
      BY DEF ReservationStatuses
    <3>2. remaining \in Nat /\ row.issued_qty + q \in Nat
      BY <1>1, <1>2 DEF ReservationRows
    <3> HIDE DEF next, remaining
    <3> QED BY <1>2, <1>7, <3>1, <3>2 DEF ReservationRows
  <2>2. reservation'[r] # None
    BY <2>1, ReservationRowsAssumption
  <2> HIDE DEF next, remaining
  <2> QED BY <1>2, <1>7, <2>2 DEF ReservationRows
<1>9. Live(r)' <=> remaining # 0
  <2>1. remaining \in Nat
    BY <1>1, <1>3
  <2> HIDE DEF remaining
  <2> QED BY <1>8, <2>1 DEF Live, LiveStatuses
<1>10. ASSUME NEW x \in Positions
       PROVE  /\ Contribution(x)[r] = IF x = p THEN Of(row.remaining_qty) ELSE 0
              /\ Contribution(x)'[r] = IF x = p THEN Of(row.remaining_qty) - Of(q) ELSE 0
  <2>1. Contribution(x)[r] = IF x = p THEN Of(row.remaining_qty) ELSE 0
    BY <1>1, RowContribution
  <2>2. Contribution(x)'[r] = IF remaining # 0 /\ x = p THEN Of(remaining) ELSE 0
    <3> HIDE DEF remaining
    <3> QED BY <1>8, <1>9, RowContribution
  <2>3. remaining = 0 => Of(remaining) = 0
    BY <1>5
  <2> HIDE DEF Of, remaining
  <2> QED BY <1>5, <2>1, <2>2, <2>3
<1>12. Held \in [Positions -> Nat]
  BY UnitsType DEF Units
<1>13. item'[reservation'[r].position[1]] # None
  BY <1>4, <1>8
<1> HIDE DEF row, p, remaining, next, Of
<1>14. \A x \in Positions : /\ Contribution(x)'[r] \in Int
                            /\ Held'[x] = Held[x] + Contribution(x)'[r] - Contribution(x)[r]
  BY <1>3, <1>5, <1>6, <1>10, <1>12
<1> QED BY <1>7, <1>13, <1>14, BackRow

(* A release or a cancellation gives back what its reservation still contributed. *)
LEMMA CloseBacks ==
    ASSUME TypeOK, StockInv, BackInv, UomsKept, UNCHANGED item, NEW r \in ReservationIds,
           NEW status \in {"RELEASED", "CANCELLED"}, CloseReservation(r, status)
    PROVE  BackInv'
<1> DEFINE row == reservation[r]
           p == row.position
           Q == StockQuantity(item[p[1]].uoms, row.remaining_qty, row.uom)
<1>1. /\ Live(r) /\ PositionUsable(p)
      /\ PostReservationTransaction(p, "RESERVATION_RELEASE", row.remaining_qty, row.uom)
      /\ reservation' = [reservation EXCEPT ![r].remaining_qty = 0, ![r].status = status]
  BY DEF CloseReservation, Closable, ReleaseHold
<1>2. row \in ReservationRows /\ row # None
  BY <1>1 DEF Live, TypeOK
<1>3. p \in Positions /\ row.uom \in Uoms /\ row.remaining_qty \in Nat
  BY <1>2 DEF ReservationRows
<1>4. item[p[1]] # None /\ Q \in Nat
  BY <1>1, <1>3, UsableItem, EnteredQuantity
<1>5. Held' = [Held EXCEPT ![p] = Held[p] - Q]
  <2>1. Effect(p, 0, -Q)
    BY <1>1, <1>3, ReservationEffect
  <2> HIDE DEF p, Q
  <2>2. Held' = [Held EXCEPT ![p] = Held[p] + (-Q)]
    BY <1>3, <1>4, <2>1, Rebalances DEF Effect
  <2>3. Held[p] \in Nat
    BY <1>3, UnitsType DEF Units
  <2>4. Held[p] + (-Q) = Held[p] - Q
    BY <1>4, <2>3
  <2> QED BY <2>2, <2>4
<1>6. /\ reservation'[r] = [row EXCEPT !.remaining_qty = 0, !.status = status]
      /\ \A x \in ReservationIds \ {r} : reservation'[x] = reservation[x]
  BY <1>1 DEF TypeOK
<1>7. reservation'[r].position = p /\ reservation'[r].status = status
  BY <1>2, <1>6 DEF ReservationRows
<1>8. ~Live(r)'
  BY <1>7 DEF Live, LiveStatuses
<1>9. ASSUME NEW x \in Positions
      PROVE  /\ Contribution(x)[r] = IF x = p THEN Q ELSE 0
             /\ Contribution(x)'[r] = 0
  BY <1>1, <1>8, RowContribution
<1>11. Held \in [Positions -> Nat]
  BY UnitsType DEF Units
<1>12. item'[reservation'[r].position[1]] # None
  BY <1>4, <1>7
<1> HIDE DEF row, p, Q
<1>13. \A x \in Positions : /\ Contribution(x)'[r] \in Int
                            /\ Held'[x] = Held[x] + Contribution(x)'[r] - Contribution(x)[r]
  BY <1>3, <1>4, <1>5, <1>9, <1>11
<1> QED BY <1>6, <1>12, <1>13, BackRow

(* The stock screens never touch a reserved quantity. *)
LEMMA StockNextHeld ==
    ASSUME TypeOK, StockInv, StockNext
    PROVE  Held' = Held
<1> USE QuantitiesAssumption
<1>0. Held \in [Positions -> Nat]
  BY UnitsType DEF Units
<1>1. ASSUME NEW p, NEW d, Effect(p, d, 0) PROVE Held' = Held
  <2>1. Held' = [Held EXCEPT ![p] = Held[p] + 0]
    BY <1>1, Rebalances DEF Effect
  <2>2. p \in Positions
    BY <1>1 DEF Effect
  <2> QED BY <1>0, <2>1, <2>2
<1>2. ASSUME NEW p \in Positions, NEW q \in Quantities, NEW u \in Uoms, NEW type,
             PositionUsable(p), PostTransaction(p, type, q, u)
      PROVE  Held' = Held
  BY <1>1, <1>2, TransactionEffect
<1>3. ASSUME NEW p \in Positions, NEW q \in Quantities, NEW u \in Uoms, NEW type,
             PositionUsable(p), PostMovementTransaction(p, type, q, u, 0)
      PROVE  Held' = Held
  <2> DEFINE d == OnHandDelta(type, StockQuantity(item[p[1]].uoms, q, u))
  <2>1. item[p[1]] # None /\ MovementAllowed(p, type, q, u, 0)
    BY <1>3, UsableItem DEF PostMovementTransaction
  <2>2. d \in Int /\ MovementBalance(p, type, q, u, 0) = PostedBalance(p, d, 0)
    BY <2>1, MovementEffect
  <2>3. balance' = [balance EXCEPT ![p] = PostedBalance(p, d, 0)]
    BY <1>3, <2>2 DEF PostMovementTransaction
  <2> HIDE DEF d
  <2>4. Effect(p, d, 0)
    BY <2>1, <2>2, <2>3 DEF Effect
  <2> QED BY <1>1, <2>4
<1>4. ASSUME NEW i \in Items, NEW s \in StoreroomIds, NEW t \in StoreroomIds,
             NEW q \in Quantities, NEW u \in Uoms, TransferStock(i, s, t, q, u)
      PROVE  Held' = Held
  BY <1>4, TransferEffect
<1> QED BY <1>2, <1>3, <1>4 DEF StockNext, PostOpeningBalance, PostAdjustment, IssueStock,
             ReturnStock

(* Every step that keeps the items' units keeps the reserved quantities backed. *)
LEMMA BackStep ==
    TypeOK /\ StockInv /\ BackInv /\ [Next]_vars /\ [UomsKept]_vars => BackInv'
<1> SUFFICES ASSUME TypeOK, StockInv, BackInv, [Next]_vars, [UomsKept]_vars PROVE BackInv'
  OBVIOUS
<1>1. TypeOK'
  BY TypeStep
<1>2. UomsKept
  BY DEF UomsKept, vars
<1>3. CASE UNCHANGED <<balance, reservation>>
  BY <1>1, <1>2, <1>3, UnitsKept, BackKept
<1>4. CASE StockNext /\ UNCHANGED reservation
  BY <1>1, <1>2, <1>4, StockNextHeld, BackKept
<1>5. CASE ReservationNext /\ UNCHANGED item
  BY <1>2, <1>5, CreateBacks, IssueBacks, CloseBacks
     DEF ReservationNext, ReleaseReservation, CancelReservation
<1> QED BY <1>3, <1>4, <1>5 DEF Next, vars

(* Nothing is reserved in the beginning. *)
LEMMA InitBacked == Init => BackInv
<1> SUFFICES ASSUME Init PROVE BackInv
  OBVIOUS
<1>1. Rows = {}
  BY DEF Rows, Init
<1>2. ASSUME NEW p \in Positions
      PROVE  SumFunction([r \in LiveAt(p) |-> HeldQuantity(r)]) = 0
  <2> DEFINE h == [r \in LiveAt(p) |-> HeldQuantity(r)]
  <2>1. DOMAIN h = {}
    BY <1>1 DEF LiveAt, Live, Rows
  <2> HIDE DEF h
  <2>2. SumFunction(h) = 0
    BY <2>1, SumEmpty DEF SumFunction
  <2> QED BY <2>2 DEF h
<1>3. ReservedBacksReservations
  BY <1>2 DEF ReservedBacksReservations, Init, StockInit
<1> QED BY <1>1, <1>3, FS_EmptySet DEF BackInv, ReservedItems

(* As long as no item's units of measure are changed, what a balance holds as reserved
   is what its live reservations still have to issue, in the stock unit. *)
THEOREM ReservationsBacked == Spec /\ [][UomsKept]_vars => []ReservedBacksReservations
<1>1. Init => BackInv
  BY InitBacked
<1>2. BackInv => ReservedBacksReservations
  BY DEF BackInv
<1> QED BY <1>1, <1>2, BackStep, TypeCorrect, StockConsistent, PTL DEF Spec

-----------------------------------------------------------------------------
(* A live reservation can be released

   What its release needs of the balance is that its own part of the hold is still
   there, and that is what the sum over all live reservations says.                 *)

(* A reservation is in a unit its item has, and a live one has something left. *)
OpenRow(r) ==
    /\ SupportsUom(item[reservation[r].position[1]].uoms, reservation[r].uom)
    /\ Live(r) => reservation[r].remaining_qty > 0

OpenRows == \A r \in Rows : OpenRow(r)

(* A row that nobody writes stays so. *)
LEMMA OpenKept ==
    ASSUME TypeOK, ReservedItems, UomsKept, OpenRows, NEW r \in ReservationIds,
           reservation'[r] = reservation[r], reservation[r] # None
    PROVE  OpenRow(r)'
<1>1. r \in Rows /\ OpenRow(r) /\ reservation[r] \in ReservationRows
  BY DEF Rows, OpenRows, TypeOK
<1>2. reservation[r].position[1] \in Items
  BY <1>1 DEF ReservationRows, Positions
<1>3. item'[reservation[r].position[1]].uoms = item[reservation[r].position[1]].uoms
  BY <1>1, <1>2 DEF ReservedItems, UomsKept
<1>4. Live(r)' <=> Live(r)
  BY DEF Live
<1> QED BY <1>1, <1>3, <1>4 DEF OpenRow

(* So does a row written by one of the reservation service's operations. *)
LEMMA OpenWritten ==
    ASSUME TypeOK, UNCHANGED item, OpenRows, NEW r \in ReservationIds,
           \/ \E p \in Positions, q \in Quantities, u \in Uoms : CreateReservation(r, p, q, u)
           \/ \E q \in Quantities : IssueReservedStock(r, q)
           \/ \E status \in {"RELEASED", "CANCELLED"} : CloseReservation(r, status)
    PROVE  /\ OpenRow(r)'
           /\ \A x \in ReservationIds \ {r} : reservation'[x] = reservation[x]
<1>1. CASE \E p \in Positions, q \in Quantities, u \in Uoms : CreateReservation(r, p, q, u)
  <2>1. PICK p \in Positions, q \in Quantities, u \in Uoms : CreateReservation(r, p, q, u)
    BY <1>1
  <2>2. SupportsUom(item[p[1]].uoms, u) /\ q > 0
    BY <2>1, QuantitiesAssumption
       DEF CreateReservation, HoldReservation, PostReservationTransaction, ReservationAllowed
  <2>3. /\ reservation'[r].position = p /\ reservation'[r].uom = u
        /\ reservation'[r].remaining_qty = q
        /\ \A x \in ReservationIds \ {r} : reservation'[x] = reservation[x]
    BY <2>1 DEF CreateReservation, TypeOK
  <2> QED BY <2>2, <2>3 DEF OpenRow
<1>2. CASE \/ \E q \in Quantities : IssueReservedStock(r, q)
           \/ \E status \in {"RELEASED", "CANCELLED"} : CloseReservation(r, status)
  <2>1. reservation[r] \in ReservationRows /\ r \in Rows /\ OpenRow(r)
    BY <1>2 DEF IssueReservedStock, CloseReservation, Closable, Live, TypeOK, Rows, OpenRows
  <2>2. CASE \E q \in Quantities : IssueReservedStock(r, q)
    <3>1. PICK q \in Quantities : IssueReservedStock(r, q)
      BY <2>2
    <3>2. PICK left \in Nat : left = reservation[r].remaining_qty - q
      <4>1. q \in Nat /\ q <= reservation[r].remaining_qty /\ reservation[r].remaining_qty \in Nat
        BY <2>1, <3>1, QuantitiesAssumption DEF IssueReservedStock, ReservationRows
      <4>2. reservation[r].remaining_qty - q \in Nat
        BY <4>1
      <4> QED BY <4>2
    <3> DEFINE next == IF left <= 0 THEN "FULLY_ISSUED" ELSE "PARTIALLY_ISSUED"
    <3>3. reservation' = [reservation EXCEPT ![r].issued_qty = @ + q, ![r].remaining_qty = left,
                                             ![r].status = next]
      BY <3>1, <3>2 DEF IssueReservedStock
    <3>4. /\ reservation'[r].position = reservation[r].position
          /\ reservation'[r].uom = reservation[r].uom
          /\ reservation'[r].remaining_qty = left /\ reservation'[r].status = next
          /\ \A x \in ReservationIds \ {r} : reservation'[x] = reservation[x]
      BY <2>1, <3>3 DEF TypeOK, ReservationRows
    <3>5. Live(r)' => left > 0
      BY <3>4 DEF Live, LiveStatuses
    <3> QED BY <2>1, <3>4, <3>5 DEF OpenRow
  <2>3. CASE \E status \in {"RELEASED", "CANCELLED"} : CloseReservation(r, status)
    <3>1. PICK status \in {"RELEASED", "CANCELLED"} : CloseReservation(r, status)
      BY <2>3
    <3>2. /\ reservation'[r].position = reservation[r].position
          /\ reservation'[r].uom = reservation[r].uom /\ reservation'[r].status = status
          /\ \A x \in ReservationIds \ {r} : reservation'[x] = reservation[x]
      BY <2>1, <3>1 DEF CloseReservation, TypeOK, ReservationRows
    <3>3. ~Live(r)'
      BY <3>2 DEF Live, LiveStatuses
    <3> QED BY <2>1, <3>2, <3>3 DEF OpenRow
  <2> QED BY <1>2, <2>2, <2>3
<1> QED BY <1>1, <1>2

LEMMA OpenStep ==
    TypeOK /\ BackInv /\ OpenRows /\ [Next]_vars /\ [UomsKept]_vars => OpenRows'
<1> SUFFICES ASSUME TypeOK, BackInv, OpenRows, [Next]_vars, [UomsKept]_vars,
                    NEW x \in ReservationIds, reservation'[x] # None
             PROVE  OpenRow(x)'
  BY DEF OpenRows, Rows
<1>1. UomsKept /\ ReservedItems
  BY DEF UomsKept, vars, BackInv
<1>2. CASE UNCHANGED reservation
  BY <1>1, <1>2, OpenKept
<1>3. CASE ReservationNext /\ UNCHANGED item
  <2>1. PICK r \in ReservationIds :
           \/ \E p \in Positions, q \in Quantities, u \in Uoms : CreateReservation(r, p, q, u)
           \/ \E q \in Quantities : IssueReservedStock(r, q)
           \/ \E status \in {"RELEASED", "CANCELLED"} : CloseReservation(r, status)
    BY <1>3 DEF ReservationNext, ReleaseReservation, CancelReservation
  <2>2. OpenRow(r)' /\ \A y \in ReservationIds \ {r} : reservation'[y] = reservation[y]
    BY <1>3, <2>1, OpenWritten
  <2> QED BY <1>1, <2>2, OpenKept
<1> QED BY <1>2, <1>3 DEF Next, vars

(* The hold of one live reservation is part of what its balance holds. *)
LEMMA OwnHold ==
    ASSUME TypeOK, BackInv, NEW r \in ReservationIds, Live(r)
    PROVE  HeldQuantity(r) \in Nat /\ HeldQuantity(r) <= Held[reservation[r].position]
<1>1. PICK p \in Positions : p = reservation[r].position /\ r \in Rows /\ r \in LiveAt(p)
  BY DEF Live, TypeOK, ReservationRows, Rows, LiveAt
<1>2. PICK f : f = Contribution(p)
  OBVIOUS
<1>3. ASSUME NEW x \in Rows
      PROVE  f[x] \in Nat
  <2>1. reservation[x] \in ReservationRows /\ item[reservation[x].position[1]] # None
    BY DEF Rows, TypeOK, BackInv, ReservedItems
  <2>2. HeldQuantity(x) \in Nat
    BY <2>1, EnteredQuantity DEF HeldQuantity, ReservationRows
  <2> QED BY <1>2, <2>2 DEF Contribution, Rows
<1>4. f[r] = HeldQuantity(r)
  BY <1>1, <1>2 DEF Contribution
<1>5. Held[p] = SumFunctionOnSet(f, Rows)
  <2>1. Held[p] = SumFunction([x \in LiveAt(p) |-> HeldQuantity(x)])
    BY DEF BackInv, ReservedBacksReservations, Held
  <2>2. SumFunction([x \in LiveAt(p) |-> HeldQuantity(x)]) = SumFunctionOnSet(Contribution(p), Rows)
    <3>1. \A x \in Rows : Contribution(p)[x] \in Int
      BY <1>2, <1>3
    <3> QED BY <3>1, ContributionSum DEF BackInv, Rows
  <2> QED BY <1>2, <2>1, <2>2
<1>6. IsFiniteSet(Rows)
  BY DEF BackInv
<1>7. f[r] <= SumFunctionOnSet(f, Rows)
  BY <1>1, <1>3, <1>6, SumBounds
<1> QED BY <1>1, <1>3, <1>4, <1>5, <1>7

(* So all checks of a release succeed: the hold is there, and giving it back leaves as
   much available as there is on hand without it. *)
LEMMA ReleaseAllowed ==
    ASSUME TypeOK, StockInv, BackInv, OpenRows, NEW r \in ReservationIds, Live(r),
           PositionUsable(reservation[r].position)
    PROVE  Closable(r, "RELEASED")
<1>1. PICK row \in ReservationRows : row = reservation[r]
  BY DEF Live, TypeOK
<1>2. PICK p \in Positions : p = row.position
  BY DEF ReservationRows
<1>3. PICK n \in Nat : n = row.remaining_qty /\ n # 0 /\ SupportsUom(item[p[1]].uoms, row.uom)
  <2>1. OpenRow(r)
    BY DEF OpenRows, Rows, Live
  <2> QED BY <1>1, <1>2, <2>1 DEF OpenRow, ReservationRows
<1>4. item[p[1]] # None
  BY <1>1, <1>2 DEF PositionUsable
<1>5. PICK Q \in Nat : Q = StockQuantity(item[p[1]].uoms, n, row.uom) /\ Q # 0
  BY <1>3, <1>4, EnteredQuantity
<1>6. Q <= Held[p]
  BY <1>1, <1>2, <1>3, <1>5, OwnHold DEF HeldQuantity
<1>7. PICK b \in BalanceRows : /\ b = balance[p] /\ balance[p] # None
                               /\ Q <= b.reserved_qty /\ b.reserved_qty <= b.on_hand_qty
  <2>1. balance[p] # None
    BY <1>5, <1>6 DEF Held
  <2>2. balance[p] \in BalanceRows /\ Held[p] = balance[p].reserved_qty
    BY <2>1 DEF TypeOK, StockTypeOK, Held
  <2> QED BY <1>6, <2>1, <2>2 DEF StockInv, BalanceConsistent, BalanceRows
<1>8. /\ PostedBalance(p, 0, -Q).reserved_qty = b.reserved_qty - Q
      /\ PostedBalance(p, 0, -Q).available_qty = b.on_hand_qty - (b.reserved_qty - Q)
  BY <1>7 DEF PostedBalance, CurrentBalance, Given, BalanceRows
<1>9. ReservationAllowed(p, "RESERVATION_RELEASE", n, row.uom)
  <2>1. /\ PostedBalance(p, 0, -Q).reserved_qty >= 0
        /\ PostedBalance(p, 0, -Q).available_qty >= 0
    BY <1>7, <1>8 DEF BalanceRows
  <2> QED BY <1>3, <1>5, <1>7, <2>1 DEF ReservationAllowed
<1>10. ValidTransition(row.status, "RELEASED", RESERVATION_STATUS_TRANSITIONS)
  BY <1>1 DEF Live, LiveStatuses, ValidTransition, RESERVATION_STATUS_TRANSITIONS
<1> QED BY <1>1, <1>2, <1>3, <1>9, <1>10 DEF Closable

(* Theorem LiveReservationsClose: as long as no item's units are changed, the release of a
   live reservation of a usable item and storeroom is never refused
   (_close_reservation and _post_reservation_transaction). *)
THEOREM LiveReservationsClose == Spec /\ [][UomsKept]_vars => []LiveReservationClosable
<1>1. Init => BackInv /\ OpenRows
  BY InitBacked DEF Init, OpenRows, Rows
<1>2. TypeOK /\ StockInv /\ BackInv /\ OpenRows => LiveReservationClosable
  BY ReleaseAllowed DEF LiveReservationClosable
<1> QED BY <1>1, <1>2, BackStep, OpenStep, TypeCorrect, StockConsistent, PTL DEF Spec

(* Theorem ClosableSuffices: the checks are all that stands between a live reservation and
   its release: with them, the rows that the release writes make a step of it. *)
THEOREM ClosableSuffices ==
    ASSUME NEW r \in ReservationIds, NEW p, p = reservation[r].position,
           NEW n, n = reservation[r].remaining_qty, NEW u, u = reservation[r].uom,
           Closable(r, "RELEASED"),
           NEW posted, posted = PostedBalance(p, 0, -StockQuantity(item[p[1]].uoms, n, u)),
           balance' = [balance EXCEPT ![p] = posted],
           ledger' = [ledger EXCEPT ![p] = PostedLedger(p, 0, u, posted)],
           reservation' = [reservation EXCEPT ![r].remaining_qty = 0, ![r].status = "RELEASED"],
           UNCHANGED <<item, storeroom>>
    PROVE  ReleaseReservation(r) /\ Next
<1>1. ReleaseHold(p, n, u)
  BY Zenon DEF Closable, ReleaseHold, PostReservationTransaction
<1>2. ReleaseReservation(r)
  BY <1>1, Zenon DEF ReleaseReservation, CloseReservation
<1> QED BY <1>2 DEF Next, ReservationNext

-----------------------------------------------------------------------------
(* The ledger explains the on-hand quantities *)

(* What the ledger rows of a position are worth in the stock UOM, by UOM. *)
LedgerTerms(p) ==
    [u \in Uoms |-> IF ledger[p] = None THEN 0
                    ELSE StockQuantity(item[p[1]].uoms, ledger[p].net[u], u)]

(* A position's ledger explains its balance, and its item exists. *)
LedgerAt(p) == /\ SumFunctionOnSet(LedgerTerms(p), Uoms) = OnHand(balance[p])
               /\ ledger[p] # None => item[p[1]] # None

LedgerInv == \A p \in Positions : LedgerAt(p)

(* The terms are quantities. *)
LEMMA LedgerTermsType ==
    ASSUME TypeOK, NEW p \in Positions, LedgerAt(p), NEW u \in Uoms
    PROVE  LedgerTerms(p)[u] \in Int
<1>1. CASE ledger[p] # None
  <2>1. ledger[p] \in LedgerRows
    BY <1>1 DEF TypeOK, StockTypeOK
  <2>2. ledger[p].net[u] \in Int
    BY <2>1 DEF LedgerRows
  <2>3. item[p[1]].uoms \in UomConfigs
    BY <1>1 DEF LedgerAt, TypeOK, ItemTypeOK, ItemRows, Positions
  <2>4. StockQuantity(item[p[1]].uoms, ledger[p].net[u], u) \in Int
    BY <2>2, <2>3, StockQuantityType
  <2> QED BY <1>1, <2>4 DEF LedgerTerms
<1>2. CASE ledger[p] = None
  BY <1>2 DEF LedgerTerms
<1> QED BY <1>1, <1>2

(* A step that leaves a position's rows and its item's units alone. *)
LEMMA LedgerAtKept ==
    ASSUME TypeOK, IsFiniteSet(Uoms), UomsKept, NEW p \in Positions, LedgerAt(p),
           ledger'[p] = ledger[p], balance'[p] = balance[p]
    PROVE  LedgerAt(p)'
<1>1. p[1] \in Items
  BY DEF Positions
<1>2. ledger[p] # None => item'[p[1]] # None /\ item'[p[1]].uoms = item[p[1]].uoms
  BY <1>1 DEF LedgerAt, UomsKept
<1>3. PICK f, g : f = LedgerTerms(p) /\ g = LedgerTerms(p)'
  OBVIOUS
<1>4. \A u \in Uoms : g[u] = f[u]
  BY <1>2, <1>3 DEF LedgerTerms
<1>5. SumFunctionOnSet(g, Uoms) = SumFunctionOnSet(f, Uoms)
  BY <1>4, SumSame
<1> QED BY <1>2, <1>3, <1>5 DEF LedgerAt

(* A posting whose ledger row is worth what it adds to the on-hand quantity. *)
LEMMA LedgerAtPosted ==
    ASSUME TypeOK, StockInv, IsFiniteSet(Uoms), UNCHANGED item, NEW p \in Positions,
           LedgerAt(p), item[p[1]] # None, NEW d \in Int, NEW r \in Int,
           NEW n \in Int, NEW uom \in Uoms, NEW posted,
           d = StockQuantity(item[p[1]].uoms, n, uom),
           balance'[p] = PostedBalance(p, d, r),
           ledger'[p] = PostedLedger(p, n, uom, posted), ledger'[p] # None
    PROVE  LedgerAt(p)'
<1> DEFINE config == item[p[1]].uoms
           old == IF ledger[p] = None THEN [u \in Uoms |-> 0] ELSE ledger[p].net
<1>1. config \in UomConfigs
  BY DEF TypeOK, ItemTypeOK, ItemRows, Positions
<1>2. old \in [Uoms -> Int]
  BY DEF TypeOK, StockTypeOK, LedgerRows
<1>3. ledger'[p].net = [old EXCEPT ![uom] = @ + n]
  BY DEF PostedLedger, Given
<1>4. PICK f, g : f = LedgerTerms(p) /\ g = LedgerTerms(p)'
  OBVIOUS
<1>5. \A u \in Uoms : /\ g[u] = StockQuantity(config, ledger'[p].net[u], u)
                      /\ f[u] = StockQuantity(config, old[u], u)
  <2>1. \A u \in Uoms : StockQuantity(config, 0, u) = 0
    BY <1>1, StockQuantityLinear
  <2> HIDE DEF config
  <2>2. \A u \in Uoms : g[u] = StockQuantity(config, ledger'[p].net[u], u)
    BY <1>4 DEF LedgerTerms, config
  <2>3. \A u \in Uoms : f[u] = StockQuantity(config, old[u], u)
    BY <1>4, <2>1 DEF LedgerTerms, config
  <2> QED BY <2>2, <2>3
<1> HIDE DEF old, config
<1>6. \A u \in Uoms \ {uom} : g[u] = f[u]
  BY <1>2, <1>3, <1>5
<1>7. g[uom] = f[uom] + d /\ f[uom] \in Int
  <2>1. ledger'[p].net[uom] = old[uom] + n /\ old[uom] \in Int
    BY <1>2, <1>3
  <2>2. StockQuantity(config, old[uom] + n, uom)
          = StockQuantity(config, old[uom], uom) + StockQuantity(config, n, uom)
    BY <1>1, <2>1, StockQuantityLinear
  <2>3. StockQuantity(config, old[uom], uom) \in Int
    BY <1>1, <2>1, StockQuantityType
  <2> QED BY <1>5, <2>1, <2>2, <2>3 DEF config
<1>8. SumFunctionOnSet(g, Uoms) = SumFunctionOnSet(f, Uoms) + g[uom] - f[uom]
  <2>1. \A u \in Uoms : f[u] \in Int
    BY <1>4, LedgerTermsType
  <2>2. g[uom] \in Int
    BY <1>7
  <2> QED BY <1>6, <2>1, <2>2, SumChange
<1>9. SumFunctionOnSet(f, Uoms) \in Int
  <2>1. \A u \in Uoms : f[u] \in Int
    BY <1>4, LedgerTermsType
  <2> QED BY <2>1, SumType
<1>10. OnHand(balance'[p]) = OnHand(balance[p]) + d
  <2>1. /\ PostedBalance(p, d, r) # None
        /\ PostedBalance(p, d, r).on_hand_qty = OnHand(balance[p]) + d
    BY PostedUnits
  <2> QED BY <2>1 DEF OnHand
<1>11. SumFunctionOnSet(f, Uoms) = OnHand(balance[p])
  BY <1>4 DEF LedgerAt
<1>12. SumFunctionOnSet(g, Uoms) = OnHand(balance'[p])
  BY <1>7, <1>8, <1>9, <1>10, <1>11
<1> QED BY <1>4, <1>12 DEF LedgerAt

(* The signed entered quantity is worth the signed stock quantity. *)
LEMMA SignedQuantity ==
    ASSUME NEW config \in UomConfigs, NEW type, NEW q \in Int, NEW u
    PROVE  /\ OnHandDelta(type, q) \in Int
           /\ OnHandDelta(type, StockQuantity(config, q, u)) \in Int
           /\ OnHandDelta(type, StockQuantity(config, q, u))
                = StockQuantity(config, OnHandDelta(type, q), u)
<1>1. StockQuantity(config, q, u) \in Int
  BY StockQuantityMonotone
<1>2. StockQuantity(config, -q, u) = -StockQuantity(config, q, u)
  BY StockQuantityLinear
<1>3. CASE type \in Inbound
  BY <1>1, <1>3 DEF OnHandDelta
<1>4. CASE type \notin Inbound
  BY <1>1, <1>2, <1>4 DEF OnHandDelta
<1> QED BY <1>3, <1>4

(* One position is posted and stays explained: so does every other. *)
LEMMA LedgerOne ==
    ASSUME TypeOK, IsFiniteSet(Uoms), UNCHANGED item, LedgerInv, NEW p \in Positions,
           PostsAt(p), LedgerAt(p)'
    PROVE  LedgerInv'
<1>1. UomsKept
  BY DEF UomsKept
<1>2. ASSUME NEW x \in Positions, x # p PROVE LedgerAt(x)'
  <2>1. ledger'[x] = ledger[x] /\ balance'[x] = balance[x]
    BY <1>2 DEF PostsAt, TypeOK, StockTypeOK
  <2>2. LedgerAt(x)
    BY DEF LedgerInv
  <2> QED BY <1>1, <2>1, <2>2, LedgerAtKept
<1>3. \A x \in Positions : LedgerAt(x)'
  BY <1>2
<1> QED BY <1>3 DEF LedgerInv

(* What PostsAt leaves at the position itself. *)
LEMMA PostsAtRow ==
    ASSUME TypeOK, NEW p \in Positions, PostsAt(p)
    PROVE  ledger'[p] # None
<1>1. PICK row \in LedgerRows : ledger' = [ledger EXCEPT ![p] = row]
  BY DEF PostsAt
<1>2. ledger'[p] = row
  BY <1>1 DEF TypeOK, StockTypeOK
<1> QED BY <1>2, RowsAssumption

(* _post_transaction books what it adds. *)
LEMMA TransactionLedger ==
    ASSUME TypeOK, StockInv, IsFiniteSet(Uoms), UNCHANGED item, LedgerInv,
           NEW p \in Positions, PositionUsable(p), NEW type,
           NEW q \in Quantities, NEW u \in Uoms, PostTransaction(p, type, q, u)
    PROVE  LedgerInv'
<1> DEFINE config == item[p[1]].uoms
           d == OnHandDelta(type, StockQuantity(config, q, u))
           n == OnHandDelta(type, q)
<1>1. item[p[1]] # None /\ config \in UomConfigs /\ q \in Int
  BY UsableItem, QuantitiesAssumption DEF TypeOK, ItemTypeOK, Positions, ItemRows
<1>2. PostsAt(p)
  BY PostTransactionType
<1>3. n \in Int /\ d \in Int /\ d = StockQuantity(config, n, u)
  BY <1>1, SignedQuantity
<1>4. /\ balance'[p] = PostedBalance(p, d, 0)
      /\ ledger'[p] = PostedLedger(p, n, u, PostedBalance(p, d, 0))
  BY DEF PostTransaction, TypeOK, StockTypeOK
<1>5. LedgerAt(p) /\ ledger'[p] # None
  BY <1>2, PostsAtRow DEF LedgerInv
<1> HIDE DEF d, n
<1>6. LedgerAt(p)'
  BY <1>1, <1>3, <1>4, <1>5, LedgerAtPosted
<1> QED BY <1>2, <1>6, LedgerOne

(* _post_reservation_transaction books nothing. *)
LEMMA ReservationLedger ==
    ASSUME TypeOK, StockInv, IsFiniteSet(Uoms), UNCHANGED item, LedgerInv,
           NEW p \in Positions, PositionUsable(p), NEW type,
           NEW q \in Nat, NEW u \in Uoms, PostReservationTransaction(p, type, q, u)
    PROVE  LedgerInv'
<1> DEFINE config == item[p[1]].uoms
           stock == StockQuantity(config, q, u)
           r == IF type = "RESERVATION_HOLD" THEN stock ELSE -stock
<1>1. item[p[1]] # None /\ config \in UomConfigs /\ stock \in Nat
  BY UsableItem, EnteredQuantity
<1>2. PostsAt(p)
  BY PostReservationType
<1>3. r \in Int /\ 0 = StockQuantity(config, 0, u)
  <2> HIDE DEF config
  <2>1. StockQuantity(config, 0, u) = 0
    BY <1>1, StockQuantityLinear
  <2> QED BY <1>1, <2>1
<1>4. /\ balance'[p] = PostedBalance(p, 0, r)
      /\ ledger'[p] = PostedLedger(p, 0, u, PostedBalance(p, 0, r))
  BY DEF PostReservationTransaction, ReservationAllowed, TypeOK, StockTypeOK
<1>5. LedgerAt(p) /\ ledger'[p] # None
  BY <1>2, PostsAtRow DEF LedgerInv
<1> HIDE DEF r
<1>6. LedgerAt(p)'
  BY <1>1, <1>3, <1>4, <1>5, LedgerAtPosted
<1> QED BY <1>2, <1>6, LedgerOne

(* A movement's ledger row is worth what the movement adds. *)
LEMMA MovementLedgerAt ==
    ASSUME TypeOK, StockInv, IsFiniteSet(Uoms), UNCHANGED item,
           NEW p \in Positions, LedgerAt(p), item[p[1]] # None, NEW type,
           NEW q \in Quantities, NEW u \in Uoms, NEW release \in Nat,
           balance'[p] = MovementBalance(p, type, q, u, release),
           ledger'[p] = MovementLedger(p, type, q, u, release)
    PROVE  LedgerAt(p)'
<1> DEFINE config == item[p[1]].uoms
           d == OnHandDelta(type, StockQuantity(config, q, u))
           n == OnHandDelta(type, q)
           r == -StockQuantity(config, release, u)
           posted == MovementBalance(p, type, q, u, release)
<1>1. config \in UomConfigs /\ q \in Int
  BY QuantitiesAssumption DEF TypeOK, ItemTypeOK, Positions, ItemRows
<1>2. n \in Int /\ d \in Int /\ d = StockQuantity(config, n, u)
  BY <1>1, SignedQuantity
<1>3. r \in Int
  <2>1. StockQuantity(config, release, u) \in Int
    BY <1>1, StockQuantityMonotone
  <2> HIDE DEF config
  <2> QED BY <2>1
<1>4. balance'[p] = PostedBalance(p, d, r) /\ ledger'[p] = PostedLedger(p, n, u, posted)
  BY DEF MovementBalance, MovementLedger
<1>5. ledger'[p] # None
  <2>1. MovementLedger(p, type, q, u, release) \in LedgerRows
    BY <1>1, MovementRowsType
  <2> QED BY <2>1, RowsAssumption
<1> HIDE DEF d, n, r, posted
<1> QED BY <1>2, <1>3, <1>4, <1>5, LedgerAtPosted

(* _post_movement_transaction books what it adds. *)
LEMMA MovementLedgerInv ==
    ASSUME TypeOK, StockInv, IsFiniteSet(Uoms), UNCHANGED item, LedgerInv,
           NEW p \in Positions, PositionUsable(p), NEW type,
           NEW q \in Quantities, NEW u \in Uoms, NEW release \in Nat,
           PostMovementTransaction(p, type, q, u, release)
    PROVE  LedgerInv'
<1>1. q \in Int /\ item[p[1]] # None
  BY QuantitiesAssumption, UsableItem
<1>2. PostsAt(p)
  BY <1>1, PostMovementType
<1>3. /\ balance'[p] = MovementBalance(p, type, q, u, release)
      /\ ledger'[p] = MovementLedger(p, type, q, u, release)
  BY DEF PostMovementTransaction, TypeOK, StockTypeOK
<1>4. LedgerAt(p)'
  BY <1>1, <1>3, MovementLedgerAt DEF LedgerInv
<1> QED BY <1>2, <1>4, LedgerOne

(* transfer_stock books both halves. *)
LEMMA TransferLedger ==
    ASSUME TypeOK, StockInv, IsFiniteSet(Uoms), UNCHANGED item, LedgerInv,
           NEW i \in Items, NEW s \in StoreroomIds, NEW t \in StoreroomIds,
           NEW q \in Quantities, NEW u \in Uoms, TransferStock(i, s, t, q, u)
    PROVE  LedgerInv'
<1> DEFINE from == <<i, s>>
           to == <<i, t>>
<1>1. /\ from \in Positions /\ to \in Positions /\ from # to
      /\ item[from[1]] # None /\ item[to[1]] # None
  BY DEF Positions, TransferStock, PositionUsable
<1>2. ASSUME NEW x \in Positions
      PROVE  /\ balance'[x] = IF x = to THEN MovementBalance(to, "TRANSFER_IN", q, u, 0)
                              ELSE IF x = from
                                   THEN MovementBalance(from, "TRANSFER_OUT", q, u, 0)
                                   ELSE balance[x]
             /\ ledger'[x] = IF x = to THEN MovementLedger(to, "TRANSFER_IN", q, u, 0)
                             ELSE IF x = from
                                  THEN MovementLedger(from, "TRANSFER_OUT", q, u, 0)
                                  ELSE ledger[x]
  BY <1>1 DEF TransferStock, TypeOK, StockTypeOK
<1> HIDE DEF from, to
<1>3. LedgerAt(from)'
  BY <1>1, <1>2, MovementLedgerAt DEF LedgerInv
<1>4. LedgerAt(to)'
  BY <1>1, <1>2, MovementLedgerAt DEF LedgerInv
<1>5. ASSUME NEW x \in Positions, x # from, x # to PROVE LedgerAt(x)'
  BY <1>2, <1>5, LedgerAtKept DEF LedgerInv, UomsKept
<1>6. \A x \in Positions : LedgerAt(x)'
  BY <1>3, <1>4, <1>5
<1> QED BY <1>6 DEF LedgerInv

(* Every step that keeps the items' units keeps the ledger explaining the balances. *)
LEMMA LedgerStep ==
    ASSUME IsFiniteSet(Uoms)
    PROVE  TypeOK /\ StockInv /\ LedgerInv /\ [Next]_vars /\ [UomsKept]_vars => LedgerInv'
<1> SUFFICES ASSUME TypeOK, StockInv, LedgerInv, [Next]_vars, [UomsKept]_vars
             PROVE  LedgerInv'
  OBVIOUS
<1> USE QuantitiesAssumption
<1>1. UomsKept
  BY DEF UomsKept, vars
<1>2. CASE UNCHANGED <<balance, ledger>>
  <2>1. ASSUME NEW p \in Positions PROVE LedgerAt(p)'
    BY <1>1, <1>2, LedgerAtKept DEF LedgerInv
  <2> QED BY <2>1 DEF LedgerInv
<1>3. CASE StockNext /\ UNCHANGED item
  <2>1. ASSUME NEW p \in Positions, NEW q \in Quantities, NEW u \in Uoms,
               PostOpeningBalance(p, q, u)
        PROVE  LedgerInv'
    BY <1>3, <2>1, TransactionLedger DEF PostOpeningBalance
  <2>2. ASSUME NEW p \in Positions, NEW q \in Quantities, NEW u \in Uoms, NEW type,
               PostAdjustment(p, type, q, u)
        PROVE  LedgerInv'
    BY <1>3, <2>2, TransactionLedger DEF PostAdjustment
  <2>3. ASSUME NEW p \in Positions, NEW q \in Quantities, NEW u \in Uoms,
               IssueStock(p, q, u, 0)
        PROVE  LedgerInv'
    BY <1>3, <2>3, MovementLedgerInv DEF IssueStock
  <2>4. ASSUME NEW p \in Positions, NEW q \in Quantities, NEW u \in Uoms,
               ReturnStock(p, q, u)
        PROVE  LedgerInv'
    BY <1>3, <2>4, MovementLedgerInv DEF ReturnStock
  <2> QED BY <1>3, <2>1, <2>2, <2>3, <2>4, TransferLedger DEF StockNext
<1>4. CASE ReservationNext /\ UNCHANGED item
  <2>1. ASSUME NEW r \in ReservationIds, NEW p \in Positions, NEW q \in Quantities,
               NEW u \in Uoms, CreateReservation(r, p, q, u)
        PROVE  LedgerInv'
    <3>1. q \in Nat
      OBVIOUS
    <3> QED BY <1>4, <2>1, <3>1, ReservationLedger DEF CreateReservation, HoldReservation
  <2>2. ASSUME NEW r \in ReservationIds, NEW q \in Quantities, IssueReservedStock(r, q)
        PROVE  LedgerInv'
    <3>1. /\ reservation[r].position \in Positions
          /\ reservation[r].uom \in Uoms /\ q \in Nat
      BY <2>2 DEF IssueReservedStock, Live, TypeOK, ReservationRows
    <3> QED BY <1>4, <2>2, <3>1, MovementLedgerInv DEF IssueReservedStock, IssueStock
  <2>3. ASSUME NEW r \in ReservationIds, NEW status, CloseReservation(r, status)
        PROVE  LedgerInv'
    <3>1. /\ reservation[r].position \in Positions
          /\ reservation[r].uom \in Uoms
          /\ reservation[r].remaining_qty \in Nat
      BY <2>3 DEF CloseReservation, Closable, Live, TypeOK, ReservationRows
    <3> QED BY <1>4, <2>3, <3>1, ReservationLedger DEF CloseReservation, Closable, ReleaseHold
  <2> QED BY <1>4, <2>1, <2>2, <2>3
          DEF ReservationNext, ReleaseReservation, CancelReservation
<1> QED BY <1>2, <1>3, <1>4 DEF Next, vars

(* As long as no item's units of measure are changed, the on-hand quantity of every
   balance is what its ledger rows add up to, converted to the stock unit. *)
THEOREM LedgerExplains ==
    ASSUME IsFiniteSet(Uoms)
    PROVE  Spec /\ [][UomsKept]_vars => []LedgerExplainsOnHand
<1>1. Init => LedgerInv
  <2> SUFFICES ASSUME Init PROVE LedgerInv
    OBVIOUS
  <2>1. ASSUME NEW p \in Positions PROVE LedgerAt(p)
    <3>1. PICK f : f = LedgerTerms(p)
      OBVIOUS
    <3>2. \A u \in Uoms : f[u] = 0
      BY <3>1 DEF LedgerTerms, Init, StockInit
    <3>3. SumFunctionOnSet(f, Uoms) = 0
      BY <3>2, SumZeros
    <3> QED BY <3>1, <3>3 DEF LedgerAt, OnHand, Init, StockInit
  <2> QED BY <2>1 DEF LedgerInv
<1>2. LedgerInv /\ StockInv => LedgerExplainsOnHand
  <2> SUFFICES ASSUME LedgerInv, StockInv, NEW p \in Positions, balance[p] # None
               PROVE  balance[p].on_hand_qty
                        = SumFunction([u \in Uoms |-> StockQuantity(item[p[1]].uoms,
                                                                    ledger[p].net[u], u)])
    BY DEF LedgerExplainsOnHand
  <2>1. ledger[p] # None /\ LedgerAt(p)
    BY DEF StockInv, LedgerIsCurrent, LedgerInv
  <2>2. LedgerTerms(p) = [u \in Uoms |-> StockQuantity(item[p[1]].uoms,
                                                       ledger[p].net[u], u)]
    BY <2>1 DEF LedgerTerms
  <2>3. DOMAIN LedgerTerms(p) = Uoms
    BY DEF LedgerTerms
  <2>4. balance[p].on_hand_qty = SumFunction(LedgerTerms(p))
    BY <2>1, <2>3 DEF LedgerAt, OnHand, SumFunction
  <2> QED BY <2>2, <2>4
<1> QED BY <1>1, <1>2, LedgerStep, TypeCorrect, StockConsistent, PTL DEF Spec
=============================================================================
