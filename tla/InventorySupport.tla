---------------------------- MODULE InventorySupport ----------------------------
(* The rules that every inventory service shares: the status transition tables,
   the check of a requested transition, and the conversion of a quantity from the
   unit of measure (UOM) a user entered into the item's stock UOM.

   Quantities are whole numbers of the finest unit and a UOM factor is a positive
   whole number; the source computes both in floating point, and its rounding is
   left out.  None stands for Python's None: an optional argument that was not
   given, or a row that does not exist.                                          *)
EXTENDS Integers

CONSTANTS None, Uoms

ASSUME NoneAssumption == /\ None \notin Uoms
                         /\ None \notin Int
                         /\ None \notin BOOLEAN
                         /\ None \notin STRING

-----------------------------------------------------------------------------
(* Status tables, as relations from a status to the statuses it may become. *)

ItemStatuses == {"DRAFT", "ACTIVE", "INACTIVE", "OBSOLETE"}

ITEM_STATUS_TRANSITIONS ==
    {<<"DRAFT", "ACTIVE">>, <<"ACTIVE", "INACTIVE">>, <<"ACTIVE", "OBSOLETE">>,
     <<"INACTIVE", "ACTIVE">>}

StoreroomStatuses == {"DRAFT", "ACTIVE", "INACTIVE", "CLOSED"}

STOREROOM_STATUS_TRANSITIONS ==
    {<<"DRAFT", "ACTIVE">>, <<"ACTIVE", "INACTIVE">>, <<"ACTIVE", "CLOSED">>,
     <<"INACTIVE", "ACTIVE">>}

ReservationStatuses ==
    {"ACTIVE", "PARTIALLY_ISSUED", "FULLY_ISSUED", "RELEASED", "CANCELLED"}

RESERVATION_STATUS_TRANSITIONS ==
    ({"ACTIVE"} \X {"PARTIALLY_ISSUED", "FULLY_ISSUED", "RELEASED", "CANCELLED"})
      \cup ({"PARTIALLY_ISSUED"} \X {"FULLY_ISSUED", "RELEASED"})

ValidTransition(current, next, transitions) ==
    next = current \/ <<current, next>> \in transitions

(* The status an update asks for: an explicit status wins over the active flag. *)
ResolveStatusFromActive(current, isActive) ==
    IF isActive THEN "ACTIVE"
    ELSE IF current = "ACTIVE" THEN "INACTIVE" ELSE current

(* What a caller may pass as <<status, is_active>>; with a status, is_active is not read. *)
StatusRequests(statuses) == (statuses \X {None}) \cup ({None} \X (BOOLEAN \cup {None}))

RequestedStatus(current, status, isActive) ==
    IF status # None THEN status
    ELSE IF isActive # None THEN ResolveStatusFromActive(current, isActive)
    ELSE current

-----------------------------------------------------------------------------
(* Units of measure.  A UOM configuration names the UOM balances are kept in, the
   UOM orders and issues are entered in, and how many stock units each is worth. *)

UomConfigs ==
    [stock_uom : Uoms, order_uom : Uoms, issue_uom : Uoms,
     order_uom_ratio : Nat \ {0}, issue_uom_ratio : Nat \ {0}]

(* The optional UOM arguments of create_item and update_item. *)
UomRequests ==
    [stock_uom : Uoms \cup {None}, order_uom : Uoms \cup {None},
     issue_uom : Uoms \cup {None},
     order_uom_ratio : Int \cup {None}, issue_uom_ratio : Int \cup {None}]

(* resolve_configured_uom_ratio: the stock UOM is worth one whatever was given. *)
ConfiguredRatioValid(uom, stockUom, ratio) ==
    uom = stockUom \/ (ratio # None /\ ratio > 0)

ConfiguredRatio(uom, stockUom, ratio) == IF uom = stockUom THEN 1 ELSE ratio

SupportsUom(item, uom) == uom \in {item.stock_uom, item.order_uom, item.issue_uom}

UomFactor(item, uom) ==
    IF uom = item.stock_uom THEN 1
    ELSE IF uom = item.order_uom THEN item.order_uom_ratio
    ELSE item.issue_uom_ratio

(* convert_item_quantity with to_uom = item.stock_uom, the only use on a balance. *)
StockQuantity(item, quantity, uom) == quantity * UomFactor(item, uom)
=============================================================================
