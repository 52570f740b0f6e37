------------------------------- MODULE ItemMaster -------------------------------
(* ItemMasterService: the stock items and the two operations that write them.
   Of an item row the model keeps what the stock services read: its status, whether
   it is stocked, and its UOM configuration.  No operation looks at balances or
   reservations, which is what makes an update dangerous to them.               *)
EXTENDS InventorySupport

CONSTANTS Items,        \* the items that may be created
          UomCreations, \* UOM arguments a caller may create an item with
          UomUpdates    \* UOM arguments a caller may update an item with

ASSUME UomInputsAssumption ==
    /\ UomCreations \subseteq {u \in UomRequests : u.stock_uom # None}
    /\ UomUpdates \subseteq UomRequests

VARIABLE item

ItemRows == [status : ItemStatuses, is_stocked : BOOLEAN, uoms : UomConfigs]

ItemTypeOK == item \in [Items -> ItemRows \cup {None}]

ItemInit == item = [i \in Items |-> None]

(* _validate_uom_configuration: one UOM code has one factor. *)
UomConfigurationConsistent(config) ==
    config.order_uom = config.issue_uom
      => config.order_uom_ratio = config.issue_uom_ratio

Given(value, default) == IF value # None THEN value ELSE default

(* The UOM configuration an update leaves: an order or issue UOM that followed the
   old stock UOM follows the new one. *)
UpdatedUoms(old, request) ==
    LET stock == Given(request.stock_uom, old.stock_uom)
        follow(given, previous) ==
            IF given # None THEN given
            ELSE IF request.stock_uom # None /\ previous = old.stock_uom THEN stock
            ELSE previous
        order == follow(request.order_uom, old.order_uom)
        issue == follow(request.issue_uom, old.issue_uom)
    IN  [stock_uom |-> stock, order_uom |-> order, issue_uom |-> issue,
         order_uom_ratio |-> ConfiguredRatio(order, stock,
                                 Given(request.order_uom_ratio, old.order_uom_ratio)),
         issue_uom_ratio |-> ConfiguredRatio(issue, stock,
                                 Given(request.issue_uom_ratio, old.issue_uom_ratio))]

(* The checks of update_item on it.  A new stock UOM voids the old factors. *)
UomUpdateAllowed(old, request) ==
    LET new == UpdatedUoms(old, request)
    IN  /\ (request.stock_uom # None /\ new.order_uom # new.stock_uom)
             => request.order_uom_ratio # None
        /\ (request.stock_uom # None /\ new.issue_uom # new.stock_uom)
             => request.issue_uom_ratio # None
        /\ ConfiguredRatioValid(new.order_uom, new.stock_uom,
                                Given(request.order_uom_ratio, old.order_uom_ratio))
        /\ ConfiguredRatioValid(new.issue_uom, new.stock_uom,
                                Given(request.issue_uom_ratio, old.issue_uom_ratio))
        /\ UomConfigurationConsistent(new)

(* create_item: order and issue UOM default to the stock UOM. *)
CreatedUoms(request) ==
    LET stock == request.stock_uom
        order == Given(request.order_uom, stock)
        issue == Given(request.issue_uom, stock)
    IN  [stock_uom |-> stock, order_uom |-> order, issue_uom |-> issue,
         order_uom_ratio |-> ConfiguredRatio(order, stock, request.order_uom_ratio),
         issue_uom_ratio |-> ConfiguredRatio(issue, stock, request.issue_uom_ratio)]

CreateItem(i, status, stocked, request) ==
    LET uoms == CreatedUoms(request)
    IN  /\ item[i] = None
        /\ ConfiguredRatioValid(uoms.order_uom, uoms.stock_uom, request.order_uom_ratio)
        /\ ConfiguredRatioValid(uoms.issue_uom, uoms.stock_uom, request.issue_uom_ratio)
        /\ UomConfigurationConsistent(uoms)
        /\ item' = [item EXCEPT ![i] = [status |-> status, is_stocked |-> stocked,
                                        uoms |-> uoms]]

UpdateItem(i, status, isActive, stocked, request) ==
    /\ item[i] # None
    /\ UomUpdateAllowed(item[i].uoms, request)
    /\ LET next == RequestedStatus(item[i].status, status, isActive)
       IN  /\ ValidTransition(item[i].status, next, ITEM_STATUS_TRANSITIONS)
           /\ item' = [item EXCEPT
                 ![i] = [status |-> next,
                         is_stocked |-> Given(stocked, item[i].is_stocked),
                         uoms |-> UpdatedUoms(item[i].uoms, request)]]

ItemNext ==
    \E i \in Items :
        \/ \E status \in ItemStatuses, stocked \in BOOLEAN, u \in UomCreations :
              CreateItem(i, status, stocked, u)
        \/ \E request \in StatusRequests(ItemStatuses),
              stocked \in BOOLEAN \cup {None}, u \in UomUpdates :
              UpdateItem(i, request[1], request[2], stocked, u)
=============================================================================
