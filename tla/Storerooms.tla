------------------------------- MODULE Storerooms -------------------------------
(* InventoryService: the storerooms and the two operations that write them.  Of a
   storeroom row the model keeps its status and the flags the stock services read.
   Like an item, a storeroom is closed without a look at the stock it holds.     *)
EXTENDS InventorySupport

CONSTANTS StoreroomIds,   \* the storerooms that may be created
          StoreroomFlags  \* the flag settings a caller may choose

ASSUME StoreroomFlagsAssumption ==
    StoreroomFlags \subseteq [allows_issue : BOOLEAN, allows_transfer : BOOLEAN,
                              requires_reservation_for_issue : BOOLEAN]

VARIABLE storeroom

StoreroomRows ==
    [status : StoreroomStatuses, flags : StoreroomFlags]

StoreroomTypeOK == storeroom \in [StoreroomIds -> StoreroomRows \cup {None}]

StoreroomInit == storeroom = [s \in StoreroomIds |-> None]

CreateStoreroom(s, status, flags) ==
    /\ storeroom[s] = None
    /\ storeroom' = [storeroom EXCEPT ![s] = [status |-> status, flags |-> flags]]

UpdateStoreroom(s, status, isActive, flags) ==
    /\ storeroom[s] # None
    /\ LET next == RequestedStatus(storeroom[s].status, status, isActive)
       IN  /\ ValidTransition(storeroom[s].status, next, STOREROOM_STATUS_TRANSITIONS)
           /\ storeroom' = [storeroom EXCEPT ![s] = [status |-> next, flags |-> flags]]

StoreroomNext ==
    \E s \in StoreroomIds, flags \in StoreroomFlags :
        \/ \E status \in StoreroomStatuses : CreateStoreroom(s, status, flags)
        \/ \E request \in StatusRequests(StoreroomStatuses) :
              UpdateStoreroom(s, request[1], request[2], flags)
=============================================================================
