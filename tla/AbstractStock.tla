---------------------------- MODULE AbstractStock ----------------------------
(* What stock control promises of a set of stock positions: every unit at a position is
   free or held.  Free units come in, go out, move to another position or are held;
   held units are freed again or leave for whoever holds them, and nothing else ever
   takes one.  StockReservations implements it.                                   *)
EXTENDS Integers

CONSTANT Positions

VARIABLES free, held

(* Nobody but p changes f. *)
Only(f, p) == f' = [f EXCEPT ![p] = f'[p]]

Init == free = [p \in Positions |-> 0] /\ held = [p \in Positions |-> 0]

Receive(p) == Only(free, p) /\ free'[p] > free[p] /\ held' = held

Take(p) == /\ Only(free, p) /\ free'[p] \in 0..free[p] - 1
           /\ held' = held

(* Units change between free and held, in either direction. *)
Convert(p) == /\ Only(free, p) /\ Only(held, p)
              /\ free'[p] >= 0 /\ held'[p] >= 0
              /\ free'[p] + held'[p] = free[p] + held[p]

Consume(p) == /\ Only(held, p) /\ held'[p] \in 0..held[p] - 1
              /\ free' = free

Move(p, q) == /\ p # q
              /\ free' = [free EXCEPT ![p] = free'[p], ![q] = free'[q]]
              /\ free'[p] \in 0..free[p] - 1
              /\ free'[p] + free'[q] = free[p] + free[q]
              /\ held' = held

Next == \E p \in Positions :
            \/ Receive(p)
            \/ Take(p)
            \/ Convert(p)
            \/ Consume(p)
            \/ \E q \in Positions : Move(p, q)

Spec == Init /\ [][Next]_<<free, held>>
=============================================================================
