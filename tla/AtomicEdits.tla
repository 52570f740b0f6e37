----------------------------- MODULE AtomicEdits -----------------------------
(* What editing promises: an edit reaches all the rows it is about in one step and is
   never taken back by another.  BackgroundJobs implements it with versioned rows.  *)
EXTENDS Naturals

CONSTANTS Rows, Edits

VARIABLE content    \* the edits each row shows

Init == content = [r \in Rows |-> {}]

Apply(e, about) ==
    content' = [r \in Rows |-> IF r \in about THEN content[r] \cup {e} ELSE content[r]]

Next == \E e \in Edits, about \in {Rows} \cup {{r} : r \in Rows} : Apply(e, about)

Spec == Init /\ [][Next]_content
=============================================================================
