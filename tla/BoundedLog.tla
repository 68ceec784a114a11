----------------------------- MODULE BoundedLog -----------------------------
(***************************************************************************)
(* What the list of each Logger object is for whoever searches it: the     *)
(* last Limit items, oldest first, less those that were popped or cleared. *)
(***************************************************************************)
EXTENDS Naturals, Sequences

CONSTANTS Logs, Items, Limit

VARIABLE items

Init == items = [l \in Logs |-> <<>>]

Add(l, item) ==
  items' = [items EXCEPT ![l] = Append(IF Len(@) = Limit THEN Tail(@) ELSE @,
                                       item)]

Pop(l) ==
  /\ items[l] # <<>>
  /\ items' = [items EXCEPT ![l] = SubSeq(@, 1, Len(@) - 1)]

Clear(l) == items' = [items EXCEPT ![l] = <<>>]

Next ==
  \E l \in Logs : Pop(l) \/ Clear(l) \/ \E item \in Items : Add(l, item)

Spec == Init /\ [][Next]_items
=============================================================================
