------------------------------ MODULE Collection ------------------------------
(***************************************************************************)
(* What a JSON collection of the workbench promises its users: append adds *)
(* one item under an id above every id in use, update_item changes one     *)
(* item, and nothing else changes the collection.  WorkbenchStore          *)
(* implements it on a file that several processes replace.                 *)
(***************************************************************************)
EXTENDS Naturals, Sequences

CONSTANTS Key,      \* what an item is about (a run id, a project root)
          MaxItems  \* bound: ids that append may give

VARIABLE items

NoId == 0   \* the id of an item that append did not add

Value == { "new", "updated", "rewritten" }
Item == [ id : 0..MaxItems, key : Key, val : Value ]

Init == items = <<>>

Add(k) ==
  \E n \in 1..MaxItems :
    /\ \A i \in DOMAIN items : items[i].id < n
    /\ items' = Append(items, [ id |-> n, key |-> k, val |-> "new" ])

Update(i) ==
  /\ items[i].id # NoId
  /\ items' = [ items EXCEPT ![i].val = "updated" ]

Next ==
  \/ \E k \in Key : Add(k)
  \/ \E i \in DOMAIN items : Update(i)

Spec == Init /\ [][Next]_items
=============================================================================
