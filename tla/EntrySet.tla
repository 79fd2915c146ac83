------------------------------ MODULE EntrySet ------------------------------
(* What the containers of entries promise, the red-black tree and the hash
   table both: a set of keys that is changed one call at a time. *)
CONSTANT Key
VARIABLE keys

Init == keys = {}

Insert(key) == keys' = keys \union {key}
Remove(key) == keys' = keys \ {key}
Clear == keys' = {}

Next == Clear \/ \E key \in Key : Insert(key) \/ Remove(key)

Spec == Init /\ [][Next]_keys
=============================================================================
