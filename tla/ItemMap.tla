------------------------------- MODULE ItemMap -------------------------------
(***************************************************************************)
(* What rk_vendor_read and rk_vendor_write promise: a map from ids to      *)
(* strings of bytes.  A write is taken as a whole or refused, and changes  *)
(* no other item.                                                          *)
(***************************************************************************)
CONSTANTS
  Ids,       \* ids of items
  Strings,   \* what a caller may write
  Missing    \* none of them: no such item

VARIABLES
  store,     \* what a read of each id returns
  reply      \* the last write and if it was taken

vars == <<store, reply>>

Init ==
  /\ store = [i \in Ids |-> Missing]
  /\ reply = Missing

Take(i, bytes) ==
  /\ store' = [store EXCEPT ![i] = bytes]
  /\ reply' = [id |-> i, bytes |-> bytes, taken |-> TRUE]

Refuse(i, bytes) ==
  /\ reply' = [id |-> i, bytes |-> bytes, taken |-> FALSE]
  /\ UNCHANGED store

Next == \E i \in Ids, bytes \in Strings : Take(i, bytes) \/ Refuse(i, bytes)

Spec == Init /\ [][Next]_vars
=============================================================================
