------------------------------ MODULE MCIxIndex ------------------------------
(* Three scenarios: trees built from nothing in every order of calls, one  *)
(* leaf and its first split with two record ids per key, and calls on a    *)
(* tree of three levels that create_index has built.                       *)
EXTENDS IxIndex

CONSTANTS r1, r2

Keys == 1..21
Evens == [i \in 1..10 |-> 2 * i]
Scenarios ==
  {[build |-> <<>>, keys |-> 1..9, rids |-> {r1}, ops |-> 10],
   [build |-> <<>>, keys |-> 1..4, rids |-> {r1, r2}, ops |-> 6],
   [build |-> Evens, keys |-> {1, 2, 4, 9, 10, 11, 19, 20, 21}, rids |-> {r1}, ops |-> 6]}
=============================================================================
