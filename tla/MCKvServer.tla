----------------------------- MODULE MCKvServer -----------------------------
(* KvServer with its keys, values and clients interchangeable: no action and no *)
(* safety property tells them apart.  Servers are numbers, visited in order.    *)
EXTENDS KvServerInv, KvServerRefinement, TLC

Symmetry == Permutations(Key) \cup Permutations(Value) \cup Permutations(Client)
=============================================================================
